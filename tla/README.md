# Verification of uws-reverse-proxy

TLA+ models of the reverse proxy in `src/src/`, the TLC runs that check them and
the TLAPS proofs about them. Paths below are relative to `src/src/` unless they
say otherwise.

## 1. The system

The proxy takes requests from uWebSockets.js and forwards them over a small set
of pipelined HTTP/1.1 connections to one target server.

```
uWebSockets.js client --> UWSProxy._handleRequest --> Client.request
                                                        | awaits a Connection
                                                        v
   Pipeline.scheduleSend <-- Sender.send <-- Connection.send
        | setImmediate                                   ^
        v                                                | 'data'
   Sender._send --> socket to the target server --> Parser.feed
        | onData, 'drain'                                | events
   request body                                          v
   uWS response  <-- Pipeline (peek, _dataStream) <------+
        ^                                                | errors, close
        +------ UWSProxy error callback <----------------+
```

| Component | State | Operations | Hard behaviour |
|---|---|---|---|
| `UWSProxy.js` | options; the property `aborted` of a response | `_handleRequest`, the error callback, `_tryTo...` | a client leaves before its request is scheduled; an error after half a response; an application's handler that throws or answers later |
| `http/Client.js` | `_connections`, `_pendingConnections`, `_closed` | `request`, `_getConnection`, `_createConnection`, handlers of `closed`, `error`, `connected`, watcher, `close` | promises shared by requests, two lists updated by events of several connections, limits |
| `http/Connection.js` | `_state`, `_socket`, `_reopenAttempts`, `_lastActivity` | socket events, `send`, `close`, `isAvailable` | refused connections and their timer, half-closed sockets |
| `http/1.1/Sender.js` | `_requestBuffer`, per-body context | `send`, `_send`, `_stream`, `_trySendChunk` | backpressure towards the server, aborts while a body is streamed, listeners of one `drain` |
| `http/1.1/strategies/Pipeline.js` | `_pendingRequests`, `_dataStream`, `_lock`, the pending buffer | `scheduleSend`, the parser's events, `addBody`, `terminateRequest`, `close` | responses must reach the right client, in order, with slow and leaving clients |
| `http/1.1/Parser.js` | position in the response | `feed`, `reset` | a byte machine that must stay in step with the pipeline for every split of the bytes |
| `utils/uwsHelpers.js` | none | `decodeRequest`, `writeHeaders` | |
| `http/1.1/strategies/Sequential.js`, the interfaces | none | none: `Sequential` throws | |

Components interact by direct calls, by events (`headers`, `body_chunk`,
`body_read_mode`, `error` of the parser; `connected`, `closed`, `error` of a
connection; `drain` of a socket) and by callbacks they register on uWebSockets.js
responses, which keep only the last `onAborted`, `onData` and `onWritable`. All of it
is one thread: a callback runs to its end. The concurrency is in the order of
callbacks.

What makes each component correct:

* Pipeline: a client gets its own status, headers and body, whole and in order;
  every scheduled request is answered, failed once, or ignored to its end if its
  client left; a paused stream is resumed; the queue is what the server will answer.
* Client and Connection: the host's limit is respected, every live connection is in
  the pool, nothing dead is offered, whoever awaits a connection is woken, every
  request is answered or fails.
* Sender: the chunks of a body are sent once and in order; a body that its client cuts
  short still has the length that was announced; what waits for the socket goes on.
* Parser: the responses decoded are the responses sent, for every split into buffers, and
  its events follow the protocol the pipeline relies on.
* Error handling: a request fails once, its client is told so, and its response ends.

## 2. The modules

| Module | Models | State |
|---|---|---|
| `Pipeline` | one connection with its pipeline: `Pipeline.js`, `Sender._send`, the parser's events, the handlers that schedule and abort | `pending` `stale` `contentLength` `stream` `paused` `lock` `buffer` are the fields of the pipeline; `client` `aborted` `blocked` `writable` are the uWebSockets.js responses; `heads` `body` record what each client was sent; `stage` `failures` `immediates` follow a request to the socket; `socket` `wire` `rx` are the connection, what the server has still to answer, and the parser: what it reads of a response, and where within it an error has reset it |
| `Exchange` | abstract: what one pipelined connection promises its clients | `line` `fate` `head` `got` |
| `ConnectionPool` | `Client.js` and `Connection.js` for one host | `pool` `pend` `closed` `promise`; `state` `socket` `attempts` `timer` `locked`; `stage` `on` |
| `Parser` | `Parser.js`, one iteration of the loop of `feed` an action | `p` holds the fields of the parser, `data` and `i` the buffer and its index, `stream` what is still to come, `out` what the events have told |
| `Framing` | abstract: the order and sizes of the events of a response parser, which `Pipeline` assumes | `begun` `rx` `got` |
| `Sender` | `Sender.js` over one socket that may have backpressure | `context` is the closure of `_stream`, `listeners` `emitting` the `once('drain')` handlers, `immediates` the callbacks of `scheduleSend`, `upload` `ending` what was written for a body, `stage` `client` `arrived` `lost` the requests |
| `ErrorHandling` | `UWSProxy._handleRequest` and all of its error handling, with the catch of `Client.request` and the loop of `Pipeline.close` | `handler` is the application's, `pending` `socket` the pipeline, `response` what each client was sent, `failure` the first error, `promised` unsettled answers |
| `ServerResponses` | external: what a server puts on the wire for its responses, as the properties of `Parser` rely on it: `Wire`, and `Framed`, the responses whose body ends where their head says | |
| `MC...` | instances for TLC | |
| `SequenceFacts` | lemmas on sequences used by the proofs, with induction and `FlattenSeq` | |
| `PipelineProofs`, `PipelineOrderProofs`, `PipelineSingleProofs` | theorems about `Pipeline`: always, with clients that keep up, with a limit of one | |
| `ParserProofs`, `ConnectionPoolProofs`, `SenderProofs`, `ErrorHandlingProofs` | theorems about the others | |

Composition. `Pipeline` contains what its peers do to it: the parser's events, the
callbacks of the sender, the error callback, the closing of the socket. The modules
that look into a peer state what they owe in return: `Parser` implements
`Framing`, which is how `Pipeline` assumes events to come; `ErrorHandling` refines what a
failure, one counter in `Pipeline`, means to a client; `ConnectionPool` treats a pipeline
as a set of requests in flight that is full, locked, or not. `Sender` and `Pipeline` share
`Send`: what comes before and after it in the queue is in `Pipeline`, what becomes of the
body in `Sender`.

Actions and code, `Pipeline`:

| Action | Code |
|---|---|
| `HandleRequest` | `UWSProxy._handleRequest`, up to the promised connection |
| `ScheduleSend` (`Refuse`, `Enqueue`) | `Connection.send`, `Sender.send`, `Pipeline.scheduleSend` |
| `Send` | the `setImmediate` callback: `Sender._send` |
| `Abort` | the abort handler that is registered at the time: `UWSProxy`'s, then the pipeline's |
| `OnWritable` (`RetryBuffer`) | the writable handler registered at the time |
| `Headers` (`GiveHeaders`), `BodyChunk` (`Push`), `ParserError` | the parser's events and the pipeline's handlers |
| `Flow` (`Deliver`) | the `data` handler of the stream; `SendStreamChunk`, `SendChunk` are `_sendStreamChunk`, `_sendChunk` |
| `EndSocket`, `SocketClosed` (`CloseAll`) | `Connection.close`, the socket's `close` event, `Pipeline.close` |

`ConnectionPool`:

| Action | Code |
|---|---|
| `Request` (`Create`, `Select`, `WriteAfterEnd`), `RequestRefused` | `Client.request`, `_getConnection`, `_createConnection`, then `Connection.send` |
| `Connected`, `ConnectionRefused` (`TryAgain`, `GiveUp`), `ConnectError`, `Reopen`, `SocketClosed` | the socket's events and the handlers of the client |
| `Answer`, `Lock`, `ParserError` | what responses do to a connection, in outline |
| `Watch`, `Close` (`EndSockets`) | the idle watcher, at any time, and `Client.close`; `Connection.close` |

`Parser`:

| Action | Code |
|---|---|
| `Feed` | `feed` is called with the next buffer |
| `ReadVersion`, `ReadStatusCode`, `ReadStatusMessage`, `ReadColon`, `ReadField`, `ReadReturn`, `EndOfLine`, `EndOfHeaders`, `ReportLength` | the branches of the loop before the body, in their order |
| `ReadNoBody`, `ReadFixed`, `ReadUntilClose` | the branches for a body without chunks |
| `ReadChunkSize`, `ReportChunkSize`, `BeginChunk`, `EndChunked`, `ReadChunkData`, `EndChunk` | those for chunks |

`Sender`:

| Action | Code |
|---|---|
| `HandleRequest`, `Schedule` | `UWSProxy._handleRequest`; `send` with `scheduleSend` |
| `Send` (`WriteHead`, `Stream`) | `_send`, `_stream` |
| `Data` (`TrySendChunk`), `Abort` (`EndOfBody`) | the `onData` and `onAborted` handlers of `_stream` |
| `Drain`, `HeadDrained`, `SendStacked`, `SendUndefined` | the `drain` event and the handlers of `_send` and `_trySendChunk` it calls, one after the other |

`ErrorHandling`:

| Action | Code |
|---|---|
| `HandleRequest`, `Refuse`, `Schedule` | `_handleRequest`, the catch of `Client.request`, `scheduleSend` |
| `Begin`, `Part`, `Finish`, `Abort` | what the pipeline does to a response meanwhile, in outline |
| `SocketError`, `SocketClosed`, `ParserError` (`ClosePipeline`) | the events that call `Pipeline.close`, and its loop over the error callbacks |
| `Settle` (`TryToSendErrorResponse`) | the continuation of the handler's promise |

How the code is abstracted:

* One JavaScript callback is one action. `Readable.resume()` only queues a
  `nextTick`; Node runs it before any other callback (`CallbackMayRun`), but
  `Parser.feed` goes on emitting events of the same buffer first (`inFeed`).
* A settled promise runs its continuations before any other callback, so settling it
  and sending or failing what awaits it are one step. `error` and `close` of a socket
  come in one tick; they are one step in `ConnectionPool`, and two in `ErrorHandling`,
  where each closes the pipeline.
* Bodies are sequences of units that are told apart by whose they are and which: the
  properties do not look at bytes. A write may take any part of a chunk where a client
  can be behind (`Backpressure`).
* The server answers in the order of the requests (that is HTTP/1.1) with any read mode,
  and errs only as `ParserErrors` lets it. A parser error resets the parser in the middle of
  a response, and it takes what follows for the beginning of another one. It may read
  anything there: in `Pipeline` it announces responses and units that are made of the remains
  of the malformed one, until the socket closes or it happens on the next response
  (`NextOrRemains`). `WithinRemains` bounds where the last of them may begin.
* `_pendingBuffer` taken from `undefined` throws and is caught: `RetryBuffer` then only
  clears the backpressure.
* The splice of an element that is not there removes the last one, as in JavaScript.
* `Parser`: one symbol per character that the parser looks at, and one per run of others
  that are read alike. The version is two symbols, so that its first byte can be lost; a
  unit of body is any symbol, line ends included.
* `Sender`: the result of a write to the socket is any Boolean; `drain` comes after a refused
  one. The pipeline's queue, and whether it marks a request stale, are in `Pipeline`. Chunks carry no bytes of their transfer-coding. An exception no caller catches
  ends the process (`crashed`).
* `ErrorHandling`: the application's handler is of one kind, chosen at the start: none,
  one that answers, one that promises, one that throws. What it throws is assumed to be
  caught by the application, since otherwise no response matters any more.

## 3. The runs

| Run | Bounds | Checks |
|---|---|---|
| `PipelineOrder` | 3 requests, no limit, bodies of 2 units, no backpressure, no parser error | `HeadersMatch` `BodyMatch` `DoneIsComplete` `QueueIsWire` `LockMode`, the refinement `ImplementsExchange`, `Answered` |
| `PipelineSingle` | 3 requests, limit 1, backpressure, no parser error | `HeadersMatch` `BodyMatch` `PausedHeadBlocked`, `Resumes` |
| `PipelineStress` | 3 requests, limit 2, backpressure, parser errors | `TypeOK` `NoOrphan` `FailedIsFinal` `AbortedIsStale` `BlockedIsHead` `UnitsOnce` `RetryWithinBuffer` |
| `Pool` | 3 requests, 3 connections, limit 2, 2 requests a pipeline, 1 reopening | `TypeOK` `SlotLimit` `WaitersWake` `SentOnLive` `PooledIsConnected` `ConnectedIsPooled` `HostLimitUntilFailure` `SlotsArePending`, `Settled` |
| `Parser` | all pairs of 10 kinds of responses and 27 triples, every split into buffers of 1, 2, 3, 7 and all symbols | `TypeOK` `Decoded` `AllDecoded`, the refinement `ImplementsFraming` |
| `Sender` | 2 requests, bodies of 4 chunks, limit of 3 stacked chunks | `TypeOK` `BodyIsWhole`, `PaddingIsExact`, `Drains` |
| `Errors` | 2 requests | `TypeOK` `ErrorIsSeen`, `ErrorsEnd` |
| `PipelineBypass` `PipelineUnfinished` `PoolSpliced` `ParserBodiless` `SenderDrained` | as small as they may be | each refutes one statement of the repository, see section 4 |

What they show. Without slow clients and malformed responses the pipeline is exactly
the in-order exchange of `Exchange`, whoever aborts when. With slow clients it still gives each
client its own response as long as it carries one request at a time. With several, or
after a malformed response, it does not (section 4); what holds then is in `PipelineStress`:
nobody is orphaned, failed twice, or served twice with the same data. The pool never leaves a request waiting for
what cannot happen and offers no dead connection, whatever fails; that the pool knows all its
connections and keeps to the host's limit holds until the first attempt to connect fails.
The parser decodes every stream of these kinds, wherever it is cut, and its events keep the
protocol of `Framing`. The sender loses no chunk it was given
until the process ends; chunks that a `drain` leaves behind are overtaken. The zeros that it
writes for a client that left complete the announced length exactly, unless that client left
under backpressure: `PaddingIsExact` says by how much the length is exceeded then. A client that had got
nothing when its request failed sees an error, unless the application's handler returns a
promise; and its response ends, unless that handler throws.

Bounds. Three requests are the least with one that is served, one that is next and one
that arrives meanwhile; the pipeline's state is about its oldest request, the next one and
the rest, and nothing counts further. Two units are the least body with a first and a last
part, a partial write and a chunk that waits. A limit of 1 and of 2 meet the check of the
limit from both sides. Three connections over a limit of two are the least with one
pooled, one failing and one created in the place of a slot. One reopening has a first and a
last attempt. For `Sender`, a body of 4 chunks has one refused, two stacked behind it and one that
overtakes; a limit of 3 can be reached and not be reached; two requests share the socket
(450 502 states). The errors of two requests have one that is reported and one behind it
(18 687 states; three requests have 716 669 and no others to tell). For `Parser`, what the parser
keeps from one response can reach the next one only, hence pairs; the triples put a
response of each kind between two others. In `PipelineStress` (1 744 313 states) the
remains of a malformed response are read as another one that may begin behind up to `MaxBody` units
(`WithinRemains`), one that is read to its end and one that is not; `PipelineOrder` and
`PipelineSingle` have 247 890 and 640 373 states. Nothing else is bounded, the requests,
connections and responses being finite. `CHECK_DEADLOCK FALSE` everywhere: when the finite
set of requests is served, nothing is left to do. `Symmetry` is used only by a run without
liveness.

Fairness. `Pipeline`: Node runs every queued callback (`ScheduleSend`, `Send`,
`Flow`); the server answers what it has received and closes a connection that ends a
response or was ended (`Server`, `ServerCloses`; nothing is assumed of a parser that has been reset); a client that is behind reads on
or its connection is closed, by itself or by the timeout of uWebSockets.js (`Unblock`). No client
is forced to arrive or abort. `ConnectionPool`: attempts to connect end and timers fire
(`NetworkFairness`), and a server answers a request or closes the connection
(`ServerFairness`), because the proxy has no timeout of its own: with a silent server nothing
settles. The watcher is not fair. `Sender`: queued callbacks and
listeners run, and the server reads what it was sent (`Drain`). `ErrorHandling`: a socket that
failed closes, and the application's promises are settled.

## 4. Divergences

Each of these runs states what the repository says and TLC refutes it.

| Run | Property | What happens |
|---|---|---|
| `PipelineBypass` | `HeadersMatch` | headers bypass the paused stream and reach the client of the response before |
| `PipelineUnfinished` | `DoneIsTerminated` | a response completed by `onWritable` never leaves the pipeline |
| `PoolSpliced` | `HostLimit` | `splice(-1, 1)` removes a live connection from the pool |
| `ParserBodiless` | `Decoded` | a 304 with a content-length takes its body from the next response |
| `SenderDrained` | `SurvivesBackpressure` | a `drain` with nothing stacked writes `undefined`, which ends the process |

Seen while modelling and faithfully kept in the models, without a run of their own:

Pipeline

* The lock stops nothing: requests are sent while the pipeline is locked (`Pipeline.js:215`).
* The abort of one client resumes the stream that is paused for another: a hole in the
  other's body (`Pipeline.js:241`). This is why `PipelineSingle` has a limit of 1.
* After a parser error the socket is half open and still `connected`, and the parser reads the
  rest of the malformed response as the next one. A request scheduled then can get headers
  and a body made of these remains, or the response of one that was thrown away
  (`Pipeline.js:144`, `Parser.js:209`, `298`). A limit of one does not help, since the
  pipeline is empty. This is why neither `PipelineOrder` nor `PipelineSingle` has parser errors.
* A client that leaves after its last chunk was put under backpressure stays at the head of
  the pipeline (`Pipeline.js:186`).

Client and Connection

* A rejected promise keeps its slot (`Client.js:248`).
* No timeout is enforced against a silent server, `opts.timeout` notwithstanding
  (`UWSProxy.js:130`, `425`).
* `isAvailable` is true after `close()` until the `close` event (`Connection.js:294`).
* At the limit any connection is chosen, full ones included; the search for an available
  one is never reached (`Client.js:188`, `277`).
* `Client.close` leaves pending connections alone (`Client.js:355`).
* `_activity` is not called when data are sent (`Connection.js:202`, `322`).
* With `isSecure` the constructor `tls.Socket` is used, which Node does not have
  (`Connection.js:230`): not modelled.

Sender

* A body with a content-length is never forwarded: without a transfer-encoding `_stream` returns,
  and what it compares to numbers is a string. Both framings occur only with option headers.
* Chunks that come before the head was written find no `onData` and are dropped.
* A `drain` sends one stacked chunk; later chunks overtake those left behind, or they stay.
* The head of the next request may be written in the middle of a body.
* At the limit `setStatus` is called, which a uWebSockets.js response does not have; and
  `onData` and `onAborted` throw if the client has left. Both end the process.
* The padding is "0s until content-length is reached" (`Sender.js:182`) by a counter that
  leaves out the chunk under backpressure: if the client leaves then, what is written exceeds the
  length by that chunk, and a chunk stacked behind it still follows. The server takes the excess
  for the beginning of the next request. (`PaddingIsExact` states both cases.)
* A client that leaves while its body is streamed is never marked stale: the handler
  of `_stream` has replaced the pipeline's, of which `Pipeline.js:236` says "Mark the request as
  stale so the data we continue to receive can be ignored". Each write to its response throws
  and is caught, and the request stays at the head of the pipeline.
* On an abort, a body whose coding is not exactly `chunked` is not ended.

Error handling

* A promise's answer arrives after `Pipeline.close` has ended the response: the client gets
  an empty 200.
* The text of an error is added to a response that has begun, under its status.
* A handler that throws leaves the loop of `close`; the requests behind it wait for the next
  event that closes the pipeline.
* `UWSProxy.js:581` looks for a code the parser does not use.

Parser

* In UNTIL_CLOSE mode the whole buffer is emitted once for each of its remaining bytes
  (`Parser.js:391`): the properties leave the bodies of that mode out.
* A response without header fields is not recognised until another line feed; trailers
  put the parser out of step; a HEAD response with a content-length, and a 1xx response, are read
  as if they were final ones with a body; duplicate headers are overwritten; a negative
  content-length never ends; a chunk error drops the rest of its buffer. Such responses
  are not among those of the runs.
* `reset` is called by the parser only.

## 5. The proofs

Each holds for every value of the constants, under the module's named assumption on
them. Two modules, `PipelineOrderProofs` and `PipelineSingleProofs`, add a hypothesis to
their theorems, and `ParserProofs` to two of its own, named there, because without it TLC refutes
the property. Every theorem follows the same argument: the strengthening named here
holds initially, each action preserves it (one lemma per action), and it implies the property.

`PipelineProofs` (`PipelineAssumption`): `TypeCorrectness`, `NoRequestIsOrphaned`,
`ErrorsAreFinal`, `AbortsAreMarked`, `BackpressureIsAtHead`, `RetryStaysInBuffer`, from
`InductiveInvariant`. The invariant is `TypeOK /\ Safe`, where `Safe` joins the five properties
with `Progress`: a request that is not scheduled is not in the pipeline and has not failed; one
that is marked stale or aborted has no usable response. Hardly any is inductive alone: `FailedIsFinal`
needs that a request is never queued again after it failed (`Progress`), `BlockedIsHead`
needs `NoOrphan` to know that a blocked response is not one whose request has left, and
`RetryWithinBuffer`, by which `OnWritable` keeps its type, needs `BlockedIsHead`. Most steps
touch no response but the oldest request's and let that request go only when its response
has ended; `HeadStepSafe` proves once that such a step keeps `Safe`.

`UnitsAreSentOnce`, in the same module and with no further hypothesis, is what is left of the
integrity of bodies when everything meets. `UnitsOnce` says nothing of what is still on its way, so
its invariant `UnitsAreApart` follows each unit through the pipeline: it is in one place
only, a body that was sent, the rest of the pending buffer or a chunk in the stream (`Given`,
`Streamed`, `AllEmitted`), the parser has read it, and the parser never reads for a request twice
(`Line`). Data may be given to the wrong client, cut or dropped, and never twice.

`PipelineOrderProofs` (and `Plain`: no backpressure, no parser error): `HeadersGoHome`, `BodiesGoHome`,
`DoneResponsesAreComplete`, `QueueFollowsWire`, `LockIsUntilClose`, and `PipelineImplementsExchange`,
the refinement step by step, from `OrderIsInvariant`. Any number of requests and any limit, clients that
leave and connections that close at any time. What carries it is `Queue`, that the pipeline's queue
is what the server has to answer and then what is to be sent: then the request the parser reads for is the
one `peek` finds, and `Responses` can say of that one that it got what the parser has read, and of
those behind it that they got nothing. With backpressure the headers bypass the
stream (`PipelineBypass`), and after a parser error the queue, the server and the parser part, so
neither hypothesis can be dropped.

`PipelineSingleProofs` (and `Single`: `MaxRequests = 1` and no parser error), with backpressure:
`SingleHeadersGoHome`, `SingleBodiesGoHome`, `SinglePauseHasAReason`, and `SingleDoneIsComplete`, from
`SingleIsOrderly`. A response can now be cut by partial writes, wait in the pending buffer while later
chunks wait in the stream, and resume anywhere. The invariant says that these are one run of
units: the body that was sent ends where the rest of the buffer begins, that ends where the first
chunk begins, each chunk ends where the next one begins, and the last one ends where the parser has
read (`Chained`, an offset for each chunk; `Position`, `Got`). `Pauses` says that the stream is
paused exactly while a waiting client is behind; `Served` that the handler registered for that client
knows how to go on. The lemmas on `Chained`
(append, tail, empty) are what each handler needs of it.

`ConnectionPoolProofs` (`PoolAssumption`): all of the pool's invariants, from `PoolInvariant`. The
strengthening adds that no list holds a connection twice (`Slots`) and that a promise is
pending exactly while an attempt or a timer is under way, and is then in its list
(`Promises`). The case that carries the weight is the splice of a connection that is not there
(`SpliceType`): it can only take something away, which is why the limit on slots and the soundness
of the pool survive it, and completeness holds until a failure only.
`SocketsAreLimited` counts: the sockets of the host are within the two lists.

`ParserProofs` (`ParserAssumption`): `ParserTypes`, and `ParserImplementsFraming`, the refinement:
`Framing` is implemented for every sequence of symbols, sensible or not, and every split. The
invariant adds to the types what the parser has read of a body when it is not in one, and that
it equals what was told of it (`Reading`).

`ParserDecodes` and `ParserDecodesAll`, in the same module (and `WireAssumption`, and the
hypothesis `WellEncoded`): for streams of any number of responses, with any fields, chunks, sizes and chunk
extension, and every split into buffers, what the events tell is what was sent. `WellEncoded` says that
the server sends responses as `ServerResponses` writes them, each of them `Framed`:

* its head says how its body is delimited (`CodingOf`), and the body ends there. A 304
  that has a content-length and no body is not such a response: `ParserBodiless` refutes `Decoded` with one. Nor is a 302 or 307 that has a body and neither field,
  which the parser takes to be empty (`Parser.js:133`);
* it has at least one field, for the parser does not find the end of a head without fields, and none
  twice, for the parser keeps the last one; no line ends within a field (`CleanFields`);
* malformed is a content-length that is not a number, or a chunk without size after the others.

`EndingAssumption` in `MCParser` has TLC check that the responses of the run `Parser` are `Framed`, so that the
hypothesis is one the checked streams satisfy. The inductive invariant is `Following`. `Decoded` is not inductive,
since it says nothing of where the parser is. `Following` says that the buffer and what has not arrived
are the end of what was sent (`Arrived`), and that for some k the responses before the k-th were told to their
end (`Behind`), and the parser is in the head of the k-th (`ReadingHead`), in its body (`ReadingBody`), or has
reported it as malformed, after which the properties ask nothing more (`Lost`). `InHead` and `InBody` relate every
field of the parser to the number q of symbols it is behind the beginning of that response: which fields
it has and how much of a name or value, how much of a body or chunk it has read and told. q may be
negative: the parser resets after the line of the last chunk, and reads the line end behind it as the beginning of the
next version; the invariant then says that these two symbols are that line end, which is why no byte of the
next response is lost. Each branch of `feed` has a lemma that it leads from one place to the next (the
`...Phase` lemmas for a byte of a head or a chunk, `...Goes` for a body); `BodyFollows` and `HeadFollows` put them together.
`FollowingDecodesAll` adds that at the end of the bytes the parser can only be at the end of a response, or
in one that ends with the connection.

`SenderProofs` (`SenderAssumption`): `SenderTypes`, `BodiesAreWhole`, and the action property
`PaddingMeetsLength`, from `SenderInvariant`. It adds that a request that waits to be
sent is scheduled (`Line`), that only the body of a client that left is ended in its place (`Ends`), that every listener is registered once and waits for what its request
waits for (`Waiters`), and that the context counts what was written but for the chunk under
backpressure (`Bodies`). `Waiters` and `Bodies` need each other: a drain handler may count its chunk only
because there is one under backpressure for each listener. `ChunkStep` shows once what a step that
writes or stacks a chunk has to establish. `PaddingIsExact` follows step by step: by `Bodies` the zeros
complete what was counted, by `Ends` no chunk arrives after them, and by `Waiters` a chunk is sent
by a `drain` only while one is under backpressure.

`ErrorHandlingProofs` (no assumption): `ErrorTypes`, `ErrorsAreSeen`. The invariant adds that a request is
in the pipeline once, cannot fail before it is scheduled or refused, and that an open response of
a failed request is as untouched as it was.

`SequenceFacts` has the lemmas on appending, removing and concatenating that these share, and those
on `FlattenSeq`, of which messages are made: it puts its sequences one behind the other without a gap
(`FlattenAt`, `HasAtFlatten`), so that the k-th field, chunk or response is at its `Offset`. `FlattenSeq` is
recursive. The library's rule of induction takes an operator as a parameter, which the provers cannot instantiate;
`Induct` states induction for sets of numbers instead, and is proved from the theorem that < is well-founded.

Only model-checked: everything that uses fairness (`Answered`, `Resumes`, `Settled`, `Drains`, `ErrorsEnd`), which
is beyond the prover. Every invariant, the action property and the two refinements that the passing runs check are proved.

## 6. Not modelled

* Configuration (`createHTTPConfig`, `createUWSConfig`, `start`), TLS options, keep-alive of
  TCP: data handed to libraries. `decodeRequest` copies data.
* `Sequential.js` and the interfaces have no behaviour.
* Several hosts: the client keeps separate lists for each, nothing is shared but `_closed`.
* In `Sender` the closing of the socket, which `Pipeline` has, and the bytes of a body's
  transfer-coding. In `Pipeline` the bodies of requests, which `Sender` has.

## 7. Plan

The pipeline was modelled first, because every client's response depends on it; then the pool;
then what feeds them: the parser, the sender, the error handling. What is left is a `Sender` with a
socket that closes, to say what becomes of listeners and stacked chunks of a connection that is gone.
