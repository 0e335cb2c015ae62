------------------------------ MODULE Pipeline ------------------------------
(***************************************************************************)
(* One HTTP/1.1 connection to the target server with its request pipeline: *)
(* src/src/http/1.1/strategies/Pipeline.js, driven by the handlers that    *)
(* feed it (UWSProxy._handleRequest, Client.request, Connection.send,      *)
(* Sender.send) and by the events of the response parser.                  *)
(*                                                                         *)
(* JavaScript runs one callback at a time, so every callback is one        *)
(* action.  What remains concurrent is the order of callbacks: clients     *)
(* that arrive, abort or become writable, setImmediate callbacks, data     *)
(* and close events of the socket, and the nextTick that restarts a        *)
(* resumed stream.                                                         *)
(***************************************************************************)
EXTENDS Integers, Sequences, SequencesExt

CONSTANTS
    Requests,       \* the client requests that may be proxied
    MaxRequests,    \* maxPipelinedRequestsByConnection; 0 disables the limit
    MaxBody,        \* bound: units of body in one response
    Backpressure,   \* TRUE iff a client may read slower than it is written to
    ParserErrors    \* TRUE iff the server may send a malformed response

ASSUME PipelineAssumption ==
    /\ MaxRequests \in Nat
    /\ MaxBody \in Nat \ {0}
    /\ Backpressure \in BOOLEAN
    /\ ParserErrors \in BOOLEAN

VARIABLES
    \* Pipeline
    pending,        \* _pendingRequests, oldest first
    stale,          \* the stale flag of each pipelined request
    contentLength,  \* 'content-length' of the headers given to it, 0 if absent
    stream,         \* chunks buffered in _dataStream
    paused,         \* _dataStream is paused
    lock,           \* _lock
    buffer,         \* _pendingBuffer, its offset and _pendingRequestTotalSize
    \* uWebSockets.js responses
    client,         \* may the response still be used?
    aborted,        \* the property UWSProxy puts on an aborted response
    heads,          \* history: whose status and headers the client was sent
    body,           \* history: the units of body the client was sent
    blocked,        \* the client's socket has backpressure
    writable,       \* which onWritable handler is registered
    \* the way of a request to the socket
    stage,          \* progress of the request in Client.request
    failures,       \* how often its callback was called with an error
    immediates,     \* queued setImmediate callbacks of scheduleSend
    \* the connection and the parser
    socket,         \* state of the socket to the target server
    wire,           \* requests the server has received and not fully answered
    rx,             \* the parser's position in the response to Head(wire)
                    \* (read), and where it was reset within it (from)
    inFeed          \* Parser.feed has queued a resume and may emit more events

queueVars    == <<pending, lock, paused>>
responseVars == <<aborted, heads, body, blocked, writable>>
requestVars  == <<stage, failures, immediates>>
serverVars   == <<socket, wire, rx>>
vars == <<queueVars, stale, contentLength, stream, buffer, client,
          responseVars, requestVars, serverVars, inFeed>>

Units    == Requests \X Nat
Chunks   == [data : Seq(Units), last : BOOLEAN]
NoBuffer == [data |-> <<>>, offset |-> 0, total |-> 0]
Readings == [mode : {"IDLE", "FIXED", "CHUNKED", "UNTIL_CLOSE"},
             size : Nat, read : Nat, from : Nat]
Idle     == [mode |-> "IDLE", size |-> 0, read |-> 0, from |-> 0]

\* The types of the variables, and the limit on the pipeline's length that
\* scheduleSend enforces.
TypeOK ==
    /\ pending \in Seq(Requests)
    /\ MaxRequests > 0 => Len(pending) <= MaxRequests
    /\ stale \in [Requests -> BOOLEAN]
    /\ contentLength \in [Requests -> Nat]
    /\ stream \in Seq(Chunks)
    /\ paused \in BOOLEAN
    /\ lock \in BOOLEAN
    /\ buffer \in [data : Seq(Units), offset : Nat, total : Nat]
    /\ client \in [Requests -> {"none", "open", "done", "aborted"}]
    /\ aborted \in [Requests -> BOOLEAN]
    /\ heads \in [Requests -> Seq(Requests)]
    /\ body \in [Requests -> Seq(Units)]
    /\ blocked \in [Requests -> BOOLEAN]
    /\ writable \in [Requests -> {"retry", "resume", "end"}]
    /\ stage \in [Requests -> {"new", "connecting", "queued", "refused"}]
    /\ failures \in [Requests -> Nat]
    /\ immediates \in Seq(Requests)
    /\ socket \in {"open", "ending", "closed"}
    /\ wire \in Seq(Requests)
    /\ rx \in Readings
    /\ inFeed \in BOOLEAN

\* A new connection that the target server has accepted.
Init ==
    /\ pending = <<>>
    /\ stale = [r \in Requests |-> FALSE]
    /\ contentLength = [r \in Requests |-> 0]
    /\ stream = <<>>
    /\ paused = FALSE
    /\ lock = FALSE
    /\ buffer = NoBuffer
    /\ client = [r \in Requests |-> "none"]
    /\ aborted = [r \in Requests |-> FALSE]
    /\ heads = [r \in Requests |-> <<>>]
    /\ body = [r \in Requests |-> <<>>]
    /\ blocked = [r \in Requests |-> FALSE]
    /\ writable = [r \in Requests |-> "retry"]
    /\ stage = [r \in Requests |-> "new"]
    /\ failures = [r \in Requests |-> 0]
    /\ immediates = <<>>
    /\ socket = "open"
    /\ wire = <<>>
    /\ rx = Idle
    /\ inFeed = FALSE

-----------------------------------------------------------------------------
(***************************************************************************)
(* Scheduling.  resume() only queues a nextTick; Node runs that tick       *)
(* before any other callback, but a parser that is in the middle of a      *)
(* buffer goes on emitting events before the tick runs.                    *)
(***************************************************************************)
Draining == ~paused /\ stream # <<>>
CallbackMayRun == ~Draining
ParserMayRun == (~Draining \/ inFeed) /\ socket # "closed"

Pending == ToSet(pending)

-----------------------------------------------------------------------------
(***************************************************************************)
(* Writing a response.                                                     *)
(***************************************************************************)

\* Mutant: the newest request is forgotten instead of the oldest.
TerminateNewest ==
    IF pending = <<>>
    THEN UNCHANGED queueVars
    ELSE /\ pending' = Front(pending)
         /\ lock' = FALSE
         /\ paused' = FALSE

\* terminateRequest: forget the oldest request, unlock, resume the stream.
TerminateRequest ==
    IF pending = <<>>
    THEN UNCHANGED queueVars
    ELSE /\ pending' = Tail(pending)
         /\ lock' = FALSE
         /\ paused' = FALSE

\* What end() makes of a response; one that was ended or aborted throws.
Ended(state) == IF state = "open" THEN "done" ELSE state
EndResponse(r) == [client EXCEPT ![r] = Ended(@)]

\* How many units of data tryEnd takes.
Accepted(data) == IF Backpressure THEN 0 .. Len(data) ELSE {Len(data)}

\* Mutant: an aborted request leaves with the first chunk of its response.
IgnoreOneChunk(r, last) ==
    /\ stale[r] \/ aborted[r]
    /\ TerminateRequest
    /\ UNCHANGED <<client, body, blocked, writable, buffer>>

\* The data of an aborted request is ignored up to its last chunk.  addBody
\* ends a request that is aborted and not marked stale at its first chunk.
IgnoreChunk(r, last) ==
    /\ stale[r] \/ aborted[r]
    /\ IF last \/ ~stale[r] THEN TerminateRequest ELSE UNCHANGED queueVars
    /\ UNCHANGED <<client, body, blocked, writable, buffer>>

\* Mutant: the response ends with its first chunk.
SendOnlyChunk(r, data, last) ==
    /\ body' = [body EXCEPT ![r] = @ \o data]
    /\ TerminateRequest
    /\ client' = EndResponse(r)
    /\ UNCHANGED <<blocked, writable, buffer>>

\* Mutant: under backpressure too, the request leaves with its last chunk.
SendStreamChunkEarly(r, data, last) ==
    /\ body' = [body EXCEPT ![r] = @ \o data]
    /\ IF last THEN TerminateRequest ELSE UNCHANGED queueVars
    /\ \/ /\ client' = IF last THEN EndResponse(r) ELSE client
          /\ UNCHANGED <<blocked, writable>>
       \/ /\ Backpressure /\ data # <<>>
          /\ blocked' = [blocked EXCEPT ![r] = TRUE]
          /\ writable' = [writable EXCEPT ![r] = IF last THEN "end" ELSE "resume"]
          /\ UNCHANGED client
    /\ UNCHANGED buffer

\* _sendStreamChunk: write() takes everything and tells whether the client
\* is behind; an empty write never is.
SendStreamChunk(r, data, last) ==
    /\ body' = [body EXCEPT ![r] = @ \o data]
    /\ \/ /\ IF last THEN TerminateRequest ELSE UNCHANGED queueVars
          /\ client' = IF last THEN EndResponse(r) ELSE client
          /\ UNCHANGED <<blocked, writable>>
       \/ /\ Backpressure /\ data # <<>>
          /\ paused' = TRUE
          /\ blocked' = [blocked EXCEPT ![r] = TRUE]
          /\ writable' = [writable EXCEPT ![r] = IF last THEN "end" ELSE "resume"]
          /\ UNCHANGED <<pending, lock, client>>
    /\ UNCHANGED buffer

\* Mutant: the response ends when the chunk was taken, or is buffered with the
\* offset of its end.
SendChunkDone(r, data, total) ==
    \E n \in Accepted(data) :
       LET ok == n = Len(data)
       IN /\ body' = [body EXCEPT ![r] = @ \o SubSeq(data, 1, n)]
          /\ IF ok
             THEN /\ TerminateRequest
                  /\ client' = EndResponse(r)
                  /\ UNCHANGED <<blocked, buffer>>
             ELSE /\ paused' = TRUE
                  /\ blocked' = [blocked EXCEPT ![r] = TRUE]
                  /\ buffer' = [data |-> data, offset |-> Len(body[r]) + Len(data),
                                total |-> total]
                  /\ UNCHANGED <<pending, lock, client>>
          /\ UNCHANGED writable

\* _sendChunk: tryEnd() takes what fits, and ends the response when the
\* announced size is reached.
SendChunk(r, data, total) ==
    \E n \in Accepted(data) :
       LET done == Len(body[r]) + n = total
           ok   == n = Len(data)
       IN /\ body' = [body EXCEPT ![r] = @ \o SubSeq(data, 1, n)]
          /\ IF done
             THEN /\ TerminateRequest
                  /\ client' = EndResponse(r)
                  /\ UNCHANGED <<blocked, buffer>>
             ELSE /\ paused' = ~ok
                  /\ blocked' = [blocked EXCEPT ![r] = @ \/ ~ok]
                  /\ buffer' = IF ok THEN buffer
                               ELSE [data |-> data, offset |-> Len(body[r]),
                                     total |-> total]
                  /\ UNCHANGED <<pending, lock, client>>
          /\ UNCHANGED writable

\* The 'data' handler of _dataStream.
Deliver(data, last) ==
    /\ \/ /\ pending = <<>>
          /\ UNCHANGED <<queueVars, client, body, blocked, writable, buffer>>
       \/ /\ pending # <<>>
          /\ LET r == Head(pending)
             IN \/ IgnoreChunk(r, last)
                \/ /\ ~stale[r] /\ ~aborted[r] /\ client[r] # "open"
                   /\ UNCHANGED <<queueVars, client, body, blocked, writable, buffer>>
                \/ /\ ~stale[r] /\ ~aborted[r] /\ client[r] = "open"
                   /\ IF contentLength[r] = 0
                      THEN SendStreamChunk(r, data, last)
                      ELSE SendChunk(r, data, contentLength[r])
    /\ UNCHANGED <<stale, contentLength, aborted, heads>>

\* _dataStream.push: a flowing, empty stream hands the chunk on at once.
Push(data, last) ==
    \/ /\ ~paused /\ stream = <<>>
       /\ Deliver(data, last)
       /\ UNCHANGED stream
    \/ /\ paused \/ stream # <<>>
       /\ stream' = Append(stream, [data |-> data, last |-> last])
       /\ UNCHANGED <<queueVars, stale, contentLength, buffer, client, responseVars>>

\* Mutant: the requests get the error and stay in the pipeline.
CloseAllKept ==
    LET failed == {r \in Pending : ~stale[r]}
    IN /\ failures' = [r \in Requests |->
                          failures[r] + IF r \in failed THEN 1 ELSE 0]
       /\ client' = [r \in Requests |->
                          IF r \in failed THEN Ended(client[r]) ELSE client[r]]
       /\ stream' = <<>>
       /\ UNCHANGED <<queueVars, stale, contentLength, buffer, responseVars>>

\* Mutant: the requests are thrown away without an answer.
CloseAllUnanswered ==
    /\ pending' = <<>>
    /\ lock' = FALSE
    /\ paused' = FALSE
    /\ stream' = <<>>
    /\ UNCHANGED <<stale, contentLength, buffer, client, responseVars, failures>>

\* Mutant: the pipeline stays locked.
CloseAllLocked ==
    LET failed == {r \in Pending : ~stale[r]}
    IN /\ failures' = [r \in Requests |->
                          failures[r] + IF r \in failed THEN 1 ELSE 0]
       /\ client' = [r \in Requests |->
                          IF r \in failed THEN Ended(client[r]) ELSE client[r]]
       /\ pending' = <<>>
       /\ UNCHANGED lock
       /\ paused' = FALSE
       /\ stream' = <<>>
       /\ UNCHANGED <<stale, contentLength, buffer, responseVars>>

\* Pipeline.close: every request that is not stale gets the error, and the
\* proxy answers it with an error response.
CloseAll ==
    LET failed == {r \in Pending : ~stale[r]}
    IN /\ failures' = [r \in Requests |->
                          failures[r] + IF r \in failed THEN 1 ELSE 0]
       /\ client' = [r \in Requests |->
                          IF r \in failed THEN Ended(client[r]) ELSE client[r]]
       /\ pending' = <<>>
       /\ lock' = (lock /\ pending = <<>>)
       /\ paused' = FALSE
       /\ stream' = <<>>
       /\ UNCHANGED <<stale, contentLength, buffer, responseVars>>

-----------------------------------------------------------------------------
(***************************************************************************)
(* Requests and their clients.                                             *)
(***************************************************************************)

\* UWSProxy._handleRequest and Client.request, up to the promised connection.
HandleRequest(r) ==
    /\ CallbackMayRun
    /\ stage[r] = "new"
    /\ stage' = [stage EXCEPT ![r] = "connecting"]
    /\ client' = [client EXCEPT ![r] = "open"]
    /\ UNCHANGED <<queueVars, stale, contentLength, stream, buffer, responseVars,
                   failures, immediates, serverVars, inFeed>>

\* The error callback: the client gets an error response.
Refuse(r) ==
    /\ stage' = [stage EXCEPT ![r] = "refused"]
    /\ failures' = [failures EXCEPT ![r] = @ + 1]
    /\ client' = EndResponse(r)
    /\ UNCHANGED <<queueVars, stale, immediates>>

\* Mutant: one request too many.
FullLater == MaxRequests > 0 /\ Len(pending) > MaxRequests

\* The pipeline is full: scheduleSend throws E_PIPELINE_OVERFLOW.
Full == MaxRequests > 0 /\ Len(pending) >= MaxRequests

\* Mutant: a request that was aborted before is not marked.
EnqueueFresh(r) ==
    /\ stage' = [stage EXCEPT ![r] = "queued"]
    /\ pending' = Append(pending, r)
    /\ immediates' = Append(immediates, r)
    /\ UNCHANGED <<stale, lock, paused, failures, client>>

\* scheduleSend below the limit: onAborted throws for an aborted response.
Enqueue(r) ==
    /\ stage' = [stage EXCEPT ![r] = "queued"]
    /\ pending' = Append(pending, r)
    /\ stale' = [stale EXCEPT ![r] = aborted[r]]
    /\ immediates' = Append(immediates, r)
    /\ UNCHANGED <<lock, paused, failures, client>>

\* Connection.send, Sender.send and Pipeline.scheduleSend.
ScheduleSend(r) ==
    /\ CallbackMayRun
    /\ stage[r] = "connecting"
    /\ IF socket = "closed" \/ Full THEN Refuse(r) ELSE Enqueue(r)
    /\ UNCHANGED <<contentLength, stream, buffer, responseVars, serverVars, inFeed>>

\* The setImmediate callback: Sender._send writes the request.  Writing after
\* socket.end() destroys the socket, which closes the pipeline.
Send ==
    /\ CallbackMayRun
    /\ immediates # <<>>
    /\ immediates' = Tail(immediates)
    /\ \/ /\ socket = "open"
          /\ wire' = Append(wire, Head(immediates))
          /\ UNCHANGED <<queueVars, stale, contentLength, stream, buffer, client,
                         responseVars, failures, socket, rx>>
       \/ /\ socket = "ending"
          /\ CloseAll
          /\ socket' = "closed" /\ wire' = <<>> /\ rx' = Idle
       \/ /\ socket = "closed"
          /\ UNCHANGED <<queueVars, stale, contentLength, stream, buffer, client,
                         responseVars, failures, serverVars>>
    /\ UNCHANGED <<stage, inFeed>>

\* Mutant: an aborted request leaves the pipeline at once.
AbortAtOnce(r) ==
    /\ CallbackMayRun
    /\ client[r] = "open"
    /\ client' = [client EXCEPT ![r] = "aborted"]
    /\ \/ /\ stage[r] = "connecting"
          /\ aborted' = [aborted EXCEPT ![r] = TRUE]
          /\ UNCHANGED <<pending, stale, paused>>
       \/ /\ stage[r] = "queued"
          /\ stale' = [stale EXCEPT ![r] = TRUE]
          /\ pending' = Remove(pending, r)
          /\ paused' = FALSE
          /\ UNCHANGED aborted
    /\ UNCHANGED <<lock, contentLength, stream, buffer, heads, body, blocked,
                   writable, requestVars, serverVars, inFeed>>

\* Mutant: the paused stream is not resumed.
AbortPaused(r) ==
    /\ CallbackMayRun
    /\ client[r] = "open"
    /\ client' = [client EXCEPT ![r] = "aborted"]
    /\ \/ /\ stage[r] = "connecting"
          /\ aborted' = [aborted EXCEPT ![r] = TRUE]
          /\ UNCHANGED stale
       \/ /\ stage[r] = "queued"
          /\ stale' = [stale EXCEPT ![r] = TRUE]
          /\ UNCHANGED aborted
    /\ UNCHANGED <<queueVars, contentLength, stream, buffer, heads, body, blocked,
                   writable, requestVars, serverVars, inFeed>>

\* The client goes away.  The proxy's abort handler is registered first and
\* replaced by the pipeline's.
Abort(r) ==
    /\ CallbackMayRun
    /\ client[r] = "open"
    /\ client' = [client EXCEPT ![r] = "aborted"]
    /\ \/ /\ stage[r] = "connecting"
          /\ aborted' = [aborted EXCEPT ![r] = TRUE]
          /\ UNCHANGED <<stale, paused>>
       \/ /\ stage[r] = "queued"
          /\ stale' = [stale EXCEPT ![r] = TRUE]
          /\ paused' = FALSE
          /\ UNCHANGED aborted
    /\ UNCHANGED <<pending, lock, contentLength, stream, buffer, heads, body, blocked,
                   writable, requestVars, serverVars, inFeed>>

\* Mutant: the whole buffer is sent again.
RetryWholeBuffer(r) ==
    IF buffer = NoBuffer
    THEN /\ blocked' = [blocked EXCEPT ![r] = FALSE]
         /\ UNCHANGED <<queueVars, buffer, client, body>>
    ELSE \E n \in Accepted(buffer.data) :
         LET ok == n = Len(buffer.data)
         IN /\ body' = [body EXCEPT ![r] = @ \o SubSeq(buffer.data, 1, n)]
            /\ client' = IF Len(body[r]) + n = buffer.total
                         THEN EndResponse(r) ELSE client
            /\ paused' = (paused /\ ~ok)
            /\ buffer' = IF ok THEN NoBuffer ELSE buffer
            /\ blocked' = [blocked EXCEPT ![r] = ~ok]
            /\ UNCHANGED <<pending, lock>>

\* The onWritable handler of scheduleSend: send the rest of the buffer.
RetryBuffer(r) ==
    LET rest == SubSeq(buffer.data, Len(body[r]) - buffer.offset + 1,
                       Len(buffer.data))
    IN IF buffer = NoBuffer
       THEN /\ blocked' = [blocked EXCEPT ![r] = FALSE]
            /\ UNCHANGED <<queueVars, buffer, client, body>>
       ELSE \E n \in Accepted(rest) :
            LET ok == n = Len(rest)
            IN /\ body' = [body EXCEPT ![r] = @ \o SubSeq(rest, 1, n)]
               /\ client' = IF Len(body[r]) + n = buffer.total
                            THEN EndResponse(r) ELSE client
               /\ paused' = (paused /\ ~ok)
               /\ buffer' = IF ok THEN NoBuffer ELSE buffer
               /\ blocked' = [blocked EXCEPT ![r] = ~ok]
               /\ UNCHANGED <<pending, lock>>

\* uWebSockets.js has drained the client's socket.
OnWritable(r) ==
    /\ CallbackMayRun
    /\ client[r] = "open" /\ blocked[r]
    /\ \/ /\ writable[r] = "retry"
          /\ RetryBuffer(r)
       \/ /\ writable[r] = "resume"
          /\ paused' = FALSE
          /\ blocked' = [blocked EXCEPT ![r] = FALSE]
          /\ UNCHANGED <<pending, lock, buffer, client, body>>
       \/ /\ writable[r] = "end"
          /\ client' = EndResponse(r)
          /\ pending' = IF pending = <<>> THEN pending ELSE Tail(pending)
          /\ lock' = (lock /\ pending = <<>>)
          /\ paused' = FALSE
          /\ blocked' = [blocked EXCEPT ![r] = FALSE]
          /\ UNCHANGED <<buffer, body>>
    /\ UNCHANGED <<stale, contentLength, stream, aborted, heads, writable, requestVars,
                   serverVars, inFeed>>

-----------------------------------------------------------------------------
(***************************************************************************)
(* The response parser's events.  The server answers in the order in which *)
(* it received the requests.                                               *)
(*                                                                         *)
(* An error resets the parser in the middle of a response: it takes what   *)
(* follows for the beginning of another one, and can read anything there:  *)
(* headers and units of body that are more units of that response, until   *)
(* the socket is closed or the parser happens on the next response.        *)
(***************************************************************************)

\* How many units it has read of what it takes for the current response.
ReadSoFar == rx.read - rx.from

\* Bound: where, behind a reset, one more response may begin.
WithinRemains == rx.from <= MaxBody

\* The parser takes the place behind n more units for the beginning of a response:
\* it is that of the next one, or lies within the remains of this one.  (It
\* counts one more unit for what it took there for an end or an error.)
NextOrRemains(n) ==
    \/ wire' = Tail(wire) /\ rx' = Idle
    \/ LET next == rx.read + n + 1
       IN wire' = wire /\ rx' = [Idle EXCEPT !.read = next, !.from = next]

\* The end of a response, with n more units.
EndOfResponse(n) ==
    IF rx.from = 0
    THEN wire' = Tail(wire) /\ rx' = Idle
    ELSE NextOrRemains(n)

\* Mutant: a response without a body ends and is not terminated.
GiveHeadersKept(r, mode, size) ==
    /\ heads' = [heads EXCEPT ![r] =
                    IF client[r] = "open" THEN Append(@, Head(wire)) ELSE @]
    /\ contentLength' = [contentLength EXCEPT ![r] = size]
    /\ client' = IF mode = "EMPTY" THEN EndResponse(r) ELSE client
    /\ lock' = (lock \/ mode = "UNTIL_CLOSE")
    /\ UNCHANGED <<pending, paused>>

\* The 'headers' handler applies to the oldest request what the parser read.
GiveHeaders(r, mode, size) ==
    /\ heads' = [heads EXCEPT ![r] =
                    IF client[r] = "open" THEN Append(@, Head(wire)) ELSE @]
    /\ contentLength' = [contentLength EXCEPT ![r] = size]
    /\ IF mode = "EMPTY"
       THEN client' = EndResponse(r) /\ TerminateRequest
       ELSE /\ lock' = (lock \/ mode = "UNTIL_CLOSE")
            /\ UNCHANGED <<client, pending, paused>>

\* 'body_read_mode' and 'headers'.  EMPTY is a body known to have no bytes.
Headers(mode, size) ==
    /\ ParserMayRun
    /\ wire # <<>> /\ rx.mode = "IDLE" /\ WithinRemains
    /\ size > 0 <=> mode = "FIXED"
    /\ IF mode = "EMPTY"
       THEN EndOfResponse(0)
       ELSE wire' = wire /\ rx' = [rx EXCEPT !.mode = mode, !.size = size]
    /\ IF pending = <<>>
       THEN UNCHANGED <<heads, contentLength, client, queueVars>>
       ELSE GiveHeaders(Head(pending), mode, size)
    /\ inFeed' = (~paused' /\ stream # <<>>)
    /\ UNCHANGED <<stale, stream, buffer, aborted, body, blocked, writable, requestVars,
                   socket>>

\* n units of body, the last ones of the response or not, in each read mode.
IsChunk(n, last) ==
    \/ /\ rx.mode = "FIXED" /\ n \in 1 .. (rx.size - ReadSoFar)
       /\ last <=> ReadSoFar + n = rx.size
    \/ /\ rx.mode = "CHUNKED" /\ n \in 0 .. (MaxBody - ReadSoFar)
       /\ last <=> n = 0
    \/ /\ rx.mode = "UNTIL_CLOSE" /\ n \in 1 .. (MaxBody - ReadSoFar)
       /\ ~last

BodyChunk(n, last) ==
    /\ ParserMayRun
    /\ wire # <<>> /\ IsChunk(n, last)
    /\ Push([i \in 1 .. n |-> <<Head(wire), rx.read + i>>], last)
    /\ IF last
       THEN EndOfResponse(n)
       ELSE wire' = wire /\ rx' = [rx EXCEPT !.read = @ + n]
    /\ inFeed' = (~paused' /\ stream' # <<>>)
    /\ UNCHANGED <<requestVars, socket>>

\* E_INVALID_CONTENT_LENGTH in the headers or E_INVALID_CHUNK_SIZE in the body:
\* the client ends the socket, the pipeline is closed, and the reset parser
\* goes on behind the malformed place.  (The events feed still
\* emits after E_INVALID_CONTENT_LENGTH find an empty pipeline.)
ParserError ==
    /\ ParserErrors /\ ParserMayRun
    /\ wire # <<>> /\ rx.mode \in {"IDLE", "CHUNKED"} /\ WithinRemains
    /\ CloseAll
    /\ socket' = "ending" /\ NextOrRemains(0)
    /\ inFeed' = FALSE
    /\ UNCHANGED <<stage, immediates>>

\* The nextTick of resume(): hand on one buffered chunk.
Flow ==
    /\ Draining
    /\ Deliver(Head(stream).data, Head(stream).last)
    /\ stream' = Tail(stream)
    /\ inFeed' = FALSE
    /\ UNCHANGED <<requestVars, serverVars>>

\* Connection.close, called by the idle watcher or by Client.close.
EndSocket ==
    /\ CallbackMayRun
    /\ socket = "open"
    /\ socket' = "ending"
    /\ UNCHANGED <<queueVars, stale, contentLength, stream, buffer, client,
                   responseVars, requestVars, wire, rx, inFeed>>

\* The 'close' event of the socket, preceded by an 'error' event or not.
SocketClosed ==
    /\ CallbackMayRun
    /\ socket # "closed"
    /\ CloseAll
    /\ socket' = "closed" /\ wire' = <<>> /\ rx' = Idle
    /\ UNCHANGED <<stage, immediates, inFeed>>

-----------------------------------------------------------------------------
Server ==
    \/ \E mode \in {"EMPTY", "FIXED", "CHUNKED", "UNTIL_CLOSE"}, size \in 0 .. MaxBody :
          Headers(mode, size)
    \/ \E n \in 0 .. MaxBody, last \in BOOLEAN : BodyChunk(n, last)

Next ==
    \/ \E r \in Requests :
          HandleRequest(r) \/ ScheduleSend(r) \/ Abort(r) \/ OnWritable(r)
    \/ Send \/ Flow
    \/ Server \/ ParserError
    \/ EndSocket \/ SocketClosed

Spec == Init /\ [][Next]_vars

\* A client that is behind reads on or is timed out by uWebSockets.js.
Unblock(r) == blocked[r] /\ (Abort(r) \/ (OnWritable(r) /\ ~blocked'[r]))

\* The server closes the connection that ends a response or that was ended.
ServerCloses == (rx.mode = "UNTIL_CLOSE" \/ socket = "ending") /\ SocketClosed

\* Node runs every queued callback; the server answers what it has received.
\* What a parser finds in the remains of a response, if anything, is left open.
Fairness ==
    /\ \A r \in Requests : WF_vars(ScheduleSend(r)) /\ WF_vars(Unblock(r))
    /\ WF_vars(Send) /\ WF_vars(Flow)
    /\ WF_vars(rx.from = 0 /\ Server) /\ WF_vars(ServerCloses)

FairSpec == Spec /\ Fairness

-----------------------------------------------------------------------------
(***************************************************************************)
(* Properties.                                                             *)
(***************************************************************************)

\* A client gets the status and headers of its own response, and only once:
\* setStatus and setHeaders, which apply to peek(), name the right request.
HeadersMatch == \A r \in Requests : heads[r] \in {<<>>, <<r>>}

\* A client gets the body of its own response from its first unit on, without
\* a gap or a repetition, whatever was aborted, buffered or resumed meanwhile.
BodyMatch ==
    \A r \in Requests : \A i \in 1 .. Len(body[r]) : body[r][i] = <<r, i>>

\* A response that ended without an error is a whole one: its headers were
\* sent, the server is through with it, and an announced length was reached.
DoneIsComplete ==
    \A r \in Requests :
       client[r] = "done" /\ failures[r] = 0 =>
          /\ heads[r] # <<>>
          /\ r \notin ToSet(wire)
          /\ contentLength[r] > 0 => Len(body[r]) = contentLength[r]

\* A request whose response has ended without an error has left the pipeline:
\* "If true, the request will be terminated" (addBody).
DoneIsTerminated ==
    \A r \in Requests : client[r] = "done" /\ failures[r] = 0 => r \notin Pending

\* The pipeline's queue is what the server has still to answer followed by
\* what is still to be sent, so that peek() is whom the parser is reading for.
QueueIsWire == socket # "closed" => pending = wire \o immediates

\* The pipeline is locked while, and only while, its oldest request gets a
\* response that lasts until the connection is closed.
LockMode == lock <=> pending # <<>> /\ rx.mode = "UNTIL_CLOSE"

\* Every request that was scheduled and whose client still waits is in the
\* pipeline: no path drops it without ending its response.
NoOrphan ==
    \A r \in Requests : stage[r] = "queued" /\ client[r] = "open" => r \in Pending

\* An error is reported at most once for a request, which then has left the
\* pipeline and has no usable response.
FailedIsFinal ==
    \A r \in Requests :
       /\ failures[r] <= 1
       /\ failures[r] = 1 => r \notin Pending /\ client[r] # "open"

\* A request that its client has left is marked so, wherever on its way to
\* the pipeline it was: its response will be read and ignored, not cut short.
AbortedIsStale == \A r \in Pending : aborted[r] => stale[r]

\* Only the oldest request can suffer from backpressure.
BlockedIsHead ==
    \A r \in Requests :
       client[r] = "open" /\ blocked[r] => pending # <<>> /\ r = Head(pending)

\* The handler that retries the pending buffer never asks for data from before
\* the buffer's start: its offset is one of the response that retries.
RetryWithinBuffer ==
    \A r \in Requests :
       client[r] = "open" /\ blocked[r] /\ writable[r] = "retry"
          => buffer.offset <= Len(body[r])

\* The stream is paused only for a client that will make it resume, by
\* reading on or by leaving.
PausedHeadBlocked ==
    paused =>
       /\ pending # <<>>
       /\ client[Head(pending)] = "open" /\ blocked[Head(pending)]

\* No unit of a body is sent twice, to one client or to two.
UnitsOnce ==
    \A r, q \in Requests :
       \A i \in DOMAIN body[r], j \in DOMAIN body[q] :
          body[r][i] = body[q][j] => r = q /\ i = j

\* A paused stream resumes ("we must resume it to avoid a deadlock").
Resumes == paused ~> ~paused

\* Every request that was scheduled leaves the pipeline.
Answered == \A r \in Requests : stage[r] = "queued" ~> r \notin Pending

-----------------------------------------------------------------------------
(***************************************************************************)
(* The refinement.                                                         *)
(***************************************************************************)

\* What has become of a request, as Exchange sees it.
Fate(r) ==
    CASE client[r] = "none"    -> "absent"
      [] client[r] = "open"    -> "waiting"
      [] client[r] = "aborted" -> "left"
      [] client[r] = "done" /\ failures[r] = 0 -> "answered"
      [] client[r] = "done" /\ failures[r] > 0 -> "failed"

Ideal == INSTANCE Exchange WITH
            line <- pending,
            fate <- [r \in Requests |-> Fate(r)],
            head <- heads,
            got  <- body

\* The pipeline keeps the promise of an in-order exchange.
ImplementsExchange == Ideal!Spec
=============================================================================
