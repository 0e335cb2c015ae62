------------------------------- MODULE Sender -------------------------------
(***************************************************************************)
(* Sending requests with their bodies to the target server:                *)
(* src/src/http/1.1/Sender.js, over one connected socket that is shared by *)
(* the requests of a pipeline and may have backpressure.                   *)
(*                                                                         *)
(* A body is a sequence of Size chunks.  A write to the socket always      *)
(* takes its data; its result says whether there is backpressure, and then *)
(* 'drain' is emitted once the socket has sent all it holds.  The handlers *)
(* of one 'drain' run one after the other with nothing in between.  An     *)
(* exception that no caller catches ends the process.  The queue of the    *)
(* pipeline and its marks for clients that left are in Pipeline.           *)
(***************************************************************************)
EXTENDS Integers, Sequences, SequencesExt

CONSTANTS
    Requests,   \* the requests that may be proxied
    Size,       \* the chunks a client sends for one body
    MaxStacked  \* maxStackedBuffers

ASSUME SenderAssumption ==
    /\ Size \in Nat \ {0}
    /\ MaxStacked \in Nat \ {0}

\* How a request's headers delimit its body: no transfer-encoding (a body with
\* a length or none); "chunked"; another coding than exactly "chunked"; both a
\* content-length and a transfer-encoding, which the proxy's option headers,
\* added to every request, may bring about.
Framings == {"plain", "chunked", "coded", "both"}

VARIABLES
    framing,    \* the headers of each request
    stage,      \* its progress; "waiting" is to be in _requestBuffer
    client,     \* the uWebSockets.js response it came with
    arrived,    \* how many chunks of its body the client has sent
    lost,       \* how many of them came before onData was called
    immediates, \* queued setImmediate callbacks of scheduleSend
    context,    \* the sending state of its body
    upload,     \* the chunks of its body that were written
    ending,     \* what was written for the rest of the body of a client that left
    listeners,  \* the once('drain') listeners of the socket
    emitting,   \* those of a 'drain' event that are still to be called
    stranded,   \* history: the requests a drain has left chunks behind for
    crashed     \* an exception was not caught

requestVars == <<framing, stage, client>>
clientVars  == <<arrived, lost>>
socketVars  == <<upload, ending, listeners, emitting>>
vars == <<requestVars, clientVars, immediates, context, socketVars, stranded,
          crashed>>

Fresh == [backpressure |-> FALSE, written |-> 0, stacked |-> <<>>]
Whole == [by |-> "client", zeros |-> 0]

Listeners == [of : Requests, for : {"head", "chunk"}]

\* The types of the variables, and the limit on the chunks that are kept.
TypeOK ==
    /\ framing \in [Requests -> Framings]
    /\ stage \in [Requests -> {"new", "connecting", "scheduled", "waiting",
                               "streaming", "sent"}]
    /\ client \in [Requests -> {"open", "aborted"}]
    /\ arrived \in [Requests -> 0 .. Size]
    /\ lost \in [Requests -> 0 .. Size]
    /\ immediates \in Seq(Requests)
    /\ context \in [Requests -> [backpressure : BOOLEAN, written : 0 .. Size,
                                 stacked : Seq(1 .. Size)]]
    /\ \A r \in Requests : Len(context[r].stacked) <= MaxStacked
    /\ upload \in [Requests -> Seq(1 .. Size)]
    /\ ending \in [Requests -> [by : {"client", "terminator", "zeros", "nothing"},
                                zeros : 0 .. Size]]
    /\ listeners \in Seq(Listeners)
    /\ emitting \in Seq(Listeners)
    /\ stranded \subseteq Requests
    /\ crashed \in BOOLEAN

Init ==
    /\ framing \in [Requests -> Framings]
    /\ stage = [r \in Requests |-> "new"]
    /\ client = [r \in Requests |-> "open"]
    /\ arrived = [r \in Requests |-> 0] /\ lost = arrived
    /\ immediates = <<>>
    /\ context = [r \in Requests |-> Fresh]
    /\ upload = [r \in Requests |-> <<>>]
    /\ ending = [r \in Requests |-> Whole]
    /\ listeners = <<>> /\ emitting = <<>>
    /\ stranded = {}
    /\ crashed = FALSE

-----------------------------------------------------------------------------
\* Callbacks run one at a time, and no other while 'drain' is emitted.
CallbackMayRun == ~crashed /\ emitting = <<>>

\* The limit of chunks kept under backpressure is reached.
IsFull(c) == Len(c.stacked) >= MaxStacked

\* socket.write of the head of r; ok is its result.
WriteHead(r, ok) ==
    listeners' = IF ok THEN listeners
                 ELSE Append(listeners, [of |-> r, for |-> "head"])

\* Mutant: a chunk under backpressure goes before those that wait.
StackFirst(c, chunk) == [c EXCEPT !.stacked = <<chunk>> \o @]

\* The chunk waits behind the others.
Stack(c, chunk) == [c EXCEPT !.stacked = Append(@, chunk)]

\* Mutant: a chunk whose write was refused is counted at once, and again later.
CountTwice(c, ok) == [c EXCEPT !.backpressure = ~ok, !.written = @ + 1]

\* The chunk was written; ok is the result.  One whose write was refused counts
\* only when the socket has drained.
Count(c, ok) == [c EXCEPT !.backpressure = ~ok,
                          !.written = IF ok THEN @ + 1 ELSE @]

\* _trySendChunk with the context c of r: a chunk is written, or stacked while
\* an earlier one is under backpressure.
TrySendChunk(r, c, chunk, ok) ==
    IF c.backpressure
    THEN /\ context' = [context EXCEPT ![r] = Stack(c, chunk)]
         /\ UNCHANGED <<upload, listeners>>
    ELSE /\ context' = [context EXCEPT ![r] = Count(c, ok)]
         /\ upload' = [upload EXCEPT ![r] = Append(@, chunk)]
         /\ listeners' = IF ok THEN listeners
                         ELSE Append(listeners, [of |-> r, for |-> "chunk"])

\* _stream: a body without transfer-encoding is not sent.  For another one
\* onData and onAborted are registered, the latter in place of the pipeline's;
\* they throw if the client has left.
Stream(r) ==
    IF framing[r] = "plain"
    THEN stage' = [stage EXCEPT ![r] = "sent"] /\ crashed' = crashed
    ELSE IF client[r] = "open"
    THEN stage' = [stage EXCEPT ![r] = "streaming"] /\ crashed' = crashed
    ELSE stage' = stage /\ crashed' = TRUE

-----------------------------------------------------------------------------
\* _handleRequest: the request awaits a connection.
HandleRequest(r) ==
    /\ CallbackMayRun /\ stage[r] = "new"
    /\ stage' = [stage EXCEPT ![r] = "connecting"]
    /\ UNCHANGED <<framing, client, clientVars, immediates, context,
                   socketVars, stranded, crashed>>

\* send, scheduleSend: the pipeline takes the request, to be sent in a callback
\* of its own.
Schedule(r) ==
    /\ CallbackMayRun /\ stage[r] = "connecting"
    /\ stage' = [stage EXCEPT ![r] = "scheduled"]
    /\ immediates' = Append(immediates, r)
    /\ UNCHANGED <<framing, client, clientVars, context, socketVars, stranded,
                   crashed>>

\* _send: the head is written, and the body streamed at once or on 'drain'.
Send ==
    /\ CallbackMayRun /\ immediates # <<>>
    /\ immediates' = Tail(immediates)
    /\ LET r == Head(immediates) IN
       \E ok \in BOOLEAN :
          /\ WriteHead(r, ok)
          /\ IF ok THEN Stream(r)
             ELSE stage' = [stage EXCEPT ![r] = "waiting"] /\ crashed' = crashed
    /\ UNCHANGED <<framing, client, clientVars, context, upload,
                   ending, emitting, stranded>>

\* The client sends the next chunk of its body.  uWebSockets.js drops it if
\* onData was not called; the handler sends or stacks it, and at the limit
\* calls setStatus, a method that a uWebSockets.js response does not have.
Data(r) ==
    /\ CallbackMayRun /\ stage[r] # "new"
    /\ client[r] = "open" /\ arrived[r] < Size
    /\ arrived' = [arrived EXCEPT ![r] = @ + 1]
    /\ IF stage[r] = "streaming"
       THEN /\ \E ok \in BOOLEAN : TrySendChunk(r, context[r], arrived'[r], ok)
            /\ crashed' = (context'[r].backpressure /\ IsFull(context'[r]))
            /\ lost' = lost
       ELSE /\ lost' = [lost EXCEPT ![r] = @ + 1]
            /\ UNCHANGED <<context, upload, listeners, crashed>>
    /\ UNCHANGED <<requestVars, immediates, ending, emitting, stranded>>

\* Mutant: the padding is what the client has not sent.
PaddingNotSent(r) == Size - arrived[r]

\* The zeros that stand for the rest of a body of known length.
Padding(r) == Size - context[r].written

\* What the onAborted handler of _stream writes to end the body.
EndOfBody(r) ==
    CASE framing[r] = "both"    -> [by |-> "zeros", zeros |-> Padding(r)]
      [] framing[r] = "chunked" -> [by |-> "terminator", zeros |-> 0]
      [] OTHER                  -> [by |-> "nothing", zeros |-> 0]

\* The client leaves.  The onAborted handler registered last is called:
\* UWSProxy's until the request is scheduled, then the pipeline's, and that of
\* _stream once the body is streamed.
Abort(r) ==
    /\ CallbackMayRun /\ stage[r] # "new" /\ client[r] = "open"
    /\ client' = [client EXCEPT ![r] = "aborted"]
    /\ ending' = IF stage[r] = "streaming"
                 THEN [ending EXCEPT ![r] = EndOfBody(r)] ELSE ending
    /\ UNCHANGED <<framing, stage, clientVars, immediates, context, upload,
                   listeners, emitting, stranded, crashed>>

-----------------------------------------------------------------------------
\* Mutant: one listener is called for each 'drain', the others removed.
DrainFirst ==
    /\ CallbackMayRun /\ listeners # <<>>
    /\ emitting' = <<Head(listeners)>> /\ listeners' = <<>>
    /\ UNCHANGED <<requestVars, clientVars, immediates, context, upload,
                   ending, stranded, crashed>>

\* The server has read all that was written.
Drain ==
    /\ CallbackMayRun /\ listeners # <<>>
    /\ emitting' = listeners /\ listeners' = <<>>
    /\ UNCHANGED <<requestVars, clientVars, immediates, context, upload,
                   ending, stranded, crashed>>

\* The next handler of the event is that of r for a head or a chunk.
Emits(r, what) == emitting # <<>> /\ Head(emitting) = [of |-> r, for |-> what]

\* The handler of _send: the body can be streamed.
HeadDrained(r) ==
    /\ ~crashed /\ Emits(r, "head")
    /\ emitting' = Tail(emitting)
    /\ Stream(r)
    /\ UNCHANGED <<framing, client, clientVars, immediates, context,
                   upload, ending, listeners, stranded>>

\* The refused chunk has been written, the first of those that wait is taken.
Unstack(c) ==
    [c EXCEPT !.written = @ + 1, !.backpressure = FALSE, !.stacked = Tail(@)]

\* The handler of _trySendChunk: one chunk of those that wait is sent.
SendStacked(r) ==
    /\ ~crashed /\ Emits(r, "chunk") /\ context[r].stacked # <<>>
    /\ emitting' = Tail(emitting)
    /\ \E ok \in BOOLEAN :
          TrySendChunk(r, Unstack(context[r]), Head(context[r].stacked), ok)
    /\ stranded' = IF context'[r].backpressure \/ context'[r].stacked = <<>>
                   THEN stranded ELSE stranded \cup {r}
    /\ UNCHANGED <<requestVars, clientVars, immediates, ending, crashed>>

\* With none that waits, the handler writes undefined, which throws.
SendUndefined(r) ==
    /\ ~crashed /\ Emits(r, "chunk") /\ context[r].stacked = <<>>
    /\ emitting' = Tail(emitting)
    /\ context' = [context EXCEPT ![r].written = @ + 1,
                                  ![r].backpressure = FALSE]
    /\ crashed' = TRUE
    /\ UNCHANGED <<requestVars, clientVars, immediates, upload, ending,
                   listeners, stranded>>

Handler == \E r \in Requests :
              HeadDrained(r) \/ SendStacked(r) \/ SendUndefined(r)

Next ==
    \/ \E r \in Requests :
          HandleRequest(r) \/ Schedule(r) \/ Data(r) \/ Abort(r)
    \/ Send \/ Drain \/ Handler

Spec == Init /\ [][Next]_vars

\* Node runs every queued callback and listener; the server reads on.
Fairness == WF_vars(Send) /\ WF_vars(Drain) /\ WF_vars(Handler)

FairSpec == Spec /\ Fairness

-----------------------------------------------------------------------------
\* No chunk that reached onData is dropped or sent twice, whatever was refused,
\* stacked and drained; and they are written in their order unless a 'drain'
\* has left some behind, which later ones then overtake.
BodyIsWhole ==
    \A r \in Requests :
       LET chunks == upload[r] \o context[r].stacked IN
       /\ Len(chunks) = arrived[r] - lost[r]
       /\ ToSet(chunks) = (lost[r] + 1) .. arrived[r]
       /\ r \notin stranded =>
             \A i \in DOMAIN chunks : chunks[i] = lost[r] + i

\* What was written for the body of r: its chunks, and the zeros for the rest.
Written(r) == Len(upload[r]) + ending[r].zeros

\* A step writes zeros that bring what was written for the body to Size, and
\* later ones write nothing more, unless a chunk was refused (see below).
CompletesBody(r) ==
    LET refused == IF context[r].backpressure THEN 1 ELSE 0 IN
    ending'[r].by = "zeros" =>
       IF ending[r].by # "zeros"
       THEN Written(r)' = Size + refused
       ELSE refused = 0 => Written(r)' = Written(r)

\* The zeros sent for a client that left bring what was written to exactly the
\* announced length ("we just send buffers filled with 0s until content-length
\* is reached"), whatever was lost or stacked before, and nothing follows them.
\* The exception is a client that leaves under backpressure: the refused chunk
\* is in the socket but not yet counted, so that what was written exceeds the
\* length by it, and the chunks that are stacked behind it still follow.
PaddingIsExact == [][\A r \in Requests : CompletesBody(r)]_vars

\* Something of the request waits for the socket to drain.
Waits(r) == \/ stage[r] = "waiting"
            \/ context[r].stacked # <<>> /\ r \notin stranded

\* A head or a chunk that waits for the socket is sent on or, if a 'drain' left
\* it behind, known to be stranded, as long as the process lives.
Drains == \A r \in Requests : Waits(r) ~> ~Waits(r) \/ crashed

\* Backpressure alone, below the limit ("amount of chunks that can be kept in
\* memory under backpressure before the connection to the target server to be
\* closed"), does not end the process.
SurvivesBackpressure ==
    crashed => \E r \in Requests :
                  IsFull(context[r]) \/ client[r] = "aborted"
=============================================================================
