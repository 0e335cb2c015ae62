--------------------------- MODULE ErrorHandling ---------------------------
(***************************************************************************)
(* What a client is told when its request fails: the callback that         *)
(* UWSProxy._handleRequest gives to the HTTP client, the error handler an  *)
(* application may configure (src/src/UWSProxy.js), the catch of           *)
(* Client.request and the loop of Pipeline.close, which end the response.  *)
(*                                                                         *)
(* The application's handler answers at once, with a response of its own   *)
(* or none, or with a promise, or it throws.  The exception is assumed not *)
(* to end the process (then no response matters any more): the application *)
(* catches those that nobody else does.                                    *)
(***************************************************************************)
EXTENDS Integers, Sequences, SequencesExt

CONSTANT Requests   \* the requests that may be proxied

\* error.code, as _buildErrorResponse tells it apart: of a request that gets no
\* connection or finds the pipeline full; of the socket's 'error' event, where
\* ECONNABORTED has become E_RECIPIENT_ABORTED; of the parser; of a close
\* without error.
RefusalCodes == {"ECONNREFUSED", "E_PIPELINE_OVERFLOW", "other"}
SocketCodes  == {"ECONNRESET", "ETIMEDOUT", "E_RECIPIENT_ABORTED"}
ParserCodes  == {"E_INVALID_CONTENT_LENGTH", "E_INVALID_CHUNK_SIZE"}
Aborted      == "E_PIPELINE_ABORTED"
Codes        == RefusalCodes \cup SocketCodes \cup ParserCodes \cup {Aborted}

VARIABLES
    handler,    \* opts.on.error
    socket,     \* the socket to the target server
    pending,    \* _pendingRequests
    stage,      \* progress of the request
    response,   \* its uWebSockets.js response, and what the client was sent
    failure,    \* the error its callback was called with
    promised    \* the handler's promise for it is not settled

vars == <<handler, socket, pending, stage, response, failure, promised>>

None == [code |-> "none", untouched |-> FALSE]
New  == [state |-> "open", status |-> "none", body |-> {}]

\* The types of the variables.  A request in the pipeline has not failed.
TypeOK ==
    /\ handler \in {"none", "answers", "promises", "throws"}
    /\ socket \in {"open", "failed", "closed"}
    /\ pending \in Seq(Requests)
    /\ stage \in [Requests -> {"new", "connecting", "queued", "refused"}]
    /\ response \in [Requests ->
          [state : {"open", "ended", "aborted"},
           status : {"none", "200", "502", "503", "504", "own"},
           body : SUBSET {"data", "error"}]]
    /\ failure \in [Requests -> [code : Codes \cup {"none"}, untouched : BOOLEAN]]
    /\ promised \subseteq Requests
    /\ \A r \in ToSet(pending) : failure[r] = None

Init ==
    /\ handler \in {"none", "answers", "promises", "throws"}
    /\ socket = "open"
    /\ pending = <<>>
    /\ stage = [r \in Requests |-> "new"]
    /\ response = [r \in Requests |-> New]
    /\ failure = [r \in Requests |-> None]
    /\ promised = {}

-----------------------------------------------------------------------------
(***************************************************************************)
(* Writing into a response w.  The methods of one that has ended or was    *)
(* aborted throw, which every caller here catches.                         *)
(***************************************************************************)

\* writeHeaders: a second status is ignored.
WriteHeaders(w, status) ==
    IF w.state = "open" /\ w.status = "none"
    THEN [w EXCEPT !.status = status] ELSE w

\* end: without a status it is 200.
End(w, text) ==
    IF w.state = "open"
    THEN [WriteHeaders(w, "200") EXCEPT !.state = "ended", !.body = @ \cup text]
    ELSE w

\* Mutant: the body is ended before the headers are written.
EndFirst(w, status) == WriteHeaders(End(w, {"error"}), status)

\* _tryToSendErrorResponse
TryToSendErrorResponse(w, status) == End(WriteHeaders(w, status), {"error"})

\* _buildErrorResponse
StatusOf(code) ==
    CASE code \in {"ECONNRESET", "ECONNREFUSED", "E_PIPELINE_OVERFLOW"} -> "503"
      [] code = "ETIMEDOUT" -> "504"
      [] OTHER -> "502"

\* What the application's handler may choose as the status.
Statuses(code) == IF handler = "none" THEN {StatusOf(code)}
                 ELSE {StatusOf(code), "own"}

\* The response w after _tryToRespondToError: a promise is answered later, and
\* an exception answers nothing.
Respond(w, status) ==
    IF handler \in {"none", "answers"} THEN TryToSendErrorResponse(w, status)
    ELSE w

\* The callbacks of the requests in rs are called with an error.
Report(rs, code) ==
    /\ failure' = [r \in Requests |->
                     IF r \notin rs THEN failure[r]
                     ELSE [code |-> code,
                           untouched |-> response[r].status = "none"]]
    /\ promised' = IF handler = "promises" THEN promised \cup rs ELSE promised

-----------------------------------------------------------------------------
\* _handleRequest
HandleRequest(r) ==
    /\ stage[r] = "new"
    /\ stage' = [stage EXCEPT ![r] = "connecting"]
    /\ UNCHANGED <<handler, socket, pending, response, failure, promised>>

\* Client.request, catch: there is no connection, or scheduleSend throws.
Refuse(r) ==
    /\ stage[r] = "connecting"
    /\ stage' = [stage EXCEPT ![r] = "refused"]
    /\ \E code \in RefusalCodes :
          /\ Report({r}, code)
          /\ \E status \in Statuses(code) :
                response' = [response EXCEPT ![r] = Respond(@, status)]
    /\ UNCHANGED <<handler, socket, pending>>

\* Connection.send, scheduleSend.
Schedule(r) ==
    /\ stage[r] = "connecting" /\ socket # "closed"
    /\ stage' = [stage EXCEPT ![r] = "queued"]
    /\ pending' = Append(pending, r)
    /\ UNCHANGED <<handler, socket, response, failure, promised>>

\* The client leaves: the response cannot be used, the pipelined request is
\* stale.
Abort(r) ==
    /\ stage[r] # "new" /\ response[r].state = "open"
    /\ response' = [response EXCEPT ![r].state = "aborted"]
    /\ UNCHANGED <<handler, socket, pending, stage, failure, promised>>

\* setStatus, setHeaders: the server's response to the oldest request begins.
Begin ==
    /\ pending # <<>> /\ socket = "open"
    /\ response' = [response EXCEPT ![Head(pending)] = WriteHeaders(@, "200")]
    /\ UNCHANGED <<handler, socket, pending, stage, failure, promised>>

\* addBody: a part of its body.
Part ==
    /\ pending # <<>> /\ socket = "open"
    /\ response[Head(pending)].state = "open"
    /\ response[Head(pending)].status # "none"
    /\ response' = [response EXCEPT ![Head(pending)].body = @ \cup {"data"}]
    /\ UNCHANGED <<handler, socket, pending, stage, failure, promised>>

\* The last part: the response ends and the request is terminated.
Finish ==
    /\ pending # <<>> /\ socket = "open"
    /\ response[Head(pending)].state = "open" =>
          response[Head(pending)].status # "none"
    /\ response' = [response EXCEPT ![Head(pending)] = End(@, {})]
    /\ pending' = Tail(pending)
    /\ UNCHANGED <<handler, socket, stage, failure, promised>>

-----------------------------------------------------------------------------
Stale(r) == response[r].state = "aborted"

\* The loop of Pipeline.close when no handler throws: every request that is not
\* stale is reported, and then its response ended.
CloseAll(code) ==
    LET rs == {r \in ToSet(pending) : ~Stale(r)} IN
    /\ pending' = <<>>
    /\ Report(rs, code)
    /\ \E status \in [rs -> Statuses(code)] :
          response' = [r \in Requests |->
             IF r \in rs THEN End(Respond(response[r], status[r]), {})
             ELSE response[r]]

\* The loop when the handler throws: it is left at the first request that is
\* reported, whose response is not ended.
CloseOne(code) ==
    /\ response' = response
    /\ \/ /\ \A r \in ToSet(pending) : Stale(r)
          /\ pending' = <<>> /\ UNCHANGED <<failure, promised>>
       \/ \E i \in 1 .. Len(pending) :
             /\ ~Stale(pending[i]) /\ \A j \in 1 .. i - 1 : Stale(pending[j])
             /\ Report({pending[i]}, code)
             /\ pending' = SubSeq(pending, i + 1, Len(pending))

\* Mutant: the requests are reported and stay in the pipeline.
ClosePipelineKept(code) ==
    /\ Report({r \in ToSet(pending) : ~Stale(r)}, code)
    /\ UNCHANGED <<pending, response>>

\* Pipeline.close
ClosePipeline(code) ==
    IF handler = "throws" THEN CloseOne(code) ELSE CloseAll(code)

\* The 'error' event of the socket; 'close' follows.
SocketError ==
    /\ socket = "open"
    /\ socket' = "failed"
    /\ \E code \in SocketCodes : ClosePipeline(code)
    /\ UNCHANGED <<handler, stage>>

\* The 'close' event of the socket.
SocketClosed ==
    /\ socket # "closed"
    /\ socket' = "closed"
    /\ ClosePipeline(Aborted)
    /\ UNCHANGED <<handler, stage>>

\* The 'error' event of the parser; the socket stays open for now.
ParserError ==
    /\ socket = "open" /\ pending # <<>>
    /\ \E code \in ParserCodes : ClosePipeline(code)
    /\ UNCHANGED <<handler, socket, stage>>

\* Mutant: only a promise that is fulfilled is answered.
SettleFulfilled(r) ==
    /\ r \in promised
    /\ \E fulfilled \in BOOLEAN, status \in Statuses(failure[r].code) :
          response' = IF fulfilled
                      THEN [response EXCEPT ![r] = TryToSendErrorResponse(@, status)]
                      ELSE response
    /\ promised' = promised \ {r}
    /\ UNCHANGED <<handler, socket, pending, stage, failure>>

\* The handler's promise is settled: fulfilled, with a response or none, or
\* rejected, which is answered like none.
Settle(r) ==
    /\ r \in promised
    /\ \E status \in Statuses(failure[r].code) :
          response' = [response EXCEPT ![r] = TryToSendErrorResponse(@, status)]
    /\ promised' = promised \ {r}
    /\ UNCHANGED <<handler, socket, pending, stage, failure>>

Next ==
    \/ \E r \in Requests :
          HandleRequest(r) \/ Refuse(r) \/ Schedule(r) \/ Abort(r) \/ Settle(r)
    \/ Begin \/ Part \/ Finish
    \/ SocketError \/ SocketClosed \/ ParserError

Spec == Init /\ [][Next]_vars

\* A socket that failed closes, and the application's promises are settled.
Fairness ==
    /\ WF_vars(socket = "failed" /\ SocketClosed)
    /\ \A r \in Requests : WF_vars(Settle(r))

FairSpec == Spec /\ Fairness

-----------------------------------------------------------------------------
Failed(r) == failure[r].code # "none"

\* A client that had got nothing when its request failed is told so: the status
\* is that of the error that was reported first, or the application's, never a
\* success.  Not so when the handler returns a promise: close has by then
\* ended the response of a pipelined request.
ErrorIsSeen ==
    \A r \in Requests :
       Failed(r) /\ failure[r].untouched /\ response[r].state = "ended" =>
          \/ response[r].status \in {StatusOf(failure[r].code), "own"}
          \/ handler = "promises" /\ stage[r] = "queued"

\* A failed request's client gets an end of its response, sooner or later,
\* unless the handler throws; and once the socket has failed so does every
\* request that was in the pipeline, reported or not.
ErrorsEnd ==
    \A r \in Requests :
       Failed(r) \/ (r \in ToSet(pending) /\ socket = "failed")
          ~> response[r].state # "open" \/ handler = "throws"
=============================================================================
