------------------------ MODULE PipelineOrderProofs ------------------------
(***************************************************************************)
(* Proofs about Pipeline when every client reads as fast as it is written  *)
(* to and the server sends no malformed response: each client then gets    *)
(* its own response, in order and whole, and the pipeline implements       *)
(* Exchange.  Any number of requests, any limit on the pipeline, clients   *)
(* that leave and connections that close at any time.                      *)
(***************************************************************************)
EXTENDS PipelineProofs

\* The clients keep up and the responses are well-formed.
Plain == ~Backpressure /\ ~ParserErrors

-----------------------------------------------------------------------------
(***************************************************************************)
(* The inductive invariant.                                                *)
(***************************************************************************)

\* Nothing ever waits in the stream.
Steady == stream = <<>> /\ ~paused /\ \A r \in Requests : ~blocked[r]

\* The queue is what the server has still to answer, then what is to be sent.
Queue ==
    /\ Distinct(pending)
    /\ QueueIsWire
    /\ socket = "closed" => pending = <<>> /\ wire = <<>>

\* Who is in the pipeline waits, or has left and is marked so.
Members ==
    \A r \in Requests :
       /\ r \in Pending =>
             stage[r] = "queued" /\ (client[r] = "open" \/ (client[r] = "aborted" /\ stale[r]))
       /\ stage[r] = "connecting" =>
             client[r] = "open" \/ (client[r] = "aborted" /\ aborted[r])

\* The parser reads only what was sent, and stops at the end of a response.
Reader ==
    /\ rx = Idle \/ wire # <<>>
    /\ rx.from = 0
    /\ rx.mode = "IDLE" => rx = Idle
    /\ rx.mode = "FIXED" => rx.read < rx.size
    /\ rx.mode \in {"CHUNKED", "UNTIL_CLOSE"} => rx.size = 0
    /\ LockMode

\* The parser is in the middle of the response to r.
Current(r) == rx # Idle /\ wire # <<>> /\ r = Head(wire)

\* The turn of r has not come.
Early(r) == stage[r] \in {"new", "connecting"} \/ (r \in Pending /\ ~Current(r))

\* The client of r has got nothing before its turn, what the parser has read
\* during it, and all of its response when it is done.
Response(r) ==
    /\ heads[r] \in {<<>>, <<r>>}
    /\ heads[r] = <<>> => body[r] = <<>>
    /\ \A i \in 1 .. Len(body[r]) : body[r][i] = <<r, i>>
    /\ Early(r) => heads[r] = <<>>
    /\ Current(r) /\ client[r] = "open" =>
          /\ heads[r] = <<r>> /\ Len(body[r]) = rx.read /\ contentLength[r] = rx.size
    /\ client[r] = "done" /\ failures[r] = 0 =>
          /\ heads[r] # <<>>
          /\ contentLength[r] > 0 => Len(body[r]) = contentLength[r]

Responses == \A r \in Requests : Response(r)

Ordered == Steady /\ Queue /\ Members /\ Reader /\ Responses

OrderInvariant == Plain /\ TypeOK /\ Safe /\ Ordered

LEMMA Singleton == \A r : <<r>> # <<>>
  OBVIOUS

LEMMA InitOrdered == Init => Ordered
  <1> SUFFICES ASSUME Init PROVE Ordered
    OBVIOUS
  <1>1. Pending = {}
    BY EmptyToSet DEF Init, Pending
  <1>2. Steady /\ Queue
    BY DEF Init, Steady, Queue, QueueIsWire, Distinct
  <1>3. Members /\ Reader
    BY <1>1 DEF Init, Members, Reader, LockMode, Idle
  <1>4. Responses
    BY <1>1 DEF Init, Responses, Response, Early, Current
  <1> QED
    BY <1>2, <1>3, <1>4 DEF Ordered

-----------------------------------------------------------------------------
(***************************************************************************)
(* What the invariant says of the oldest request.                          *)
(***************************************************************************)

\* The parser reads for the oldest request.
LEMMA HeadIsCurrent ==
    ASSUME TypeOK, Queue, wire # <<>>
    PROVE  /\ pending # <<>> /\ Head(pending) = Head(wire)
           /\ Tail(pending) = Tail(wire) \o immediates
           /\ Head(wire) \in Requests /\ Head(wire) \in Pending
           /\ Pending = {Head(wire)} \cup ToSet(Tail(pending))
           /\ Head(wire) \notin ToSet(Tail(pending))
           /\ Distinct(Tail(pending)) /\ socket # "closed"
  <1>1. pending = wire \o immediates /\ socket # "closed"
    BY DEF Queue, QueueIsWire
  <1>2. wire \in Seq(Requests) /\ immediates \in Seq(Requests) /\ pending \in Seq(Requests)
    BY DEF TypeOK
  <1>3. Len(wire) > 0 /\ Len(pending) > 0
    BY <1>1, <1>2
  <1>4. pending # <<>> /\ Head(pending) = Head(wire)
    BY <1>1, <1>2, <1>3
  <1>5. Tail(pending) = Tail(wire) \o immediates
    BY <1>1, <1>2, <1>3
  <1>6. /\ Distinct(Tail(pending)) /\ ToSet(Tail(pending)) = ToSet(pending) \ {Head(pending)}
    BY <1>2, <1>4, TailDistinct DEF Queue
  <1> QED
    BY <1>1, <1>2, <1>4, <1>5, <1>6, TailToSet DEF Pending

\* A response that is left alone stays as the invariant wants it.
LEMMA KeepResponse ==
    ASSUME NEW r \in Requests, Response(r),
           heads'[r] = heads[r], body'[r] = body[r], client'[r] = client[r],
           contentLength'[r] = contentLength[r], failures'[r] = failures[r],
           Early(r)' => Early(r),
           Current(r)' => Current(r) /\ rx' = rx
    PROVE  Response(r)'
  BY DEF Response

-----------------------------------------------------------------------------
(***************************************************************************)
(* Requests and their clients.                                             *)
(***************************************************************************)
LEMMA HandleRequestOrdered ==
    ASSUME Plain, TypeOK, Safe, Ordered, NEW r \in Requests, HandleRequest(r)
    PROVE  Ordered'
  <1>1. /\ stage[r] = "new" /\ stage' = [stage EXCEPT ![r] = "connecting"]
        /\ client' = [client EXCEPT ![r] = "open"]
        /\ UNCHANGED <<queueVars, stale, contentLength, stream, responseVars, failures,
                       immediates, serverVars>>
    BY DEF HandleRequest
  <1>2. Pending' = Pending /\ r \notin Pending
    BY <1>1 DEF Pending, queueVars, Safe, Progress
  <1>3. /\ client'[r] = "open" /\ stage'[r] = "connecting"
        /\ \A q \in Requests \ {r} : client'[q] = client[q] /\ stage'[q] = stage[q]
    BY <1>1 DEF TypeOK
  <1>4. Steady' /\ Queue' /\ Reader'
    BY <1>1 DEF Ordered, Steady, Queue, QueueIsWire, Reader, LockMode, queueVars, serverVars,
                responseVars
  <1>5. Members'
    BY <1>1, <1>2, <1>3 DEF Ordered, Members, responseVars
  <1>6. \A q \in Requests : Current(q)' = Current(q)
    BY <1>1 DEF Current, serverVars
  <1>7. ASSUME NEW q \in Requests \ {r} PROVE Response(q)'
    <2>1. Response(q)
      BY DEF Ordered, Responses
    <2>2. Early(q)' = Early(q)
      BY <1>2, <1>3, <1>6 DEF Early
    <2> QED
      BY <1>1, <1>3, <1>6, <2>1, <2>2, KeepResponse DEF responseVars, serverVars
  <1>8. Response(r)'
    <2>1. Response(r) /\ Early(r)
      BY <1>1 DEF Ordered, Responses, Early
    <2>2. ~Current(r)
      <3> SUFFICES ASSUME Current(r) PROVE FALSE
        OBVIOUS
      <3> QED
        BY <1>2, HeadIsCurrent DEF Ordered, Current
    <2> QED
      BY <1>1, <1>3, <1>6, <2>1, <2>2 DEF Response, responseVars
  <1> QED
    BY <1>4, <1>5, <1>7, <1>8 DEF Ordered, Responses

LEMMA RefuseOrdered ==
    ASSUME Plain, TypeOK, Safe, Ordered, NEW r \in Requests, ScheduleSend(r), Refuse(r)
    PROVE  Ordered'
  <1>1. /\ stage[r] = "connecting" /\ stage' = [stage EXCEPT ![r] = "refused"]
        /\ client' = EndResponse(r) /\ failures' = [failures EXCEPT ![r] = @ + 1]
        /\ UNCHANGED <<queueVars, stale, contentLength, stream, responseVars, immediates,
                       serverVars>>
    BY DEF ScheduleSend, Refuse
  <1>2. Pending' = Pending /\ r \notin Pending /\ failures[r] = 0
    BY <1>1 DEF Pending, queueVars, Safe, Progress
  <1>3. /\ stage'[r] = "refused" /\ failures'[r] = 1
        /\ \A q \in Requests \ {r} : /\ client'[q] = client[q] /\ stage'[q] = stage[q]
                                     /\ failures'[q] = failures[q]
    BY <1>1, <1>2 DEF TypeOK, EndResponse
  <1>4. Steady' /\ Queue' /\ Reader'
    BY <1>1 DEF Ordered, Steady, Queue, QueueIsWire, Reader, LockMode, queueVars, serverVars,
                responseVars
  <1>5. Members'
    BY <1>1, <1>2, <1>3 DEF Ordered, Members, responseVars
  <1>6. \A q \in Requests : Current(q)' = Current(q)
    BY <1>1 DEF Current, serverVars
  <1>7. ASSUME NEW q \in Requests \ {r} PROVE Response(q)'
    <2>1. Response(q)
      BY DEF Ordered, Responses
    <2>2. Early(q)' = Early(q)
      BY <1>2, <1>3, <1>6 DEF Early
    <2> QED
      BY <1>1, <1>3, <1>6, <2>1, <2>2, KeepResponse DEF responseVars, serverVars
  <1>8. Response(r)'
    <2>1. Response(r) /\ Early(r)
      BY <1>1 DEF Ordered, Responses, Early
    <2>2. ~Current(r)
      <3> SUFFICES ASSUME Current(r) PROVE FALSE
        OBVIOUS
      <3> QED
        BY <1>2, HeadIsCurrent DEF Ordered, Current
    <2> QED
      BY <1>1, <1>3, <1>6, <2>1, <2>2 DEF Response, responseVars
  <1> QED
    BY <1>4, <1>5, <1>7, <1>8 DEF Ordered, Responses

LEMMA EnqueueOrdered ==
    ASSUME Plain, TypeOK, Safe, Ordered, NEW r \in Requests, ScheduleSend(r), Enqueue(r),
           socket # "closed"
    PROVE  Ordered'
  <1>1. /\ stage[r] = "connecting" /\ stage' = [stage EXCEPT ![r] = "queued"]
        /\ pending' = Append(pending, r) /\ immediates' = Append(immediates, r)
        /\ stale' = [stale EXCEPT ![r] = aborted[r]]
        /\ UNCHANGED <<lock, paused, contentLength, stream, client, failures, responseVars,
                       serverVars>>
    BY DEF ScheduleSend, Enqueue
  <1>2. Pending' = Pending \cup {r} /\ r \notin Pending
    BY <1>1, AppendToSet DEF TypeOK, Pending, Safe, Progress
  <1>3. /\ stage'[r] = "queued" /\ stale'[r] = aborted[r]
        /\ \A q \in Requests \ {r} : stage'[q] = stage[q] /\ stale'[q] = stale[q]
    BY <1>1 DEF TypeOK
  <1>4. Queue'
    <2>1. Distinct(pending')
      BY <1>1, <1>2, AppendDistinct DEF TypeOK, Ordered, Queue, Pending
    <2>2. pending' = wire' \o immediates'
      <3>1. pending = wire \o immediates
        BY DEF Ordered, Queue, QueueIsWire
      <3>2. wire \in Seq(Requests) /\ immediates \in Seq(Requests)
        BY DEF TypeOK
      <3>3. Append(wire \o immediates, r) = wire \o Append(immediates, r)
        BY <3>2
      <3> QED
        BY <1>1, <3>1, <3>3 DEF serverVars
    <2>3. socket' = socket
      BY <1>1 DEF serverVars
    <2> QED
      BY <2>1, <2>2, <2>3 DEF Queue, QueueIsWire
  <1>5. Steady'
    BY <1>1 DEF Ordered, Steady, responseVars
  <1>6. Reader'
    <2>1. pending' # <<>>
      BY <1>2, EmptyToSet DEF Pending
    <2>2. rx.mode = "UNTIL_CLOSE" => pending # <<>>
      <3>1. rx.mode = "UNTIL_CLOSE" => wire # <<>>
        BY DEF Ordered, Reader, Idle
      <3> QED
        BY <3>1, HeadIsCurrent DEF Ordered
    <2> QED
      BY <1>1, <2>1, <2>2 DEF Ordered, Reader, LockMode, serverVars
  <1>7. Members'
    BY <1>1, <1>2, <1>3 DEF Ordered, Members, responseVars
  <1>8. \A q \in Requests : Current(q)' = Current(q)
    BY <1>1 DEF Current, serverVars
  <1>9. ASSUME NEW q \in Requests PROVE Response(q)'
    <2>1. Response(q)
      BY DEF Ordered, Responses
    <2>2. Early(q)' => Early(q)
      BY <1>1, <1>2, <1>3, <1>8 DEF Early
    <2> QED
      BY <1>1, <1>8, <2>1, <2>2, KeepResponse DEF responseVars, serverVars
  <1> QED
    BY <1>4, <1>5, <1>6, <1>7, <1>9 DEF Ordered, Responses

LEMMA AbortOrdered ==
    ASSUME Plain, TypeOK, Safe, Ordered, NEW r \in Requests, Abort(r)
    PROVE  Ordered'
  <1>1. /\ client[r] = "open" /\ client' = [client EXCEPT ![r] = "aborted"]
        /\ \/ /\ stage[r] = "connecting"
              /\ aborted' = [aborted EXCEPT ![r] = TRUE]
              /\ UNCHANGED <<stale, paused>>
           \/ /\ stage[r] = "queued"
              /\ stale' = [stale EXCEPT ![r] = TRUE]
              /\ paused' = FALSE
              /\ UNCHANGED aborted
        /\ UNCHANGED <<pending, lock, contentLength, stream, heads, body, blocked,
                       requestVars, serverVars>>
    BY DEF Abort
  <1>2. Pending' = Pending
    BY <1>1 DEF Pending
  <1>3. /\ client'[r] = "aborted" /\ (stage[r] = "connecting" => aborted'[r])
        /\ stage[r] = "queued" => stale'[r]
        /\ \A q \in Requests \ {r} : /\ client'[q] = client[q]
                                     /\ stale'[q] = stale[q] /\ aborted'[q] = aborted[q]
    BY <1>1 DEF TypeOK
  <1>4. Steady' /\ Queue' /\ Reader'
    BY <1>1 DEF Ordered, Steady, Queue, QueueIsWire, Reader, LockMode, serverVars, requestVars
  <1>5. Members'
    BY <1>1, <1>2, <1>3 DEF Ordered, Members, requestVars
  <1>6. \A q \in Requests : Current(q)' = Current(q) /\ Early(q)' = Early(q)
    BY <1>1, <1>2 DEF Current, Early, serverVars, requestVars
  <1>7. ASSUME NEW q \in Requests PROVE Response(q)'
    <2>1. Response(q)
      BY DEF Ordered, Responses
    <2>2. CASE q = r
      BY <1>1, <1>3, <1>6, <2>1, <2>2 DEF Response
    <2>3. CASE q # r
      BY <1>1, <1>3, <1>6, <2>1, <2>3, KeepResponse DEF requestVars, serverVars
    <2> QED
      BY <2>2, <2>3
  <1> QED
    BY <1>4, <1>5, <1>7 DEF Ordered, Responses

-----------------------------------------------------------------------------
(***************************************************************************)
(* The connection.                                                         *)
(***************************************************************************)

\* The connection is lost, and with it every response that is not whole.
LEMMA CloseOrdered ==
    ASSUME Plain, TypeOK, Safe, Ordered, CloseAll,
           socket' = "closed", wire' = <<>>, rx' = Idle, stage' = stage
    PROVE  Ordered'
  <1> DEFINE failed == {r \in Pending : ~stale[r]}
  <1>1. /\ pending' = <<>> /\ paused' = FALSE /\ stream' = <<>>
        /\ lock' = (lock /\ pending = <<>>)
        /\ UNCHANGED <<stale, contentLength, aborted, heads, body, blocked>>
    BY DEF CloseAll, responseVars
  <1>2. Pending' = {}
    BY <1>1, EmptyToSet DEF Pending
  <1>3. \A r \in Requests :
           /\ client'[r] = IF r \in failed THEN Ended(client[r]) ELSE client[r]
           /\ failures'[r] = failures[r] + IF r \in failed THEN 1 ELSE 0
    BY DEF CloseAll
  <1>4. Steady' /\ Queue'
    BY <1>1, EmptyDistinct DEF Ordered, Steady, Queue, QueueIsWire
  <1>5. Reader'
    <2>1. ~lock'
      BY <1>1 DEF Ordered, Reader, LockMode
    <2> QED
      BY <1>1, <2>1 DEF Reader, LockMode, Idle
  <1>6. Members'
    <2>1. ASSUME NEW r \in Requests, stage[r] = "connecting" PROVE client'[r] = client[r]
      BY <1>3, <2>1 DEF Safe, Progress
    <2> QED
      BY <1>1, <1>2, <2>1 DEF Ordered, Members
  <1>7. ASSUME NEW r \in Requests PROVE Response(r)'
    <2>1. Response(r)
      BY DEF Ordered, Responses
    <2>2. ~Current(r)' /\ (Early(r)' => Early(r))
      BY <1>2 DEF Current, Early
    <2>3. failures[r] \in Nat
      BY DEF TypeOK
    <2>4. CASE r \in failed
      <3>1. failures'[r] = failures[r] + 1
        BY <1>3, <2>4
      <3>2. failures'[r] # 0
        BY <2>3, <3>1
      <3> QED
        BY <1>1, <2>1, <2>2, <3>2 DEF Response
    <2>5. CASE r \notin failed
      <3>1. client'[r] = client[r] /\ failures'[r] = failures[r]
        BY <1>3, <2>3, <2>5
      <3> QED
        BY <1>1, <2>1, <2>2, <3>1, KeepResponse
    <2> QED
      BY <2>4, <2>5
  <1> QED
    BY <1>4, <1>5, <1>6, <1>7 DEF Ordered, Responses

LEMMA SendOrdered ==
    ASSUME Plain, TypeOK, Safe, Ordered, Send
    PROVE  Ordered'
  <1>1. immediates # <<>> /\ immediates' = Tail(immediates) /\ stage' = stage
    BY DEF Send
  <1>2. CASE /\ socket = "open" /\ wire' = Append(wire, Head(immediates))
             /\ UNCHANGED <<queueVars, stale, contentLength, stream, buffer, client,
                            responseVars, failures, socket, rx>>
    <2>1. pending = wire \o immediates /\ wire \in Seq(Requests) /\ immediates \in Seq(Requests)
      BY <1>2 DEF Ordered, Queue, QueueIsWire, TypeOK
    <2>2. pending' = wire' \o immediates'
      BY <1>1, <1>2, <2>1, MoveHead DEF queueVars
    <2>3. wire' # <<>> /\ (wire # <<>> => Head(wire') = Head(wire))
      <3>1. Head(immediates) \in Requests
        BY <1>1, <2>1, TailToSet
      <3>2. Len(wire') = Len(wire) + 1 /\ \A k \in 1 .. Len(wire) : wire'[k] = wire[k]
        BY <1>2, <2>1, <3>1
      <3> QED
        BY <1>2, <2>1, <3>2
    <2>4. Pending' = Pending
      BY <1>2 DEF Pending, queueVars
    <2>5. Steady' /\ Queue' /\ Reader' /\ Members'
      BY <1>1, <1>2, <2>2, <2>3, <2>4 DEF Ordered, Steady, Queue, QueueIsWire, Reader,
         LockMode, Members, queueVars, responseVars
    <2>6. \A r \in Requests : Current(r)' = Current(r) /\ Early(r)' = Early(r)
      BY <1>1, <1>2, <2>3, <2>4 DEF Current, Early, Ordered, Reader
    <2>7. ASSUME NEW r \in Requests PROVE Response(r)'
      <3>1. Response(r)
        BY DEF Ordered, Responses
      <3> QED
        BY <1>2, <2>6, <3>1, KeepResponse DEF responseVars
    <2> QED
      BY <2>5, <2>7 DEF Ordered, Responses
  <1>3. CASE CloseAll /\ socket' = "closed" /\ wire' = <<>> /\ rx' = Idle
    BY <1>1, <1>3, CloseOrdered
  <1>4. CASE /\ socket = "closed"
             /\ UNCHANGED <<queueVars, stale, contentLength, stream, buffer, client,
                            responseVars, failures, serverVars>>
    <2>1. Pending' = Pending
      BY <1>4 DEF Pending, queueVars
    <2>2. Steady' /\ Queue' /\ Reader' /\ Members'
      BY <1>1, <1>4, <2>1 DEF Ordered, Steady, Queue, QueueIsWire, Reader,
         LockMode, Members, queueVars, responseVars, serverVars
    <2>3. \A r \in Requests : Current(r)' = Current(r) /\ Early(r)' = Early(r)
      BY <1>1, <1>4, <2>1 DEF Current, Early, serverVars
    <2>4. ASSUME NEW r \in Requests PROVE Response(r)'
      <3>1. Response(r)
        BY DEF Ordered, Responses
      <3> QED
        BY <1>4, <2>3, <3>1, KeepResponse DEF responseVars, serverVars
    <2> QED
      BY <2>2, <2>4 DEF Ordered, Responses
  <1> QED
    BY <1>2, <1>3, <1>4 DEF Send

-----------------------------------------------------------------------------
(***************************************************************************)
(* The responses.                                                          *)
(***************************************************************************)

\* What becomes of the oldest request r when its response was read to the end:
\* the client, if it still waits, has it, and r leaves the pipeline.
LEMMA LastOrdered ==
    ASSUME Plain, TypeOK, Safe, Ordered, wire # <<>>, NEW r \in Requests, r = Head(wire),
           TerminateRequest, client' = EndResponse(r), stream' = stream, blocked' = blocked,
           wire' = Tail(wire), rx' = Idle, socket' = socket, immediates' = immediates,
           UNCHANGED <<stage, failures, stale, aborted>>,
           \A q \in Requests \ {r} :
              /\ heads'[q] = heads[q] /\ body'[q] = body[q]
              /\ contentLength'[q] = contentLength[q],
           /\ heads'[r] \in {<<>>, <<r>>} /\ (heads'[r] = <<>> => body'[r] = <<>>)
           /\ \A i \in 1 .. Len(body'[r]) : body'[r][i] = <<r, i>>
           /\ client[r] = "open" => /\ heads'[r] # <<>>
                                    /\ contentLength'[r] > 0 => Len(body'[r]) = contentLength'[r]
    PROVE  Ordered'
  <1>1. /\ pending # <<>> /\ Head(pending) = r /\ Tail(pending) = Tail(wire) \o immediates
        /\ r \in Pending /\ r \notin ToSet(Tail(pending))
        /\ Pending = {r} \cup ToSet(Tail(pending))
        /\ Distinct(Tail(pending)) /\ socket # "closed"
    BY HeadIsCurrent DEF Ordered
  <1>2. pending' = Tail(pending) /\ ~lock' /\ ~paused'
    BY <1>1 DEF TerminateRequest
  <1>3. Pending' = ToSet(Tail(pending)) /\ r \notin Pending' /\ Pending' \subseteq Pending
    BY <1>1, <1>2 DEF Pending
  <1>4. Steady' /\ Queue' /\ Reader'
    BY <1>1, <1>2 DEF Ordered, Steady, Queue, QueueIsWire, Reader, LockMode, Idle
  <1>5. /\ \A q \in Requests \ {r} : client'[q] = client[q]
        /\ client'[r] = Ended(client[r])
    BY DEF TypeOK, EndResponse
  <1>6. stage[r] = "queued" /\ client[r] \in {"open", "aborted"}
    BY <1>1 DEF Ordered, Members
  <1>7. Members'
    BY <1>3, <1>5, <1>6 DEF Ordered, Members
  <1>8. \A q \in Requests : ~Current(q)'
    BY DEF Current
  <1>9. ASSUME NEW q \in Requests \ {r} PROVE Response(q)'
    <2>1. Response(q) /\ ~Current(q)
      BY DEF Ordered, Responses, Current
    <2>2. Early(q)' => Early(q)
      BY <1>3, <2>1 DEF Early
    <2> QED
      BY <1>5, <1>8, <2>1, <2>2, KeepResponse
  <1>10. Response(r)'
    BY <1>3, <1>5, <1>6, <1>8 DEF Response, Early, Ended
  <1> QED
    BY <1>4, <1>7, <1>9, <1>10 DEF Ordered, Responses

\* The same when there is more of the response to come.
LEMMA MoreOrdered ==
    ASSUME Plain, TypeOK, Safe, Ordered, wire # <<>>, NEW r \in Requests, r = Head(wire),
           UNCHANGED <<pending, paused, client, stream, blocked, wire, socket, immediates,
                       stage, failures, stale, aborted>>,
           rx'.mode \in {"FIXED", "CHUNKED", "UNTIL_CLOSE"},
           rx'.mode = "FIXED" => rx'.read < rx'.size,
           rx'.mode # "FIXED" => rx'.size = 0, rx'.from = 0,
           lock' <=> rx'.mode = "UNTIL_CLOSE",
           \A q \in Requests \ {r} :
              /\ heads'[q] = heads[q] /\ body'[q] = body[q]
              /\ contentLength'[q] = contentLength[q],
           /\ heads'[r] \in {<<>>, <<r>>} /\ (heads'[r] = <<>> => body'[r] = <<>>)
           /\ \A i \in 1 .. Len(body'[r]) : body'[r][i] = <<r, i>>
           /\ client[r] = "open" => /\ heads'[r] = <<r>> /\ Len(body'[r]) = rx'.read
                                    /\ contentLength'[r] = rx'.size
    PROVE  Ordered'
  <1>1. pending # <<>> /\ r \in Pending
    BY HeadIsCurrent DEF Ordered
  <1>2. Pending' = Pending /\ rx' # Idle
    BY DEF Pending, Idle
  <1>3. Steady' /\ Queue' /\ Members'
    BY <1>2 DEF Ordered, Steady, Queue, QueueIsWire, Members
  <1>4. Reader'
    BY <1>1, <1>2 DEF Reader, LockMode
  <1>5. \A q \in Requests : Current(q)' <=> q = r
    BY <1>2 DEF Current
  <1>6. stage[r] = "queued" /\ client[r] \in {"open", "aborted"}
    BY <1>1 DEF Ordered, Members
  <1>7. ASSUME NEW q \in Requests \ {r} PROVE Response(q)'
    <2>1. Response(q) /\ ~Current(q)
      BY DEF Ordered, Responses, Current
    <2>2. Early(q)' => Early(q)
      BY <1>2, <2>1 DEF Early
    <2> QED
      BY <1>5, <2>1, <2>2, KeepResponse
  <1>8. Response(r)'
    BY <1>5, <1>6 DEF Response, Early
  <1> QED
    BY <1>3, <1>4, <1>7, <1>8 DEF Ordered, Responses

LEMMA HeadersOrdered ==
    ASSUME Plain, TypeOK, Safe, Ordered,
           NEW mode \in {"EMPTY", "FIXED", "CHUNKED", "UNTIL_CLOSE"},
           NEW size \in 0 .. MaxBody, Headers(mode, size)
    PROVE  Ordered'
  <1>1. wire # <<>> /\ rx = Idle /\ (size > 0 <=> mode = "FIXED") /\ size \in Nat
    BY PipelineAssumption DEF Headers, PipelineAssumption, Ordered, Reader
  <1>0. PICK r \in Requests : r = Head(wire)
    BY <1>1, HeadIsCurrent DEF Ordered
  <1>2. pending # <<>> /\ Head(pending) = r /\ r \in Pending
    BY <1>0, <1>1, HeadIsCurrent DEF Ordered
  <1>3. /\ heads' = [heads EXCEPT ![r] = IF client[r] = "open" THEN Append(@, r) ELSE @]
        /\ contentLength' = [contentLength EXCEPT ![r] = size]
        /\ UNCHANGED <<stale, stream, aborted, body, blocked, requestVars, socket>>
    BY <1>0, <1>2 DEF Headers, GiveHeaders
  <1>4. Response(r) /\ Early(r) /\ heads[r] = <<>> /\ body[r] = <<>>
    BY <1>0, <1>1, <1>2 DEF Ordered, Responses, Response, Early, Current
  <1>5. /\ heads'[r] \in {<<>>, <<r>>} /\ (client[r] = "open" => heads'[r] = <<r>>)
        /\ contentLength'[r] = size /\ Len(body'[r]) = 0 /\ body'[r] = <<>>
        /\ \A i \in 1 .. Len(body'[r]) : body'[r][i] = <<r, i>>
        /\ \A q \in Requests \ {r} :
              /\ heads'[q] = heads[q] /\ body'[q] = body[q]
              /\ contentLength'[q] = contentLength[q]
    <2>1. /\ heads \in [Requests -> Seq(Requests)]
          /\ contentLength \in [Requests -> Nat]
      BY DEF TypeOK
    <2>2. Append(<<>>, r) = <<r>>
      OBVIOUS
    <2>3. heads'[r] = IF client[r] = "open" THEN <<r>> ELSE <<>>
      BY <1>2, <1>3, <1>4, <2>1, <2>2
    <2>4. \A q \in Requests \ {r} :
              /\ heads'[q] = heads[q] /\ body'[q] = body[q]
              /\ contentLength'[q] = contentLength[q]
      BY <1>3, <2>1
    <2>5. contentLength'[r] = size
      BY <1>2, <1>3, <2>1
    <2>6. body'[r] = <<>> /\ Len(body'[r]) = 0
      BY <1>3, <1>4
    <2>7. \A i \in 1 .. Len(body'[r]) : body'[r][i] = <<r, i>>
      BY <2>6
    <2> QED
      BY <2>3, <2>4, <2>5, <2>6, <2>7
  <1>6. CASE mode = "EMPTY"
    <2>1. /\ client' = EndResponse(r) /\ TerminateRequest /\ wire' = Tail(wire) /\ rx' = Idle
          /\ size = 0
      <3>1. EndOfResponse(0) /\ client' = EndResponse(r) /\ TerminateRequest
        BY <1>0, <1>2, <1>6 DEF Headers, GiveHeaders
      <3>2. rx.from = 0
        BY DEF Ordered, Reader
      <3>3. wire' = Tail(wire) /\ rx' = Idle
        BY <3>1, <3>2, InStep
      <3>4. size = 0
        BY <1>1, <1>6
      <3> QED
        BY <3>1, <3>3, <3>4
    <2>2. client[r] = "open" => /\ heads'[r] # <<>>
                                /\ contentLength'[r] > 0 => Len(body'[r]) = contentLength'[r]
      <3>1. client[r] = "open" => heads'[r] # <<>>
        BY <1>5, Singleton, Zenon
      <3>2. contentLength'[r] = 0
        BY <1>5, <2>1
      <3> QED
        BY <3>1, <3>2
    <2>3. UNCHANGED <<stream, blocked, socket, immediates, stage, failures, stale, aborted>>
      BY <1>3 DEF requestVars
    <2> QED
      BY <1>1, <1>2, <1>5, <1>0, <2>1, <2>2, <2>3, LastOrdered
  <1>7. CASE mode # "EMPTY"
    <2>1. /\ lock' = (lock \/ mode = "UNTIL_CLOSE")
          /\ UNCHANGED <<client, pending, paused, wire>>
          /\ rx' = [rx EXCEPT !.mode = mode, !.size = size]
      BY <1>0, <1>2, <1>7 DEF Headers, GiveHeaders
    <2>2. ~lock
      BY <1>1 DEF Ordered, Reader, LockMode, Idle
    <2>3. /\ rx'.mode = mode /\ rx'.size = size /\ rx'.read = 0
          /\ rx'.mode \in {"FIXED", "CHUNKED", "UNTIL_CLOSE"}
          /\ rx'.mode = "FIXED" => rx'.read < rx'.size
          /\ rx'.mode # "FIXED" => rx'.size = 0
          /\ rx'.from = 0
          /\ lock' <=> rx'.mode = "UNTIL_CLOSE"
      <3>1. rx'.mode = mode /\ rx'.size = size /\ rx'.read = 0 /\ rx'.from = 0
        BY <1>1, <2>1 DEF Idle
      <3>2. mode \in {"FIXED", "CHUNKED", "UNTIL_CLOSE"}
        BY <1>7
      <3>3. (mode = "FIXED" => 0 < size) /\ (mode # "FIXED" => size = 0)
        BY <1>1
      <3>4. lock' <=> mode = "UNTIL_CLOSE"
        BY <2>1, <2>2
      <3> QED
        BY <3>1, <3>2, <3>3, <3>4
    <2>4. client[r] = "open" => /\ heads'[r] = <<r>> /\ Len(body'[r]) = rx'.read
                                /\ contentLength'[r] = rx'.size
      BY <1>5, <2>3
    <2>5. UNCHANGED <<pending, paused, client, stream, blocked, wire, socket, immediates,
                      stage, failures, stale, aborted>>
      BY <1>3, <2>1 DEF requestVars
    <2> QED
      BY <1>1, <1>2, <1>5, <1>0, <2>3, <2>4, <2>5, MoreOrdered
  <1> QED
    BY <1>6, <1>7

\* What a chunk does to the response r that it is part of.
ChunkStep(r, n, last) ==
    /\ IF last
       THEN wire' = Tail(wire) /\ rx' = Idle /\ TerminateRequest /\ client' = EndResponse(r)
       ELSE /\ rx' = [rx EXCEPT !.read = @ + n]
            /\ UNCHANGED <<wire, pending, lock, paused, client>>
    /\ \/ client[r] = "aborted" /\ body' = body
       \/ /\ client[r] = "open"
          /\ body' = [body EXCEPT ![r] = @ \o [i \in 1 .. n |-> <<r, rx.read + i>>]]
    /\ UNCHANGED <<stream, blocked, heads, contentLength, stale, aborted, requestVars, socket>>

\* A chunk reaches the response it is part of as a whole, and the last one ends
\* the response: for a fixed length, because the client has got all before it.
LEMMA ChunkEffect ==
    ASSUME Plain, TypeOK, Safe, Ordered, NEW n \in 0 .. MaxBody, NEW last \in BOOLEAN,
           BodyChunk(n, last)
    PROVE  \E r \in Requests :
              r = Head(wire) /\ wire # <<>> /\ IsChunk(n, last) /\ ChunkStep(r, n, last)
  <1>1. wire # <<>> /\ IsChunk(n, last) /\ n \in Nat
    BY PipelineAssumption DEF BodyChunk, PipelineAssumption
  <1>2. PICK r \in Requests : r = Head(wire)
    BY <1>1, HeadIsCurrent DEF Ordered
  <1>3. pending # <<>> /\ Head(pending) = r /\ r \in Pending
    BY <1>1, <1>2, HeadIsCurrent DEF Ordered
  <1> DEFINE data == [i \in 1 .. n |-> <<r, rx.read + i>>]
  <1>4. ~paused /\ stream = <<>> /\ \A q \in Requests : ~blocked[q]
    BY DEF Ordered, Steady
  <1>5. /\ Push(data, last)
        /\ IF last
           THEN wire' = Tail(wire) /\ rx' = Idle
           ELSE wire' = wire /\ rx' = [rx EXCEPT !.read = @ + n]
        /\ UNCHANGED <<requestVars, socket>>
    BY <1>2, InStep DEF BodyChunk, Ordered, Reader
  <1>6. Len(data) = n /\ data \in Seq(Units)
    <2>1. rx.read \in Nat
      BY DEF TypeOK, Readings
    <2>2. \A i \in 1 .. n : <<r, rx.read + i>> \in Units
      BY <1>1, <2>1 DEF Units
    <2> QED
      BY <1>1, <2>2
  <1> HIDE DEF data
  <1>7. Deliver(data, last) /\ stream' = stream
    BY <1>4, <1>5 DEF Push
  <1>8. rx # Idle /\ Current(r)
    BY <1>1, <1>2 DEF IsChunk, Idle, Current
  <1>9. UNCHANGED <<stale, contentLength, aborted, heads>>
    BY <1>7 DEF Deliver
  <1>10. CASE client[r] = "aborted"
    <2>1. stale[r]
      BY <1>3, <1>10 DEF Ordered, Members
    <2>2. IgnoreChunk(r, last)
      BY <1>3, <1>7, <2>1 DEF Deliver
    <2>3. EndResponse(r) = client
      BY <1>10 DEF TypeOK, EndResponse, Ended
    <2> QED
      BY <1>1, <1>2, <1>5, <1>7, <1>9, <1>10, <2>1, <2>2, <2>3
      DEF IgnoreChunk, ChunkStep, queueVars
  <1>11. CASE client[r] = "open"
    <2>1. ~stale[r] /\ ~aborted[r]
      BY <1>11 DEF Safe, Progress
    <2>2. IF contentLength[r] = 0 THEN SendStreamChunk(r, data, last)
          ELSE SendChunk(r, data, contentLength[r])
      BY <1>3, <1>7, <1>11, <2>1 DEF Deliver, IgnoreChunk
    <2>3. Len(body[r]) = rx.read /\ contentLength[r] = rx.size
      BY <1>8, <1>11 DEF Ordered, Responses, Response
    <2>4. /\ body' = [body EXCEPT ![r] = @ \o data]
          /\ IF last THEN TerminateRequest /\ client' = EndResponse(r)
             ELSE UNCHANGED <<pending, lock, paused, client>>
          /\ blocked' = blocked
      <3>1. CASE contentLength[r] = 0
        BY <2>2, <3>1 DEF SendStreamChunk, Plain, queueVars
      <3>2. CASE contentLength[r] # 0
        <4>1. PICK m \in Accepted(data) : SendChunk(r, data, contentLength[r])!(m)
          BY <2>2, <3>2 DEF SendChunk
        <4>2. m = n /\ m = Len(data)
          BY <1>6, <4>1 DEF Accepted, Plain
        <4>3. SubSeq(data, 1, m) = data
          BY <1>6, <4>2
        <4>4. rx.mode = "FIXED"
          <5>1. rx.mode \in {"IDLE", "FIXED", "CHUNKED", "UNTIL_CLOSE"}
            BY DEF TypeOK, Readings
          <5> QED
            BY <2>3, <3>2, <5>1 DEF Ordered, Reader, Idle
        <4>5. last <=> Len(body[r]) + m = contentLength[r]
          BY <1>1, <2>3, <4>2, <4>4, InStep DEF IsChunk, Ordered, Reader
        <4>6. CASE last
          BY <1>4, <4>1, <4>3, <4>5, <4>6
        <4>7. CASE ~last
          <5>1. /\ paused' = FALSE
                /\ blocked' = [blocked EXCEPT ![r] = @ \/ ~(m = Len(data))]
                /\ UNCHANGED <<pending, lock, client>>
            BY <4>1, <4>2, <4>5, <4>7
          <5>2. blocked' = blocked /\ paused' = paused
            BY <1>4, <4>2, <5>1 DEF TypeOK
          <5> QED
            BY <4>1, <4>3, <4>7, <5>1, <5>2
        <4> QED
          BY <4>6, <4>7
      <3> QED
        BY <3>1, <3>2
    <2> QED
      BY <1>1, <1>2, <1>5, <1>7, <1>9, <1>11, <2>4 DEF ChunkStep, data
  <1> QED
    BY <1>3, <1>10, <1>11 DEF Ordered, Members

LEMMA BodyChunkOrdered ==
    ASSUME Plain, TypeOK, Safe, Ordered, NEW n \in 0 .. MaxBody, NEW last \in BOOLEAN,
           BodyChunk(n, last)
    PROVE  Ordered'
  <1>1. PICK r \in Requests :
           r = Head(wire) /\ wire # <<>> /\ IsChunk(n, last) /\ ChunkStep(r, n, last)
    BY ChunkEffect
  <1>2. /\ n \in Nat /\ rx.read \in Nat /\ rx.size \in Nat
        /\ rx.from = 0 /\ ReadSoFar = rx.read
        /\ rx.mode \in {"FIXED", "CHUNKED", "UNTIL_CLOSE"}
        /\ body \in [Requests -> Seq(Units)]
    <2>1. n \in Nat
      BY PipelineAssumption DEF PipelineAssumption
    <2>2. rx.mode \in {"FIXED", "CHUNKED", "UNTIL_CLOSE"}
      BY <1>1 DEF IsChunk
    <2> QED
      BY <2>1, <2>2, InStep DEF TypeOK, Readings, Ordered, Reader
  <1>3. Current(r) /\ Response(r)
    BY <1>1, <1>2 DEF Current, Idle, Ordered, Responses
  <1>4. UNCHANGED <<stream, blocked, heads, contentLength, stale, aborted, stage, failures,
                    immediates, socket>>
    BY <1>1 DEF ChunkStep, requestVars
  <1>5. client[r] = "open" => /\ heads[r] = <<r>> /\ Len(body[r]) = rx.read
                              /\ contentLength[r] = rx.size
    BY <1>3 DEF Response
  <1>6. \A q \in Requests \ {r} : body'[q] = body[q]
    BY <1>1, <1>2 DEF ChunkStep
  <1>7. /\ \A i \in 1 .. Len(body'[r]) : body'[r][i] = <<r, i>>
        /\ heads[r] = <<>> => body'[r] = <<>>
        /\ client[r] = "open" => Len(body'[r]) = rx.read + n
    <2>1. CASE client[r] = "aborted" /\ body' = body
      BY <1>3, <2>1 DEF Response
    <2>2. CASE /\ client[r] = "open"
               /\ body' = [body EXCEPT ![r] = @ \o [i \in 1 .. n |-> <<r, rx.read + i>>]]
      <3> DEFINE data == [i \in 1 .. n |-> <<r, rx.read + i>>]
      <3>1. data \in Seq(Units) /\ Len(data) = n /\ \A i \in 1 .. n : data[i] = <<r, rx.read + i>>
        <4>1. \A i \in 1 .. n : <<r, rx.read + i>> \in Units
          BY <1>2 DEF Units
        <4> QED
          BY <1>2, <4>1
      <3>2. body'[r] = body[r] \o data
        BY <1>2, <2>2
      <3> HIDE DEF data
      <3>3. body[r] \in Seq(Units) /\ Len(body[r]) = rx.read
        BY <1>2, <1>5, <2>2
      <3>4. /\ Len(body[r] \o data) = rx.read + n
            /\ \A i \in 1 .. rx.read : (body[r] \o data)[i] = body[r][i]
            /\ \A i \in 1 .. n : (body[r] \o data)[rx.read + i] = data[i]
        <4>1. /\ Len(body[r] \o data) = Len(body[r]) + Len(data)
              /\ \A i \in 1 .. Len(body[r]) : (body[r] \o data)[i] = body[r][i]
              /\ \A i \in 1 .. Len(data) : (body[r] \o data)[Len(body[r]) + i] = data[i]
          <5>1. data \in Seq(Units) /\ body[r] \in Seq(Units)
            BY <3>1, <3>3
          <5> QED
            BY <5>1, ConcatParts
        <4> QED
          BY <3>1, <3>3, <4>1, Zenon
      <3>5. ASSUME NEW i \in 1 .. rx.read + n PROVE body'[r][i] = <<r, i>>
        <4>1. CASE i <= rx.read
          BY <1>2, <1>3, <3>2, <3>3, <3>4, <4>1 DEF Response
        <4>2. CASE i > rx.read
          <5>1. i - rx.read \in 1 .. n /\ rx.read + (i - rx.read) = i
            BY <1>2, <4>2
          <5> QED
            BY <3>1, <3>2, <3>4, <5>1
        <4> QED
          BY <1>2, <4>1, <4>2
      <3>6. heads[r] # <<>>
        BY <1>5, <2>2, Singleton, Zenon
      <3> QED
        BY <2>2, <3>2, <3>4, <3>5, <3>6
    <2> QED
      BY <1>1, <2>1, <2>2 DEF ChunkStep
  <1>8. CASE last
    <2>1. /\ wire' = Tail(wire) /\ rx' = Idle /\ TerminateRequest /\ client' = EndResponse(r)
      BY <1>1, <1>8 DEF ChunkStep
    <2>2. client[r] = "open" => /\ heads'[r] # <<>>
                                /\ contentLength'[r] > 0 => Len(body'[r]) = contentLength'[r]
      <3>1. rx.mode = "FIXED" => rx.read + n = rx.size
        BY <1>1, <1>2, <1>8 DEF IsChunk
      <3>2. rx.mode # "FIXED" => rx.size = 0
        BY <1>2 DEF Ordered, Reader
      <3>3. SUFFICES ASSUME client[r] = "open"
                     PROVE  heads[r] # <<>> /\ (rx.size > 0 => rx.read + n = rx.size)
        BY <1>4, <1>5, <1>7
      <3>4. heads[r] # <<>>
        BY <1>5, <3>3, Singleton, Zenon
      <3> QED
        BY <1>2, <3>1, <3>2, <3>4
    <2> QED
      BY <1>1, <1>3, <1>4, <1>6, <1>7, <2>1, <2>2, LastOrdered DEF Response
  <1>9. CASE ~last
    <2>1. rx' = [rx EXCEPT !.read = @ + n] /\ UNCHANGED <<wire, pending, lock, paused, client>>
      BY <1>1, <1>9 DEF ChunkStep
    <2>2. /\ rx'.mode = rx.mode /\ rx'.size = rx.size /\ rx'.read = rx.read + n
          /\ rx'.from = 0
      BY <1>2, <2>1 DEF TypeOK, Readings
    <2>3. rx.mode = "FIXED" => rx.read + n < rx.size
      <3> SUFFICES ASSUME rx.mode = "FIXED" PROVE rx.read + n < rx.size
        OBVIOUS
      <3>1. n <= rx.size - rx.read /\ rx.read + n # rx.size
        BY <1>1, <1>2, <1>9 DEF IsChunk
      <3>2. n \in Nat /\ rx.read \in Nat /\ rx.size \in Nat
        BY <1>2
      <3> QED
        BY <3>1, <3>2
    <2>4. rx.mode # "FIXED" => rx.size = 0
      BY <1>2 DEF Ordered, Reader
    <2>5. lock' <=> rx'.mode = "UNTIL_CLOSE"
      <3>1. pending # <<>>
        BY <1>1, HeadIsCurrent DEF Ordered
      <3> QED
        BY <2>1, <2>2, <3>1 DEF Ordered, Reader, LockMode
    <2>6. client[r] = "open" => /\ heads'[r] = <<r>> /\ Len(body'[r]) = rx'.read
                                /\ contentLength'[r] = rx'.size
      BY <1>4, <1>5, <1>7, <2>2
    <2> QED
      BY <1>1, <1>2, <1>3, <1>4, <1>6, <1>7, <2>1, <2>2, <2>3, <2>4, <2>5, <2>6, MoreOrdered
      DEF Response
  <1> QED
    BY <1>8, <1>9

-----------------------------------------------------------------------------
(***************************************************************************)
(* Every step keeps Ordered.                                               *)
(***************************************************************************)

\* Nothing is under backpressure, buffered or malformed.
LEMMA NeverHappens ==
    ASSUME Plain, TypeOK, Ordered
    PROVE  ~Flow /\ ~ParserError /\ \A r \in Requests : ~OnWritable(r)
  BY DEF Plain, Ordered, Steady, Flow, Draining, ParserError, OnWritable

LEMMA EndSocketOrdered ==
    ASSUME Plain, TypeOK, Safe, Ordered, EndSocket
    PROVE  Ordered'
  <1>1. /\ socket = "open" /\ socket' = "ending"
        /\ UNCHANGED <<queueVars, stale, contentLength, stream, client, responseVars,
                       requestVars, wire, rx>>
    BY DEF EndSocket
  <1>2. Pending' = Pending
    BY <1>1 DEF Pending, queueVars
  <1>3. Steady' /\ Queue' /\ Reader' /\ Members'
    BY <1>1, <1>2 DEF Ordered, Steady, Queue, QueueIsWire, Reader, LockMode, Members,
       queueVars, responseVars, requestVars
  <1>4. \A r \in Requests : Current(r)' = Current(r) /\ Early(r)' = Early(r)
    BY <1>1, <1>2 DEF Current, Early, requestVars
  <1>5. ASSUME NEW r \in Requests PROVE Response(r)'
    <2>1. Response(r)
      BY DEF Ordered, Responses
    <2> QED
      BY <1>1, <1>4, <2>1, KeepResponse DEF responseVars, requestVars
  <1> QED
    BY <1>3, <1>5 DEF Ordered, Responses

LEMMA StutterOrdered ==
    ASSUME Ordered, UNCHANGED vars
    PROVE  Ordered'
  <1>1. Steady' /\ Queue' /\ Members' /\ Reader'
    BY DEF vars, queueVars, responseVars, requestVars, serverVars, Ordered, Steady, Queue,
       QueueIsWire, Members, Pending, Reader, LockMode
  <1>2. Responses'
    BY DEF vars, queueVars, responseVars, requestVars, serverVars, Ordered, Responses,
       Response, Early, Current, Pending
  <1> QED
    BY <1>1, <1>2 DEF Ordered

LEMMA NextOrdered ==
    ASSUME Plain, TypeOK, Safe, Ordered, [Next]_vars
    PROVE  Ordered'
  <1>1. ASSUME NEW r \in Requests, ScheduleSend(r) PROVE Ordered'
    BY <1>1, RefuseOrdered, EnqueueOrdered DEF ScheduleSend
  <1>2. CASE SocketClosed
    BY <1>2, CloseOrdered DEF SocketClosed
  <1> QED
    BY <1>1, <1>2, NextActions, NeverHappens, HandleRequestOrdered, AbortOrdered,
       SendOrdered, EndSocketOrdered, HeadersOrdered, BodyChunkOrdered, StutterOrdered

-----------------------------------------------------------------------------
(***************************************************************************)
(* The theorems about the order of responses.                              *)
(***************************************************************************)

\* The inductive invariant holds initially and is kept by every step.
THEOREM OrderIsInvariant == Plain /\ Spec => []OrderInvariant
  <1>1. Plain /\ Init => OrderInvariant
    BY InitType, InitSafe, InitOrdered DEF OrderInvariant
  <1>2. OrderInvariant /\ [Next]_vars => OrderInvariant'
    <2> SUFFICES ASSUME Plain, TypeOK, Safe, Ordered, [Next]_vars
                 PROVE  Plain' /\ TypeOK' /\ Safe' /\ Ordered'
      BY DEF OrderInvariant
    <2>1. Plain'
      BY DEF Plain
    <2>2. TypeOK' /\ Safe'
      BY NextType, NextSafe DEF Safe
    <2> QED
      BY <2>1, <2>2, NextOrdered
  <1> QED
    BY <1>1, <1>2, PTL DEF Spec

\* A client gets the status and headers of its own response, once: peek() is whom
\* the parser reads for (setStatus, setHeaders).
THEOREM HeadersGoHome == Plain /\ Spec => []HeadersMatch
  <1>1. OrderInvariant => HeadersMatch
    BY DEF OrderInvariant, Ordered, Responses, Response, HeadersMatch
  <1> QED
    BY <1>1, OrderIsInvariant, PTL

\* A client gets the body of its own response from the start, without a gap or a
\* repetition, whoever leaves and whenever the connection is closed (addBody).
THEOREM BodiesGoHome == Plain /\ Spec => []BodyMatch
  <1>1. OrderInvariant => BodyMatch
    BY DEF OrderInvariant, Ordered, Responses, Response, BodyMatch
  <1> QED
    BY <1>1, OrderIsInvariant, PTL

\* A response that ended without an error is whole.
THEOREM DoneResponsesAreComplete == Plain /\ Spec => []DoneIsComplete
  <1>1. ASSUME OrderInvariant, NEW r \in Requests, client[r] = "done" PROVE r \notin ToSet(wire)
    <2> SUFFICES ASSUME r \in ToSet(wire) PROVE FALSE
      OBVIOUS
    <2>1. wire # <<>>
      BY EmptyToSet
    <2>2. socket # "closed" /\ pending = wire \o immediates
      BY <1>1, <2>1 DEF OrderInvariant, Ordered, Queue, QueueIsWire
    <2>3. r \in Pending
      BY <1>1, <2>2, ConcatToSet DEF OrderInvariant, TypeOK, Pending
    <2> QED
      BY <1>1, <2>3 DEF OrderInvariant, Ordered, Members
  <1>2. OrderInvariant => DoneIsComplete
    BY <1>1 DEF OrderInvariant, Ordered, Responses, Response, DoneIsComplete
  <1> QED
    BY <1>2, OrderIsInvariant, PTL

\* The queue of the pipeline is the order on the wire.
THEOREM QueueFollowsWire == Plain /\ Spec => []QueueIsWire
  <1>1. OrderInvariant => QueueIsWire
    BY DEF OrderInvariant, Ordered, Queue
  <1> QED
    BY <1>1, OrderIsInvariant, PTL

\* The pipeline is locked exactly while a response lasts until the connection closes.
THEOREM LockIsUntilClose == Plain /\ Spec => []LockMode
  <1>1. OrderInvariant => LockMode
    BY DEF OrderInvariant, Ordered, Reader
  <1> QED
    BY <1>1, OrderIsInvariant, PTL

-----------------------------------------------------------------------------
(***************************************************************************)
(* The refinement: each step of the pipeline is a step of Exchange or      *)
(* leaves all of it unchanged.                                             *)
(***************************************************************************)
FateMap == [r \in Requests |-> Fate(r)]

\* A response has one fate, which its state and the errors reported for it decide.
LEMMA FateIs ==
    ASSUME NEW r \in Requests
    PROVE  /\ client[r] = "none" => Fate(r) = "absent"
           /\ client[r] = "open" => Fate(r) = "waiting"
           /\ client[r] = "aborted" => Fate(r) = "left"
           /\ client[r] = "done" /\ failures[r] = 0 => Fate(r) = "answered"
           /\ client[r] = "done" /\ failures[r] > 0 => Fate(r) = "failed"
  <1>1. client[r] = "none" => Fate(r) = "absent"
    BY DEF Fate
  <1>2. client[r] = "open" => Fate(r) = "waiting"
    BY DEF Fate
  <1>3. client[r] = "aborted" => Fate(r) = "left"
    BY DEF Fate
  <1>4. client[r] = "done" /\ failures[r] = 0 => Fate(r) = "answered"
    BY DEF Fate
  <1>5. client[r] = "done" /\ failures[r] > 0 => Fate(r) = "failed"
    BY DEF Fate
  <1> QED
    BY <1>1, <1>2, <1>3, <1>4, <1>5

LEMMA NextFateIs ==
    ASSUME NEW r \in Requests
    PROVE  /\ client'[r] = "open" => Fate(r)' = "waiting"
           /\ client'[r] = "aborted" => Fate(r)' = "left"
           /\ client'[r] = "done" /\ failures'[r] = 0 => Fate(r)' = "answered"
           /\ client'[r] = "done" /\ failures'[r] > 0 => Fate(r)' = "failed"
           /\ client'[r] = client[r] /\ failures'[r] = failures[r] => Fate(r)' = Fate(r)
  <1>1. client'[r] = "open" => Fate(r)' = "waiting"
    BY DEF Fate
  <1>2. client'[r] = "aborted" => Fate(r)' = "left"
    BY DEF Fate
  <1>3. client'[r] = "done" /\ failures'[r] = 0 => Fate(r)' = "answered"
    BY DEF Fate
  <1>4. client'[r] = "done" /\ failures'[r] > 0 => Fate(r)' = "failed"
    BY DEF Fate
  <1>5. client'[r] = client[r] /\ failures'[r] = failures[r] => Fate(r)' = Fate(r)
    BY DEF Fate
  <1> QED
    BY <1>1, <1>2, <1>3, <1>4, <1>5

LEMMA SameFates ==
    ASSUME UNCHANGED <<client, failures>>
    PROVE  FateMap' = FateMap
  BY DEF FateMap, Fate

\* The fate of r changes, and no other.
LEMMA NewFate ==
    ASSUME NEW r \in Requests, NEW f, Fate(r)' = f,
           \A q \in Requests \ {r} : client'[q] = client[q] /\ failures'[q] = failures[q]
    PROVE  FateMap' = [FateMap EXCEPT ![r] = f]
  <1>1. \A q \in Requests \ {r} : Fate(q)' = Fate(q)
    BY FateIs, NextFateIs
  <1> QED
    BY <1>1 DEF FateMap

LEMMA LineIsPending == Ideal!InLine = Pending
  BY DEF Ideal!InLine, Ideal!ToSet, Pending, ToSet

LEMMA ExchangeStutters ==
    ASSUME UNCHANGED <<pending, client, failures, heads, body>>
    PROVE  UNCHANGED Ideal!vars
  BY SameFates DEF Ideal!vars, FateMap

LEMMA RequestImplements ==
    ASSUME Plain, TypeOK, Safe, Ordered, NEW r \in Requests,
           HandleRequest(r) \/ ScheduleSend(r) \/ Abort(r)
    PROVE  [Ideal!Next]_(Ideal!vars)
  <1>1. CASE HandleRequest(r)
    <2>1. /\ client[r] = "none" /\ client' = [client EXCEPT ![r] = "open"]
          /\ UNCHANGED <<pending, failures, heads, body>>
      BY <1>1 DEF HandleRequest, Safe, Progress, queueVars, responseVars
    <2>2. Fate(r) = "absent" /\ Fate(r)' = "waiting"
      BY <2>1, FateIs, NextFateIs DEF TypeOK
    <2>3. FateMap' = [FateMap EXCEPT ![r] = "waiting"]
      BY <2>1, <2>2, NewFate DEF TypeOK
    <2>4. Ideal!Arrive(r)
      BY <2>1, <2>2, <2>3 DEF Ideal!Arrive, FateMap
    <2> QED
      BY <2>4 DEF Ideal!Next
  <1>2. CASE ScheduleSend(r)
    <2>1. stage[r] = "connecting" /\ r \notin Pending /\ failures[r] = 0
      BY <1>2 DEF ScheduleSend, Safe, Progress
    <2>2. client[r] \in {"open", "aborted"} /\ heads[r] = <<>>
      BY <2>1 DEF Ordered, Members, Responses, Response, Early
    <2>3. UNCHANGED <<heads, body>>
      BY <1>2 DEF ScheduleSend, responseVars
    <2>4. CASE Refuse(r)
      <3>1. /\ failures' = [failures EXCEPT ![r] = @ + 1] /\ client' = EndResponse(r)
            /\ pending' = pending
        BY <2>4 DEF Refuse, queueVars
      <3>2. /\ failures'[r] = 1
            /\ \A q \in Requests \ {r} : client'[q] = client[q] /\ failures'[q] = failures[q]
            /\ client'[r] = IF client[r] = "open" THEN "done" ELSE client[r]
        BY <2>1, <3>1 DEF TypeOK, EndResponse, Ended
      <3>3. CASE client[r] = "open"
        <4>1. Fate(r) = "waiting" /\ Fate(r)' = "failed"
          BY <3>2, <3>3, FateIs, NextFateIs
        <4>2. FateMap' = [FateMap EXCEPT ![r] = "failed"]
          BY <3>2, <4>1, NewFate
        <4>3. Ideal!Reject(r)
          BY <2>1, <2>3, <3>1, <4>1, <4>2, LineIsPending DEF Ideal!Reject, FateMap
        <4> QED
          BY <4>3 DEF Ideal!Next
      <3>4. CASE client[r] = "aborted"
        <4>1. Fate(r) = "left" /\ Fate(r)' = "left"
          BY <3>2, <3>4, FateIs, NextFateIs
        <4>2. \A q \in Requests : Fate(q)' = Fate(q)
          BY <3>2, <4>1, FateIs, NextFateIs
        <4>3. UNCHANGED Ideal!vars
          BY <2>3, <3>1, <4>2 DEF Ideal!vars
        <4> QED
          BY <4>3
      <3> QED
        BY <2>2, <3>3, <3>4
    <2>5. CASE Enqueue(r)
      <3>1. pending' = Append(pending, r) /\ UNCHANGED <<client, failures>>
        BY <2>5 DEF Enqueue
      <3>2. Fate(r) \in {"waiting", "left"}
        BY <2>2, FateIs, NextFateIs
      <3>3. Ideal!Join(r)
        BY <2>1, <2>2, <2>3, <3>1, <3>2, SameFates, LineIsPending
        DEF Ideal!Join, FateMap
      <3> QED
        BY <3>3 DEF Ideal!Next
    <2> QED
      BY <1>2, <2>4, <2>5 DEF ScheduleSend
  <1>3. CASE Abort(r)
    <2>1. /\ client[r] = "open" /\ client' = [client EXCEPT ![r] = "aborted"]
          /\ UNCHANGED <<pending, failures, heads, body>>
      BY <1>3 DEF Abort, requestVars
    <2>2. Fate(r) = "waiting" /\ Fate(r)' = "left"
      BY <2>1, FateIs, NextFateIs DEF TypeOK
    <2>3. FateMap' = [FateMap EXCEPT ![r] = "left"]
      BY <2>1, <2>2, NewFate DEF TypeOK
    <2>4. Ideal!Leave(r)
      BY <2>1, <2>2, <2>3 DEF Ideal!Leave, FateMap
    <2> QED
      BY <2>4 DEF Ideal!Next
  <1> QED
    BY <1>1, <1>2, <1>3

\* The connection is lost: an error for everyone in line who still waits.
LEMMA CloseImplements ==
    ASSUME Plain, TypeOK, Safe, Ordered, CloseAll
    PROVE  [Ideal!Next]_(Ideal!vars)
  <1> DEFINE failed == {r \in Pending : ~stale[r]}
  <1>1. pending' = <<>> /\ UNCHANGED <<heads, body>>
    BY DEF CloseAll, responseVars
  <1>2. \A r \in Requests :
           /\ client'[r] = IF r \in failed THEN Ended(client[r]) ELSE client[r]
           /\ failures'[r] = failures[r] + IF r \in failed THEN 1 ELSE 0
    BY DEF CloseAll
  <1>3. \A r \in Requests : failures[r] \in Nat
    BY DEF TypeOK
  <1>4. ASSUME NEW r \in Requests
        PROVE  Fate(r)' = IF r \in Pending /\ Fate(r) = "waiting" THEN "failed" ELSE Fate(r)
    <2>1. CASE r \in failed
      <3>1. client[r] = "open"
        BY <2>1 DEF Ordered, Members
      <3>2. client'[r] = "done" /\ failures'[r] = failures[r] + 1
        BY <1>2, <2>1, <3>1 DEF Ended
      <3>3. failures'[r] > 0
        BY <1>3, <3>2
      <3> QED
        BY <2>1, <3>1, <3>2, <3>3, FateIs, NextFateIs
    <2>2. CASE r \notin failed
      <3>1. client'[r] = client[r] /\ failures'[r] = failures[r]
        BY <1>2, <1>3, <2>2
      <3>2. r \in Pending => client[r] = "aborted"
        BY <2>2 DEF Ordered, Members, Safe, Progress
      <3> QED
        BY <3>1, <3>2, FateIs, NextFateIs
    <2> QED
      BY <2>1, <2>2
  <1>5. CASE pending = <<>>
    <2>1. Pending = {}
      BY <1>5, EmptyToSet DEF Pending
    <2>2. \A r \in Requests : Fate(r)' = Fate(r)
      BY <1>4, <2>1
    <2>3. UNCHANGED Ideal!vars
      BY <1>1, <1>5, <2>2 DEF Ideal!vars
    <2> QED
      BY <2>3
  <1>6. CASE pending # <<>>
    <2>1. Ideal!Fail
      BY <1>1, <1>4, <1>6, LineIsPending DEF Ideal!Fail
    <2> QED
      BY <2>1 DEF Ideal!Next
  <1> QED
    BY <1>5, <1>6

\* The first in line gets more of its response, which may end with it.
LEMMA ServeImplements ==
    ASSUME NEW r \in Requests, NEW n \in 0 .. MaxBody,
           pending # <<>>, r = Head(pending), Fate(r) = "waiting",
           NEW h \in Ideal!MoreHead(r), heads' = [heads EXCEPT ![r] = h],
           n > 0 => heads[r] # <<>>, body' = [body EXCEPT ![r] = Ideal!MoreBody(r, n)],
           \/ pending' = pending /\ FateMap' = FateMap
           \/ /\ pending' = Tail(pending) /\ heads'[r] # <<>>
              /\ FateMap' = [FateMap EXCEPT ![r] = "answered"]
    PROVE  Ideal!Next
  <1>1. \E g \in Ideal!MoreHead(r) : heads' = [heads EXCEPT ![r] = g]
    OBVIOUS
  <1>2. [q \in Requests |-> Fate(q)][r] = "waiting"
    OBVIOUS
  <1>3. Ideal!Serve(r, n)
    BY <1>1, <1>2 DEF Ideal!Serve, FateMap
  <1> QED
    BY <1>3 DEF Ideal!Next

\* The end of a response answers a client that waits for it.
LEMMA TurnOver ==
    ASSUME TypeOK, Safe, NEW r \in Requests, pending # <<>>, r = Head(pending),
           client[r] \in {"open", "aborted"}, TerminateRequest, client' = EndResponse(r),
           failures' = failures
    PROVE  /\ pending' = Tail(pending)
           /\ client[r] = "open" => FateMap' = [FateMap EXCEPT ![r] = "answered"]
           /\ client[r] = "aborted" => FateMap' = FateMap
  <1>1. pending' = Tail(pending)
    BY DEF TerminateRequest
  <1>2. failures[r] = 0
    <2>1. r \in Pending
      BY TailToSet DEF TypeOK, Pending
    <2>2. failures[r] \in Nat
      BY DEF TypeOK
    <2>3. failures[r] <= 1 /\ failures[r] # 1
      BY <2>1 DEF Safe, FailedIsFinal
    <2> QED
      BY <2>2, <2>3
  <1>3. /\ client'[r] = IF client[r] = "open" THEN "done" ELSE client[r]
        /\ \A q \in Requests \ {r} : client'[q] = client[q] /\ failures'[q] = failures[q]
    BY DEF TypeOK, EndResponse, Ended
  <1>4. CASE client[r] = "open"
    <2>1. Fate(r)' = "answered"
      BY <1>2, <1>3, <1>4, NextFateIs
    <2> QED
      BY <1>1, <1>3, <1>4, <2>1, NewFate
  <1>5. CASE client[r] = "aborted"
    <2>1. client' = client
      BY <1>5 DEF TypeOK, EndResponse, Ended
    <2> QED
      BY <1>1, <1>5, <2>1, SameFates
  <1> QED
    BY <1>4, <1>5

\* The turn of a client that has left is over, or not yet.
LEMMA AbsentImplements ==
    ASSUME NEW r \in Requests, pending # <<>>, r = Head(pending), client[r] = "aborted",
           FateMap' = FateMap, UNCHANGED <<heads, body>>,
           pending' \in {pending, Tail(pending)}
    PROVE  [Ideal!Next]_(Ideal!vars)
  <1>1. Fate(r) = "left"
    BY FateIs
  <1>2. CASE pending' = pending
    BY <1>2 DEF Ideal!vars, FateMap
  <1>3. CASE pending' = Tail(pending)
    <2>1. Ideal!Skip
      BY <1>1, <1>3 DEF Ideal!Skip, FateMap
    <2> QED
      BY <2>1 DEF Ideal!Next
  <1> QED
    BY <1>2, <1>3

LEMMA HeadersImplements ==
    ASSUME Plain, TypeOK, Safe, Ordered,
           NEW mode \in {"EMPTY", "FIXED", "CHUNKED", "UNTIL_CLOSE"},
           NEW size \in 0 .. MaxBody, Headers(mode, size)
    PROVE  [Ideal!Next]_(Ideal!vars)
  <1>1. wire # <<>> /\ rx = Idle
    BY DEF Headers, Ordered, Reader
  <1>2. PICK r \in Requests : r = Head(wire)
    BY <1>1, HeadIsCurrent DEF Ordered
  <1>3. pending # <<>> /\ r = Head(pending) /\ r \in Pending
    BY <1>1, <1>2, HeadIsCurrent DEF Ordered
  <1>4. /\ heads' = [heads EXCEPT ![r] = IF client[r] = "open" THEN Append(@, r) ELSE @]
        /\ body' = body /\ failures' = failures
        /\ IF mode = "EMPTY"
           THEN client' = EndResponse(r) /\ TerminateRequest
           ELSE UNCHANGED <<client, pending>>
    BY <1>2, <1>3 DEF Headers, GiveHeaders, requestVars
  <1>5. client[r] \in {"open", "aborted"}
    BY <1>3 DEF Ordered, Members
  <1>6. heads[r] = <<>> /\ body[r] = <<>>
    BY <1>1, <1>3 DEF Ordered, Responses, Response, Early, Current
  <1>7. CASE client[r] = "open"
    <2>1. heads' = [heads EXCEPT ![r] = <<r>>]
      BY <1>4, <1>6, <1>7 DEF TypeOK
    <2>2. <<r>> \in Ideal!MoreHead(r)
      BY <1>6 DEF Ideal!MoreHead
    <2>3. body' = [body EXCEPT ![r] = Ideal!MoreBody(r, 0)]
      <3>1. Ideal!MoreBody(r, 0) = body[r]
        BY <1>6 DEF Ideal!MoreBody
      <3> QED
        BY <1>4, <3>1 DEF TypeOK
    <2>4. Fate(r) = "waiting"
      BY <1>7, FateIs
    <2>5. \/ pending' = pending /\ FateMap' = FateMap
          \/ /\ pending' = Tail(pending) /\ heads'[r] # <<>>
             /\ FateMap' = [FateMap EXCEPT ![r] = "answered"]
      <3>1. heads'[r] = <<r>>
        BY <2>1 DEF TypeOK
      <3>2. heads'[r] # <<>>
        BY <3>1, Singleton, Zenon
      <3>3. CASE mode = "EMPTY"
        BY <1>3, <1>4, <1>5, <1>7, <3>2, <3>3, TurnOver
      <3>4. CASE mode # "EMPTY"
        BY <1>4, <3>4, SameFates
      <3> QED
        BY <3>3, <3>4
    <2>6. 0 \in 0 .. MaxBody /\ (0 > 0 => heads[r] # <<>>)
      BY PipelineAssumption DEF PipelineAssumption
    <2> QED
      BY <1>3, <2>1, <2>2, <2>3, <2>4, <2>5, <2>6, ServeImplements
  <1>8. CASE client[r] = "aborted"
    <2>1. heads' = heads
      BY <1>4, <1>8 DEF TypeOK
    <2>2. FateMap' = FateMap /\ pending' \in {pending, Tail(pending)}
      <3>1. CASE mode = "EMPTY"
        BY <1>3, <1>4, <1>5, <1>8, <3>1, TurnOver
      <3>2. CASE mode # "EMPTY"
        BY <1>4, <3>2, SameFates
      <3> QED
        BY <3>1, <3>2
    <2> QED
      BY <1>3, <1>4, <1>8, <2>1, <2>2, AbsentImplements
  <1> QED
    BY <1>5, <1>7, <1>8

LEMMA BodyChunkImplements ==
    ASSUME Plain, TypeOK, Safe, Ordered, NEW n \in 0 .. MaxBody, NEW last \in BOOLEAN,
           BodyChunk(n, last)
    PROVE  [Ideal!Next]_(Ideal!vars)
  <1>1. PICK r \in Requests :
           r = Head(wire) /\ wire # <<>> /\ IsChunk(n, last) /\ ChunkStep(r, n, last)
    BY ChunkEffect
  <1>2. pending # <<>> /\ r = Head(pending) /\ r \in Pending
    BY <1>1, HeadIsCurrent DEF Ordered
  <1>3. heads' = heads /\ failures' = failures
    BY <1>1 DEF ChunkStep, requestVars
  <1>4. client[r] \in {"open", "aborted"}
    BY <1>2 DEF Ordered, Members
  <1>5. IF last THEN client' = EndResponse(r) /\ TerminateRequest
        ELSE UNCHANGED <<client, pending>>
    BY <1>1 DEF ChunkStep
  <1>6. CASE client[r] = "open"
    <2>1. Current(r) /\ Response(r)
      BY <1>1 DEF Current, IsChunk, Idle, Ordered, Responses
    <2>2. heads[r] = <<r>> /\ Len(body[r]) = rx.read
      BY <1>6, <2>1 DEF Response
    <2>3. heads[r] # <<>>
      BY <2>2, Singleton, Zenon
    <2>4. heads' = [heads EXCEPT ![r] = heads[r]] /\ heads[r] \in Ideal!MoreHead(r)
      BY <1>3, <2>3 DEF TypeOK, Ideal!MoreHead
    <2>5. body' = [body EXCEPT ![r] = Ideal!MoreBody(r, n)]
      BY <1>1, <1>6, <2>2 DEF ChunkStep, Ideal!MoreBody
    <2>6. Fate(r) = "waiting"
      BY <1>6, FateIs
    <2>7. \/ pending' = pending /\ FateMap' = FateMap
          \/ /\ pending' = Tail(pending) /\ heads'[r] # <<>>
             /\ FateMap' = [FateMap EXCEPT ![r] = "answered"]
      <3>1. CASE last
        BY <1>2, <1>3, <1>4, <1>5, <1>6, <2>3, <3>1, TurnOver
      <3>2. CASE ~last
        BY <1>3, <1>5, <3>2, SameFates
      <3> QED
        BY <3>1, <3>2
    <2> QED
      BY <1>2, <2>3, <2>4, <2>5, <2>6, <2>7, ServeImplements
  <1>7. CASE client[r] = "aborted"
    <2>1. body' = body
      BY <1>1, <1>7 DEF ChunkStep
    <2>2. FateMap' = FateMap /\ pending' \in {pending, Tail(pending)}
      <3>1. CASE last
        BY <1>2, <1>3, <1>4, <1>5, <1>7, <3>1, TurnOver
      <3>2. CASE ~last
        BY <1>3, <1>5, <3>2, SameFates
      <3> QED
        BY <3>1, <3>2
    <2> QED
      BY <1>2, <1>3, <1>7, <2>1, <2>2, AbsentImplements
  <1> QED
    BY <1>4, <1>6, <1>7

LEMMA SendImplements ==
    ASSUME Plain, TypeOK, Safe, Ordered, Send
    PROVE  [Ideal!Next]_(Ideal!vars)
  <1>1. CASE socket = "ending"
    <2>1. CloseAll
      BY <1>1 DEF Send
    <2> QED
      BY <2>1, CloseImplements
  <1>2. CASE socket # "ending"
    <2>1. UNCHANGED <<pending, client, failures, heads, body>>
      BY <1>2 DEF Send, queueVars, responseVars
    <2> QED
      BY <2>1, ExchangeStutters
  <1> QED
    BY <1>1, <1>2

LEMMA NextImplements ==
    ASSUME Plain, TypeOK, Safe, Ordered, [Next]_vars
    PROVE  [Ideal!Next]_(Ideal!vars)
  <1>1. ASSUME NEW r \in Requests, HandleRequest(r) \/ ScheduleSend(r) \/ Abort(r)
        PROVE  [Ideal!Next]_(Ideal!vars)
    BY <1>1, RequestImplements
  <1>2. ASSUME Server PROVE [Ideal!Next]_(Ideal!vars)
    BY <1>2, HeadersImplements, BodyChunkImplements DEF Server
  <1>3. ASSUME SocketClosed PROVE [Ideal!Next]_(Ideal!vars)
    BY <1>3, CloseImplements DEF SocketClosed
  <1>4. ASSUME EndSocket \/ UNCHANGED vars PROVE [Ideal!Next]_(Ideal!vars)
    <2>1. UNCHANGED <<pending, client, failures, heads, body>>
      BY <1>4 DEF EndSocket, vars, queueVars, responseVars, requestVars
    <2> QED
      BY <2>1, ExchangeStutters
  <1> QED
    BY <1>1, <1>2, <1>3, <1>4, SendImplements, NeverHappens DEF Next

LEMMA InitImplements == Init => Ideal!Init
  <1> SUFFICES ASSUME Init PROVE Ideal!Init
    OBVIOUS
  <1>1. \A r \in Requests : Fate(r) = "absent"
    BY FateIs DEF Init
  <1> QED
    BY <1>1 DEF Init, Ideal!Init

\* The pipeline keeps the promise of an in-order exchange: clients stand in line
\* in the order of scheduleSend, the parser's events serve only the first of them,
\* one that has left keeps its place until its response has been read, and close()
\* gives an error to everyone who still waits.
THEOREM PipelineImplementsExchange == Plain /\ Spec => ImplementsExchange
  <1>1. OrderInvariant /\ [Next]_vars => [Ideal!Next]_(Ideal!vars)
    BY NextImplements DEF OrderInvariant
  <1> QED
    BY <1>1, InitImplements, OrderIsInvariant, PTL DEF Spec, ImplementsExchange, Ideal!Spec
=============================================================================
