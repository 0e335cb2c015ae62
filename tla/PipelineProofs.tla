--------------------------- MODULE PipelineProofs ---------------------------
(***************************************************************************)
(* Proofs about Pipeline, for any set of requests, any limit on the        *)
(* pipeline, with and without backpressure and malformed responses.        *)
(***************************************************************************)
EXTENDS Pipeline, SequenceFacts, TLAPS

-----------------------------------------------------------------------------
(***************************************************************************)
(* Type correctness.                                                       *)
(***************************************************************************)

\* What the handlers that may end the oldest request do to the queue.
LEMMA TerminateType ==
    ASSUME TypeOK, TerminateRequest
    PROVE  /\ pending' \in Seq(Requests)
           /\ MaxRequests > 0 => Len(pending') <= MaxRequests
           /\ paused' \in BOOLEAN /\ lock' \in BOOLEAN
  <1>1. CASE pending = <<>>
    BY <1>1 DEF TypeOK, TerminateRequest, queueVars
  <1>2. CASE pending # <<>>
    <2>1. Tail(pending) \in Seq(Requests) /\ Len(Tail(pending)) = Len(pending) - 1
      BY <1>2, TailToSet DEF TypeOK
    <2>2. pending' = Tail(pending) /\ lock' = FALSE /\ paused' = FALSE
      BY <1>2 DEF TerminateRequest
    <2>3. ASSUME MaxRequests > 0 PROVE Len(Tail(pending)) <= MaxRequests
      <3>1. Len(pending) \in Nat /\ Len(pending) <= MaxRequests
        BY <2>3 DEF TypeOK
      <3> QED
        BY <2>1, <3>1, PipelineAssumption DEF PipelineAssumption
    <2> QED
      BY <2>1, <2>2, <2>3
  <1> QED
    BY <1>1, <1>2

\* The variables of TypeOK that the delivery of a chunk changes.
DeliverType ==
    /\ pending \in Seq(Requests)
    /\ MaxRequests > 0 => Len(pending) <= MaxRequests
    /\ paused \in BOOLEAN /\ lock \in BOOLEAN
    /\ client \in [Requests -> {"none", "open", "done", "aborted"}]
    /\ body \in [Requests -> Seq(Units)]
    /\ blocked \in [Requests -> BOOLEAN]
    /\ writable \in [Requests -> {"retry", "resume", "end"}]
    /\ buffer \in [data : Seq(Units), offset : Nat, total : Nat]

LEMMA EndResponseType ==
    ASSUME TypeOK, NEW r \in Requests
    PROVE  EndResponse(r) \in [Requests -> {"none", "open", "done", "aborted"}]
  BY DEF TypeOK, EndResponse, Ended

LEMMA SendStreamChunkType ==
    ASSUME TypeOK, NEW r \in Requests, NEW data \in Seq(Units), NEW last \in BOOLEAN,
           SendStreamChunk(r, data, last)
    PROVE  DeliverType'
  <1>1. body' \in [Requests -> Seq(Units)]
    BY DEF TypeOK, SendStreamChunk
  <1>2. buffer' = buffer
    BY DEF SendStreamChunk
  <1>3. CASE /\ IF last THEN TerminateRequest ELSE UNCHANGED queueVars
             /\ client' = IF last THEN EndResponse(r) ELSE client
             /\ UNCHANGED <<blocked, writable>>
    BY <1>1, <1>2, <1>3, TerminateType, EndResponseType DEF TypeOK, DeliverType, queueVars
  <1>4. CASE /\ paused' = TRUE
             /\ blocked' = [blocked EXCEPT ![r] = TRUE]
             /\ writable' = [writable EXCEPT ![r] = IF last THEN "end" ELSE "resume"]
             /\ UNCHANGED <<pending, lock, client>>
    BY <1>1, <1>2, <1>4 DEF TypeOK, DeliverType
  <1> QED
    BY <1>3, <1>4 DEF SendStreamChunk

LEMMA BodyGrows ==
    ASSUME TypeOK, NEW r \in Requests, NEW s \in Seq(Units),
           body' = [body EXCEPT ![r] = @ \o s]
    PROVE  body' \in [Requests -> Seq(Units)]
  <1>1. body \in [Requests -> Seq(Units)]
    BY DEF TypeOK
  <1>2. body[r] \o s \in Seq(Units)
    BY <1>1
  <1> QED
    BY <1>1, <1>2

LEMMA SendChunkType ==
    ASSUME TypeOK, NEW r \in Requests, NEW data \in Seq(Units), NEW total \in Nat,
           SendChunk(r, data, total)
    PROVE  DeliverType'
  <1>1. PICK n \in Accepted(data) :
          /\ body' = [body EXCEPT ![r] = @ \o SubSeq(data, 1, n)]
          /\ writable' = writable
          /\ \/ /\ TerminateRequest
                /\ client' = EndResponse(r)
                /\ UNCHANGED <<blocked, buffer>>
             \/ /\ paused' \in BOOLEAN
                /\ blocked' \in {blocked, [blocked EXCEPT ![r] = TRUE]}
                /\ buffer' \in {buffer, [data |-> data, offset |-> Len(body[r]),
                                        total |-> total]}
                /\ UNCHANGED <<pending, lock, client>>
    <2>1. PICK n \in Accepted(data) : SendChunk(r, data, total)!(n)
      BY DEF SendChunk
    <2>2. CASE Len(body[r]) + n = total
      BY <2>1, <2>2
    <2>3. CASE Len(body[r]) + n # total
      <3>1. /\ body' = [body EXCEPT ![r] = @ \o SubSeq(data, 1, n)]
            /\ writable' = writable /\ UNCHANGED <<pending, lock, client>>
            /\ paused' = ~(n = Len(data))
            /\ blocked' = [blocked EXCEPT ![r] = @ \/ ~(n = Len(data))]
            /\ buffer' \in {buffer, [data |-> data, offset |-> Len(body[r]),
                                    total |-> total]}
        <4>1. /\ body' = [body EXCEPT ![r] = @ \o SubSeq(data, 1, n)]
              /\ writable' = writable
          BY <2>1
        <4>2. /\ UNCHANGED <<pending, lock, client>>
              /\ paused' = ~(n = Len(data))
              /\ blocked' = [blocked EXCEPT ![r] = @ \/ ~(n = Len(data))]
          BY <2>1, <2>3
        <4>3. buffer' \in {buffer, [data |-> data, offset |-> Len(body[r]),
                                   total |-> total]}
          BY <2>1, <2>3
        <4> QED
          BY <4>1, <4>2, <4>3
      <3>2. blocked' \in {blocked, [blocked EXCEPT ![r] = TRUE]}
        <4>1. blocked \in [Requests -> BOOLEAN]
          BY DEF TypeOK
        <4>2. CASE n = Len(data)
          BY <3>1, <4>1, <4>2
        <4>3. CASE n # Len(data)
          BY <3>1, <4>1, <4>3
        <4> QED
          BY <4>2, <4>3
      <3> QED
        BY <3>1, <3>2
    <2> QED
      BY <2>2, <2>3
  <1>2. SubSeq(data, 1, n) \in Seq(Units)
    BY DEF Accepted
  <1>3. body \in [Requests -> Seq(Units)]
    BY DEF TypeOK
  <1>5. body' \in [Requests -> Seq(Units)]
    BY <1>1, <1>2, BodyGrows
  <1>6. Len(body[r]) \in Nat
    BY <1>3
  <1>7. [data |-> data, offset |-> Len(body[r]), total |-> total]
            \in [data : Seq(Units), offset : Nat, total : Nat]
    BY <1>6
  <1>8. CASE TerminateRequest /\ client' = EndResponse(r) /\ UNCHANGED <<blocked, buffer>>
    BY <1>1, <1>5, <1>8, TerminateType, EndResponseType DEF TypeOK, DeliverType
  <1>9. CASE /\ paused' \in BOOLEAN
             /\ blocked' \in {blocked, [blocked EXCEPT ![r] = TRUE]}
             /\ buffer' \in {buffer, [data |-> data, offset |-> Len(body[r]),
                                     total |-> total]}
             /\ UNCHANGED <<pending, lock, client>>
    <2>1. buffer' \in [data : Seq(Units), offset : Nat, total : Nat]
      BY <1>7, <1>9 DEF TypeOK
    <2>2. blocked' \in [Requests -> BOOLEAN]
      BY <1>9 DEF TypeOK
    <2> QED
      BY <1>1, <1>5, <1>9, <2>1, <2>2 DEF TypeOK, DeliverType
  <1> QED
    BY <1>1, <1>8, <1>9

LEMMA DeliverTypeOK ==
    ASSUME TypeOK, NEW data \in Seq(Units), NEW last \in BOOLEAN, Deliver(data, last)
    PROVE  /\ DeliverType'
           /\ UNCHANGED <<stale, contentLength, aborted, heads>>
  <1>1. SUFFICES DeliverType'
    BY DEF Deliver
  <1>2. CASE UNCHANGED <<queueVars, client, body, blocked, writable, buffer>>
    BY <1>2 DEF TypeOK, DeliverType, queueVars
  <1>3. ASSUME pending # <<>> PROVE Head(pending) \in Requests
    BY <1>3, TailToSet DEF TypeOK
  <1>4. CASE pending # <<>> /\ IgnoreChunk(Head(pending), last)
    BY <1>4, TerminateType DEF TypeOK, DeliverType, IgnoreChunk, queueVars
  <1>5. CASE pending # <<>> /\ SendStreamChunk(Head(pending), data, last)
    BY <1>3, <1>5, SendStreamChunkType
  <1>6. CASE /\ pending # <<>>
             /\ SendChunk(Head(pending), data, contentLength[Head(pending)])
    <2>1. contentLength[Head(pending)] \in Nat
      BY <1>3, <1>6 DEF TypeOK
    <2> QED
      BY <1>3, <1>6, <2>1, SendChunkType
  <1> QED
    BY <1>2, <1>4, <1>5, <1>6 DEF Deliver

LEMMA PushTypeOK ==
    ASSUME TypeOK, NEW data \in Seq(Units), NEW last \in BOOLEAN, Push(data, last)
    PROVE  /\ DeliverType' /\ stream' \in Seq(Chunks)
           /\ UNCHANGED <<stale, contentLength, aborted, heads>>
  <1>1. CASE Deliver(data, last) /\ UNCHANGED stream
    BY <1>1, DeliverTypeOK DEF TypeOK
  <1>2. CASE /\ stream' = Append(stream, [data |-> data, last |-> last])
             /\ UNCHANGED <<queueVars, stale, contentLength, buffer, client, responseVars>>
    <2>1. [data |-> data, last |-> last] \in Chunks
      BY DEF Chunks
    <2>2. stream' \in Seq(Chunks)
      BY <1>2, <2>1 DEF TypeOK
    <2> QED
      BY <1>2, <2>2 DEF TypeOK, DeliverType, queueVars, responseVars
  <1> QED
    BY <1>1, <1>2 DEF Push

LEMMA CloseAllTypeOK ==
    ASSUME TypeOK, CloseAll
    PROVE  /\ DeliverType' /\ stream' \in Seq(Chunks)
           /\ failures' \in [Requests -> Nat]
           /\ UNCHANGED <<stale, contentLength, aborted, heads>>
  <1> DEFINE failed == {r \in Pending : ~stale[r]}
  <1>1. failures' \in [Requests -> Nat]
    <2>1. failures' = [r \in Requests |-> failures[r] + IF r \in failed THEN 1 ELSE 0]
      BY DEF CloseAll
    <2> HIDE DEF failed
    <2>2. ASSUME NEW r \in Requests
          PROVE  failures[r] + (IF r \in failed THEN 1 ELSE 0) \in Nat
      BY DEF TypeOK
    <2> QED
      BY <2>1, <2>2
  <1>2. client' \in [Requests -> {"none", "open", "done", "aborted"}]
    BY DEF TypeOK, CloseAll, Ended
  <1>3. pending' = <<>> /\ lock' \in BOOLEAN /\ paused' = FALSE /\ stream' = <<>>
    BY DEF TypeOK, CloseAll
  <1>4. pending' \in Seq(Requests) /\ (MaxRequests > 0 => Len(pending') <= MaxRequests)
    BY <1>3, PipelineAssumption DEF PipelineAssumption
  <1>5. stream' \in Seq(Chunks)
    BY <1>3
  <1>6. UNCHANGED <<stale, contentLength, buffer, responseVars>>
    BY DEF CloseAll
  <1> QED
    BY <1>1, <1>2, <1>3, <1>4, <1>5, <1>6 DEF TypeOK, DeliverType, responseVars

\* The remaining variables of TypeOK.
RestType ==
    /\ stale \in [Requests -> BOOLEAN]
    /\ contentLength \in [Requests -> Nat]
    /\ stream \in Seq(Chunks)
    /\ aborted \in [Requests -> BOOLEAN]
    /\ heads \in [Requests -> Seq(Requests)]
    /\ stage \in [Requests -> {"new", "connecting", "queued", "refused"}]
    /\ failures \in [Requests -> Nat]
    /\ immediates \in Seq(Requests)
    /\ socket \in {"open", "ending", "closed"}
    /\ wire \in Seq(Requests)
    /\ rx \in Readings
    /\ inFeed \in BOOLEAN

\* The two parts make TypeOK, before a step and after it.
LEMMA TypeSplit ==
    /\ TypeOK <=> DeliverType /\ RestType
    /\ TypeOK' <=> DeliverType' /\ RestType'
  BY DEF TypeOK, DeliverType, RestType

LEMMA IdleType == Idle \in Readings /\ Idle.read = 0
  BY DEF Idle, Readings

\* Where the parser goes on: with the next response, or further on in this one.
LEMMA GoesOnReading ==
    ASSUME TypeOK, wire # <<>>, NEW n \in Nat, EndOfResponse(n) \/ NextOrRemains(n)
    PROVE  /\ wire' \in Seq(Requests) /\ rx' \in Readings
           /\ \/ wire' = Tail(wire)
              \/ wire' = wire /\ rx'.read = rx.read + n + 1
  <1>1. wire \in Seq(Requests) /\ Tail(wire) \in Seq(Requests)
    BY TailToSet DEF TypeOK
  <1>2. rx.read \in Nat /\ rx \in Readings
    BY DEF TypeOK, Readings
  <1>3. CASE wire' = Tail(wire) /\ rx' = Idle
    BY <1>1, <1>3, IdleType
  <1>4. CASE NextOrRemains(n) /\ ~(wire' = Tail(wire) /\ rx' = Idle)
    <2> DEFINE next == rx.read + n + 1
    <2>1. next \in Nat
      BY <1>2
    <2>2. wire' = wire /\ rx' = [Idle EXCEPT !.read = next, !.from = next]
      BY <1>4 DEF NextOrRemains
    <2> HIDE DEF next
    <2>3. rx' \in Readings /\ rx'.read = next
      BY <2>1, <2>2 DEF Idle, Readings
    <2> QED
      BY <1>1, <2>2, <2>3 DEF next
  <1> QED
    BY <1>3, <1>4 DEF EndOfResponse

\* A parser that was not reset within a response is in step with the server.
LEMMA InStep ==
    ASSUME TypeOK, rx.from = 0
    PROVE  /\ ReadSoFar = rx.read
           /\ \A n : EndOfResponse(n) => wire' = Tail(wire) /\ rx' = Idle
  BY DEF TypeOK, Readings, ReadSoFar, EndOfResponse

LEMMA InitType == Init => TypeOK
  <1> SUFFICES ASSUME Init PROVE TypeOK
    OBVIOUS
  <1>1. DeliverType
    <2>1. NoBuffer \in [data : Seq(Units), offset : Nat, total : Nat]
      BY DEF NoBuffer
    <2>2. pending \in Seq(Requests) /\ (MaxRequests > 0 => Len(pending) <= MaxRequests)
      BY PipelineAssumption DEF Init, PipelineAssumption
    <2>3. body \in [Requests -> Seq(Units)]
      BY DEF Init
    <2> QED
      BY <2>1, <2>2, <2>3 DEF Init, DeliverType
  <1>2. RestType
    <2>1. stream \in Seq(Chunks) /\ immediates \in Seq(Requests) /\ wire \in Seq(Requests)
      BY DEF Init
    <2>2. heads \in [Requests -> Seq(Requests)]
      BY DEF Init
    <2> QED
      BY <2>1, <2>2, IdleType DEF Init, RestType
  <1> QED
    BY <1>1, <1>2, TypeSplit

\* The actions of requests and their clients.
LEMMA RequestType ==
    ASSUME TypeOK, NEW r \in Requests,
           HandleRequest(r) \/ ScheduleSend(r) \/ Abort(r)
    PROVE  TypeOK'
  <1>1. CASE HandleRequest(r)
    BY <1>1 DEF TypeOK, HandleRequest, queueVars, responseVars, serverVars
  <1>2. CASE ScheduleSend(r)
    <2>1. CASE Refuse(r)
      <3>1. failures' \in [Requests -> Nat]
        BY <2>1 DEF TypeOK, Refuse
      <3> QED
        BY <1>2, <2>1, <3>1, EndResponseType
        DEF TypeOK, ScheduleSend, Refuse, queueVars, responseVars, serverVars
    <2>2. CASE Enqueue(r) /\ ~Full
      <3>1. pending' \in Seq(Requests) /\ Len(pending') = Len(pending) + 1
        BY <2>2 DEF TypeOK, Enqueue
      <3>2. MaxRequests > 0 => Len(pending') <= MaxRequests
        BY <2>2, <3>1, PipelineAssumption DEF TypeOK, Full, PipelineAssumption
      <3>3. immediates' \in Seq(Requests)
        BY <2>2 DEF TypeOK, Enqueue
      <3> QED
        BY <1>2, <2>2, <3>1, <3>2, <3>3
        DEF TypeOK, ScheduleSend, Enqueue, queueVars, responseVars, serverVars
    <2> QED
      BY <1>2, <2>1, <2>2 DEF ScheduleSend
  <1>3. CASE Abort(r)
    <2>1. /\ client' \in [Requests -> {"none", "open", "done", "aborted"}]
          /\ aborted' \in [Requests -> BOOLEAN]
          /\ stale' \in [Requests -> BOOLEAN]
          /\ paused' \in BOOLEAN
      BY <1>3 DEF TypeOK, Abort
    <2> QED
      BY <1>3, <2>1 DEF TypeOK, Abort, requestVars, serverVars
  <1> QED
    BY <1>1, <1>2, <1>3

LEMMA OnWritableType ==
    ASSUME TypeOK, RetryWithinBuffer, NEW r \in Requests, OnWritable(r)
    PROVE  TypeOK'
  <1>1. /\ client[r] = "open" /\ blocked[r]
        /\ UNCHANGED <<stale, contentLength, stream, aborted, heads, writable, requestVars,
                       serverVars, inFeed>>
    BY DEF OnWritable
  <1>2. RestType'
    BY <1>1 DEF TypeOK, RestType, requestVars, serverVars
  <1>3. blocked' \in [Requests -> BOOLEAN]
    BY DEF TypeOK, OnWritable, RetryBuffer
  <1>4. CASE writable[r] = "retry" /\ RetryBuffer(r) /\ buffer = NoBuffer
    BY <1>1, <1>2, <1>3, <1>4, TypeSplit DEF DeliverType, RetryBuffer, queueVars, TypeOK
  <1>5. CASE writable[r] = "retry" /\ RetryBuffer(r) /\ buffer # NoBuffer
    <2> DEFINE k == Len(body[r]) - buffer.offset + 1
               rest == SubSeq(buffer.data, k, Len(buffer.data))
    <2>1. PICK n \in Accepted(rest) :
             /\ body' = [body EXCEPT ![r] = @ \o SubSeq(rest, 1, n)]
             /\ client' = IF Len(body[r]) + n = buffer.total
                          THEN EndResponse(r) ELSE client
             /\ paused' = (paused /\ ~(n = Len(rest)))
             /\ buffer' = IF n = Len(rest) THEN NoBuffer ELSE buffer
             /\ UNCHANGED <<pending, lock>>
      BY <1>5 DEF RetryBuffer
    <2>2. buffer.data \in Seq(Units) /\ buffer.offset \in Nat /\ body[r] \in Seq(Units)
      BY DEF TypeOK
    <2>3. k \in Nat \ {0}
      BY <1>1, <1>5, <2>2 DEF RetryWithinBuffer
    <2> HIDE DEF k
    <2>4. rest \in Seq(Units)
      BY <2>2, <2>3
    <2> HIDE DEF rest
    <2>5. n \in 0 .. Len(rest)
      BY <2>1, <2>4 DEF Accepted
    <2>6. SubSeq(rest, 1, n) \in Seq(Units)
      BY <2>4, <2>5
    <2>7. body' \in [Requests -> Seq(Units)]
      BY <2>1, <2>6, BodyGrows
    <2>8. NoBuffer \in [data : Seq(Units), offset : Nat, total : Nat]
      BY DEF NoBuffer
    <2> QED
      BY <1>1, <1>2, <1>3, <2>1, <2>7, <2>8, EndResponseType, TypeSplit
      DEF DeliverType
  <1>6. CASE writable[r] = "resume" /\ ~(writable[r] = "retry")
    BY <1>1, <1>2, <1>3, <1>6, TypeSplit DEF OnWritable, DeliverType
  <1>7. CASE writable[r] = "end"
    <2>1. /\ client' = EndResponse(r)
          /\ pending' = IF pending = <<>> THEN pending ELSE Tail(pending)
          /\ lock' = (lock /\ pending = <<>>) /\ paused' = FALSE
          /\ UNCHANGED <<buffer, body>>
      BY <1>7 DEF OnWritable
    <2>2. /\ pending' \in Seq(Requests)
          /\ MaxRequests > 0 => Len(pending') <= MaxRequests
      <3>1. CASE pending = <<>>
        BY <2>1, <3>1 DEF TypeOK
      <3>2. CASE pending # <<>>
        <4>1. Tail(pending) \in Seq(Requests) /\ Len(Tail(pending)) = Len(pending) - 1
          BY <3>2, TailToSet DEF TypeOK
        <4> QED
          BY <2>1, <3>2, <4>1, PipelineAssumption DEF TypeOK, PipelineAssumption
      <3> QED
        BY <3>1, <3>2
    <2> QED
      BY <1>1, <1>2, <1>3, <2>1, <2>2, EndResponseType, TypeSplit DEF DeliverType
  <1> QED
    BY <1>4, <1>5, <1>6, <1>7 DEF OnWritable

LEMMA HeadersType ==
    ASSUME TypeOK, NEW mode \in {"EMPTY", "FIXED", "CHUNKED", "UNTIL_CLOSE"},
           NEW size \in 0 .. MaxBody, Headers(mode, size)
    PROVE  TypeOK'
  <1>1. size \in Nat
    BY PipelineAssumption DEF PipelineAssumption
  <1>2. wire # <<>> /\ Head(wire) \in Requests /\ Tail(wire) \in Seq(Requests)
    BY TailToSet DEF TypeOK, Headers
  <1>3. wire' \in Seq(Requests) /\ rx' \in Readings
    <2>1. CASE mode = "EMPTY"
      BY <1>2, <2>1, GoesOnReading DEF Headers
    <2>2. CASE mode # "EMPTY"
      BY <1>1, <2>2 DEF TypeOK, Headers, Readings
    <2> QED
      BY <2>1, <2>2
  <1>5. CASE UNCHANGED <<heads, contentLength, client, queueVars>>
    BY <1>3, <1>5 DEF TypeOK, Headers, queueVars, requestVars
  <1>6. CASE pending # <<>> /\ GiveHeaders(Head(pending), mode, size)
    <2> DEFINE r == Head(pending)
    <2>1. r \in Requests
      BY <1>6, TailToSet DEF TypeOK
    <2>2. heads' \in [Requests -> Seq(Requests)]
      <3>1. heads \in [Requests -> Seq(Requests)]
        BY DEF TypeOK
      <3>2. Append(heads[r], Head(wire)) \in Seq(Requests)
        BY <1>2, <2>1, <3>1
      <3>3. heads' = [heads EXCEPT ![r] =
                         IF client[r] = "open" THEN Append(@, Head(wire)) ELSE @]
        BY <1>6 DEF GiveHeaders
      <3> QED
        BY <2>1, <3>1, <3>2, <3>3
    <2>3. contentLength' \in [Requests -> Nat]
      BY <1>1, <1>6 DEF TypeOK, GiveHeaders
    <2>4. /\ client' \in [Requests -> {"none", "open", "done", "aborted"}]
          /\ pending' \in Seq(Requests)
          /\ MaxRequests > 0 => Len(pending') <= MaxRequests
          /\ paused' \in BOOLEAN /\ lock' \in BOOLEAN
      <3>1. CASE mode = "EMPTY"
        BY <1>6, <2>1, <3>1, TerminateType, EndResponseType DEF GiveHeaders
      <3>2. CASE mode # "EMPTY"
        BY <1>6, <3>2 DEF TypeOK, GiveHeaders
      <3> QED
        BY <3>1, <3>2
    <2> QED
      BY <1>3, <2>2, <2>3, <2>4 DEF TypeOK, Headers, requestVars
  <1> QED
    BY <1>5, <1>6 DEF Headers

LEMMA BodyChunkType ==
    ASSUME TypeOK, NEW n \in 0 .. MaxBody, NEW last \in BOOLEAN, BodyChunk(n, last)
    PROVE  TypeOK'
  <1>1. n \in Nat
    BY PipelineAssumption DEF PipelineAssumption
  <1>2. wire # <<>> /\ Head(wire) \in Requests /\ Tail(wire) \in Seq(Requests)
    BY TailToSet DEF TypeOK, BodyChunk
  <1>0. rx.read \in Nat
    BY DEF TypeOK, Readings
  <1> DEFINE data == [i \in 1 .. n |-> <<Head(wire), rx.read + i>>]
  <1>3. data \in Seq(Units)
    <2>1. ASSUME NEW i \in 1 .. n PROVE <<Head(wire), rx.read + i>> \in Units
      BY <1>0, <1>1, <1>2 DEF Units
    <2> QED
      BY <1>1, <2>1
  <1>4. Push(data, last)
    BY DEF BodyChunk
  <1> HIDE DEF data
  <1>5. /\ DeliverType' /\ stream' \in Seq(Chunks)
        /\ UNCHANGED <<stale, contentLength, aborted, heads>>
    BY <1>3, <1>4, PushTypeOK
  <1>6. wire' \in Seq(Requests) /\ rx' \in Readings
    <2>1. CASE last
      BY <1>1, <1>2, <2>1, GoesOnReading DEF BodyChunk
    <2>2. CASE ~last
      <3>1. rx.read + n \in Nat
        BY <1>0, <1>1
      <3> QED
        BY <2>2, <3>1 DEF TypeOK, BodyChunk, Readings
    <2> QED
      BY <2>1, <2>2
  <1>8. inFeed' \in BOOLEAN
    BY DEF BodyChunk
  <1>9. UNCHANGED <<requestVars, socket>>
    BY DEF BodyChunk
  <1> QED
    BY <1>5, <1>6, <1>8, <1>9, TypeSplit DEF RestType, requestVars

\* The actions of the connection.
LEMMA ConnectionType ==
    ASSUME TypeOK, Send \/ Flow \/ ParserError \/ EndSocket \/ SocketClosed
    PROVE  TypeOK'
  <1>1. CASE Send
    <2>1. immediates # <<>> /\ Head(immediates) \in Requests
          /\ Tail(immediates) \in Seq(Requests)
      BY <1>1, TailToSet DEF TypeOK, Send
    <2>2. Append(wire, Head(immediates)) \in Seq(Requests)
      BY <2>1 DEF TypeOK
    <2>3. CASE UNCHANGED <<queueVars, stale, contentLength, stream, buffer, client,
                           responseVars, failures, socket, rx>>
      BY <1>1, <2>1, <2>2, <2>3 DEF TypeOK, Send, queueVars, responseVars, serverVars
    <2>4. CASE CloseAll /\ socket' = "closed" /\ wire' = <<>> /\ rx' = Idle
      <3>1. wire' \in Seq(Requests)
        BY <2>4
      <3> QED
        BY <1>1, <2>1, <2>4, <3>1, CloseAllTypeOK, IdleType, TypeSplit
        DEF Send, RestType
    <2> QED
      BY <1>1, <2>3, <2>4 DEF Send, serverVars
  <1>2. CASE Flow
    <2>1. Head(stream) \in Chunks /\ Tail(stream) \in Seq(Chunks)
      BY <1>2, TailToSet DEF TypeOK, Flow, Draining
    <2>2. Head(stream).data \in Seq(Units) /\ Head(stream).last \in BOOLEAN
      BY <2>1 DEF Chunks
    <2>3. DeliverType' /\ UNCHANGED <<stale, contentLength, aborted, heads>>
      BY <1>2, <2>2, DeliverTypeOK DEF Flow
    <2>4. stream' \in Seq(Chunks) /\ inFeed' = FALSE /\ UNCHANGED <<requestVars, serverVars>>
      BY <1>2, <2>1 DEF Flow
    <2> QED
      BY <2>3, <2>4, TypeSplit DEF RestType, requestVars, serverVars
  <1>3. CASE ParserError
    <2>1. wire' \in Seq(Requests) /\ rx' \in Readings
      BY <1>3, GoesOnReading DEF ParserError
    <2> QED
      BY <1>3, <2>1, CloseAllTypeOK, TypeSplit DEF RestType, ParserError
  <1>4. CASE EndSocket
    BY <1>4 DEF TypeOK, EndSocket, queueVars, responseVars, requestVars
  <1>5. CASE SocketClosed
    <2>1. wire' \in Seq(Requests)
      BY <1>5 DEF SocketClosed
    <2> QED
      BY <1>5, <2>1, CloseAllTypeOK, IdleType, TypeSplit DEF RestType, SocketClosed
  <1> QED
    BY <1>1, <1>2, <1>3, <1>4, <1>5

LEMMA StutterType == ASSUME TypeOK, UNCHANGED vars PROVE TypeOK'
  BY DEF TypeOK, vars, queueVars, responseVars, requestVars, serverVars

\* The actions, as Next groups them.
LEMMA NextActions ==
    ASSUME [Next]_vars
    PROVE  \/ \E r \in Requests : HandleRequest(r) \/ ScheduleSend(r) \/ Abort(r)
           \/ \E r \in Requests : OnWritable(r)
           \/ Send \/ Flow \/ ParserError \/ EndSocket \/ SocketClosed
           \/ \E mode \in {"EMPTY", "FIXED", "CHUNKED", "UNTIL_CLOSE"},
                 size \in 0 .. MaxBody : Headers(mode, size)
           \/ \E n \in 0 .. MaxBody, last \in BOOLEAN : BodyChunk(n, last)
           \/ UNCHANGED vars
  BY DEF Next, Server

LEMMA NextType == ASSUME TypeOK, RetryWithinBuffer, [Next]_vars PROVE TypeOK'
  BY NextActions, RequestType, OnWritableType, ConnectionType, HeadersType,
     BodyChunkType, StutterType

-----------------------------------------------------------------------------
(***************************************************************************)
(* The inductive invariant.  NoOrphan, FailedIsFinal and BlockedIsHead     *)
(* need one another and the progress of each request: who is not yet       *)
(* scheduled is not in the pipeline, and who is marked stale or aborted    *)
(* has no usable response.  AbortedIsStale needs the former: the proxy's   *)
(* abort handler marks only requests that are not yet in the pipeline.     *)
(***************************************************************************)
Progress ==
    \A r \in Requests :
       /\ stage[r] = "new" => /\ client[r] = "none"
                              /\ ~stale[r] /\ ~aborted[r] /\ ~blocked[r]
       /\ stage[r] \in {"new", "connecting"} => r \notin Pending /\ failures[r] = 0
       /\ stale[r] \/ aborted[r] => client[r] # "open"

Safe ==
    /\ Progress
    /\ NoOrphan
    /\ FailedIsFinal
    /\ BlockedIsHead
    /\ RetryWithinBuffer
    /\ AbortedIsStale

LEMMA InitSafe == Init => Safe
  <1> SUFFICES ASSUME Init PROVE Safe
    OBVIOUS
  <1>1. Pending = {}
    BY EmptyToSet DEF Init, Pending
  <1> QED
    BY <1>1 DEF Init, Safe, Progress, NoOrphan, FailedIsFinal, BlockedIsHead,
                RetryWithinBuffer, AbortedIsStale

\* A step that touches no response but the oldest request's, and lets that
\* request go only when its response is not usable any more.
HeadStep ==
    /\ UNCHANGED <<stale, aborted, stage, failures>>
    /\ \A r \in Requests :
          /\ client'[r] = client[r] \/ (client[r] = "open" /\ client'[r] = "done")
          /\ blocked'[r] => blocked[r] \/ (pending # <<>> /\ r = Head(pending))
    /\ \/ pending' = pending
       \/ /\ pending # <<>> /\ pending' = Tail(pending)
          /\ client'[Head(pending)] # "open"
    /\ RetryWithinBuffer'

LEMMA HeadStepSafe == ASSUME TypeOK, Safe, HeadStep PROVE Safe'
  <1>1. pending = <<>> => Pending = {}
    BY EmptyToSet DEF Pending
  <1>2. ASSUME pending # <<>>
        PROVE  /\ Head(pending) \in Requests /\ Head(pending) \in Pending
               /\ Pending = {Head(pending)} \cup ToSet(Tail(pending))
    BY <1>2, TailToSet DEF TypeOK, Pending
  <1>3. \/ Pending' = Pending
        \/ pending # <<>> /\ Pending' = ToSet(Tail(pending))
    BY DEF HeadStep, Pending
  <1>4. Pending' \subseteq Pending
    BY <1>2, <1>3
  <1>5. ASSUME NEW r \in Requests, client'[r] = "open"
        PROVE  client[r] = "open"
    BY <1>5 DEF HeadStep
  <1>6. Progress'
    BY <1>2, <1>4, <1>5 DEF Safe, Progress, HeadStep
  <1>7. NoOrphan'
    <2> SUFFICES ASSUME NEW r \in Requests, stage'[r] = "queued", client'[r] = "open"
                 PROVE  r \in Pending'
      BY DEF NoOrphan
    <2>1. r \in Pending
      BY <1>5 DEF Safe, NoOrphan, HeadStep
    <2>2. CASE pending' = pending
      BY <2>1, <2>2 DEF Pending
    <2>3. CASE /\ pending # <<>> /\ pending' = Tail(pending)
               /\ client'[Head(pending)] # "open"
      BY <1>2, <2>1, <2>3 DEF Pending
    <2> QED
      BY <2>2, <2>3 DEF HeadStep
  <1>8. FailedIsFinal'
    BY <1>4, <1>5 DEF Safe, FailedIsFinal, HeadStep
  <1>9. BlockedIsHead'
    <2> SUFFICES ASSUME NEW r \in Requests, client'[r] = "open", blocked'[r]
                 PROVE  pending' # <<>> /\ r = Head(pending')
      BY DEF BlockedIsHead
    <2>1. pending # <<>> /\ r = Head(pending)
      BY <1>5 DEF Safe, BlockedIsHead, HeadStep
    <2> QED
      BY <2>1 DEF HeadStep
  <1>10. AbortedIsStale'
    BY <1>4 DEF Safe, AbortedIsStale, HeadStep
  <1> QED
    BY <1>6, <1>7, <1>8, <1>9, <1>10 DEF Safe, HeadStep

-----------------------------------------------------------------------------
(***************************************************************************)
(* Every step keeps Safe.                                                  *)
(***************************************************************************)

\* What terminateRequest and end() leave of the oldest request.
LEMMA EndResponseHead ==
    ASSUME TypeOK, NEW r \in Requests
    PROVE  /\ EndResponse(r)[r] # "open"
           /\ \A q \in Requests :
                 EndResponse(r)[q] = client[q]
                    \/ (client[q] = "open" /\ EndResponse(r)[q] = "done")
  BY DEF TypeOK, EndResponse, Ended

\* While only the oldest request is affected, its own buffer is the only one
\* that RetryWithinBuffer speaks of.
LEMMA RetryHead ==
    ASSUME TypeOK, Safe,
           \A r \in Requests : client'[r] = "open" => client[r] = "open",
           \A r \in Requests :
              blocked'[r] => blocked[r] \/ (pending # <<>> /\ r = Head(pending)),
           pending # <<>> =>
              LET q == Head(pending)
              IN  client'[q] = "open" /\ blocked'[q] /\ writable'[q] = "retry"
                    => buffer'.offset <= Len(body'[q])
    PROVE  RetryWithinBuffer'
  BY DEF Safe, BlockedIsHead, RetryWithinBuffer

LEMMA SendStreamChunkSafe ==
    ASSUME TypeOK, Safe, UNCHANGED <<stale, aborted, stage, failures>>,
           pending # <<>>, NEW data \in Seq(Units), NEW last \in BOOLEAN,
           client[Head(pending)] = "open",
           SendStreamChunk(Head(pending), data, last)
    PROVE  Safe'
  <1> DEFINE q == Head(pending)
  <1>1. q \in Requests
    BY TailToSet DEF TypeOK
  <1>2. body[q] \in Seq(Units) /\ buffer.offset \in Nat
    BY <1>1 DEF TypeOK
  <1>3. Len(body[q] \o data) = Len(body[q]) + Len(data) /\ Len(data) \in Nat
    BY <1>2
  <1>4. body'[q] = body[q] \o data /\ buffer' = buffer
    BY <1>1 DEF TypeOK, SendStreamChunk
  <1>5. Len(body[q]) \in Nat /\ Len(body'[q]) >= Len(body[q])
    BY <1>2, <1>3, <1>4
  <1>6. CASE /\ IF last THEN TerminateRequest ELSE UNCHANGED queueVars
             /\ client' = IF last THEN EndResponse(q) ELSE client
             /\ UNCHANGED <<blocked, writable>>
    <2>1. buffer.offset <= Len(body[q])
             \/ ~(client[q] = "open" /\ blocked[q] /\ writable[q] = "retry")
      BY <1>1 DEF Safe, RetryWithinBuffer
    <2>2. \A r \in Requests :
             client'[r] = client[r] \/ (client[r] = "open" /\ client'[r] = "done")
      BY <1>1, <1>6, EndResponseHead
    <2>3. RetryWithinBuffer'
      BY <1>2, <1>4, <1>5, <1>6, <2>1, <2>2, RetryHead
    <2> QED
      BY <1>1, <1>6, <2>2, <2>3, EndResponseHead, HeadStepSafe
      DEF HeadStep, TerminateRequest, queueVars
  <1>7. CASE /\ blocked' = [blocked EXCEPT ![q] = TRUE]
             /\ writable' = [writable EXCEPT ![q] = IF last THEN "end" ELSE "resume"]
             /\ UNCHANGED <<pending, lock, client>>
    <2>1. writable'[q] # "retry"
      BY <1>1, <1>7 DEF TypeOK
    <2>2. \A r \in Requests : blocked'[r] => blocked[r] \/ r = q
      BY <1>7 DEF TypeOK
    <2>3. RetryWithinBuffer'
      BY <1>7, <2>1, <2>2, RetryHead
    <2> QED
      BY <1>7, <2>2, <2>3, HeadStepSafe DEF HeadStep
  <1> QED
    BY <1>6, <1>7 DEF SendStreamChunk

LEMMA SendChunkSafe ==
    ASSUME TypeOK, Safe, UNCHANGED <<stale, aborted, stage, failures>>,
           pending # <<>>, NEW data \in Seq(Units), NEW total \in Nat,
           SendChunk(Head(pending), data, total)
    PROVE  Safe'
  <1> DEFINE q == Head(pending)
  <1>1. q \in Requests
    BY TailToSet DEF TypeOK
  <1>2. PICK n \in Accepted(data) : SendChunk(q, data, total)!(n)
    BY DEF SendChunk
  <1>3. n \in 0 .. Len(data) /\ SubSeq(data, 1, n) \in Seq(Units)
    BY <1>2 DEF Accepted
  <1>4. body[q] \in Seq(Units) /\ buffer.offset \in Nat
    BY <1>1 DEF TypeOK
  <1>5. body'[q] = body[q] \o SubSeq(data, 1, n)
    BY <1>1, <1>2 DEF TypeOK
  <1>6. Len(body[q]) \in Nat /\ Len(body'[q]) \in Nat /\ Len(body'[q]) >= Len(body[q])
    <2>1. ASSUME NEW s \in Seq(Units), NEW t \in Seq(Units)
          PROVE  Len(s) \in Nat /\ Len(s \o t) \in Nat /\ Len(s \o t) >= Len(s)
      OBVIOUS
    <2> QED
      BY <1>3, <1>4, <1>5, <2>1
  <1>7. buffer.offset <= Len(body[q])
           \/ ~(client[q] = "open" /\ blocked[q] /\ writable[q] = "retry")
    BY <1>1 DEF Safe, RetryWithinBuffer
  <1>8. CASE Len(body[q]) + n = total
    <2>1. TerminateRequest /\ client' = EndResponse(q) /\ UNCHANGED <<blocked, buffer, writable>>
      BY <1>2, <1>8
    <2>2. client'[q] # "open"
      BY <1>1, <2>1, EndResponseHead
    <2>3. \A r \in Requests :
             client'[r] = client[r] \/ (client[r] = "open" /\ client'[r] = "done")
      BY <1>1, <2>1, EndResponseHead
    <2>4. RetryWithinBuffer'
      BY <2>1, <2>2, <2>3, RetryHead
    <2> QED
      BY <2>1, <2>2, <2>3, <2>4, HeadStepSafe DEF HeadStep, TerminateRequest
  <1>9. CASE Len(body[q]) + n # total
    <2> DEFINE ok == n = Len(data)
    <2>1. /\ blocked' = [blocked EXCEPT ![q] = @ \/ ~ok]
          /\ buffer' = IF ok THEN buffer
                       ELSE [data |-> data, offset |-> Len(body[q]), total |-> total]
          /\ UNCHANGED <<pending, lock, client, writable>>
      BY <1>2, <1>9
    <2>2. \A r \in Requests : blocked'[r] => blocked[r] \/ r = q
      BY <2>1 DEF TypeOK
    <2>3. CASE ok
      <3>1. blocked'[q] = blocked[q] /\ buffer' = buffer
        BY <1>1, <2>1, <2>3 DEF TypeOK
      <3>2. RetryWithinBuffer'
        BY <1>4, <1>6, <1>7, <2>1, <2>2, <3>1, RetryHead
      <3> QED
        BY <2>1, <2>2, <3>2, HeadStepSafe DEF HeadStep
    <2>4. CASE ~ok
      <3>1. buffer'.offset = Len(body[q])
        BY <2>1, <2>4
      <3>2. RetryWithinBuffer'
        BY <1>6, <2>1, <2>2, <3>1, RetryHead
      <3> QED
        BY <2>1, <2>2, <3>2, HeadStepSafe DEF HeadStep
    <2> QED
      BY <2>3, <2>4
  <1> QED
    BY <1>8, <1>9

LEMMA DeliverSafe ==
    ASSUME TypeOK, Safe, UNCHANGED <<stage, failures>>,
           NEW data \in Seq(Units), NEW last \in BOOLEAN, Deliver(data, last)
    PROVE  Safe'
  <1> DEFINE q == Head(pending)
  <1>1. UNCHANGED <<stale, aborted>>
    BY DEF Deliver
  <1>2. ASSUME pending # <<>> PROVE q \in Requests
    BY <1>2, TailToSet DEF TypeOK
  <1>3. CASE UNCHANGED <<queueVars, client, body, blocked, writable, buffer>>
    BY <1>1, <1>3, HeadStepSafe DEF Safe, HeadStep, RetryWithinBuffer, queueVars
  <1>4. CASE pending # <<>> /\ IgnoreChunk(q, last)
    <2>1. client[q] # "open"
      BY <1>2, <1>4 DEF Safe, Progress, IgnoreChunk
    <2>2. /\ UNCHANGED <<client, body, blocked, writable, buffer>>
          /\ pending' = pending \/ pending' = Tail(pending)
      BY <1>4 DEF IgnoreChunk, TerminateRequest, queueVars
    <2>3. RetryWithinBuffer'
      BY <2>2 DEF Safe, RetryWithinBuffer
    <2> QED
      BY <1>1, <1>4, <2>1, <2>2, <2>3, HeadStepSafe DEF HeadStep
  <1>5. CASE pending # <<>> /\ client[q] = "open" /\ SendStreamChunk(q, data, last)
    BY <1>1, <1>5, SendStreamChunkSafe
  <1>6. CASE pending # <<>> /\ SendChunk(q, data, contentLength[q])
    BY <1>1, <1>2, <1>6, SendChunkSafe DEF TypeOK
  <1> QED
    BY <1>3, <1>4, <1>5, <1>6 DEF Deliver

\* Closing the pipeline ends every usable response in it.
LEMMA CloseAllSafe == ASSUME TypeOK, Safe, CloseAll, UNCHANGED stage PROVE Safe'
  <1> DEFINE failed == {r \in Pending : ~stale[r]}
  <1>1. Pending' = {}
    BY EmptyToSet DEF CloseAll, Pending
  <1>2. UNCHANGED <<stale, aborted, blocked, writable, buffer, body>>
    BY DEF CloseAll, responseVars
  <1>3. \A r \in Requests :
           /\ client'[r] = IF r \in failed THEN Ended(client[r]) ELSE client[r]
           /\ failures'[r] = failures[r] + IF r \in failed THEN 1 ELSE 0
    BY DEF CloseAll
  <1>4. \A r \in Requests :
           /\ client'[r] = "open" => client[r] = "open" /\ r \notin Pending
           /\ client[r] = "none" => client'[r] = "none"
    BY <1>3 DEF Ended, Safe, Progress
  <1>5. \A r \in Requests :
           /\ r \notin Pending => failures'[r] = failures[r]
           /\ r \in Pending => failures[r] = 0 /\ failures'[r] \in {0, 1}
    <2> SUFFICES ASSUME NEW r \in Requests
                 PROVE  /\ r \notin Pending => failures'[r] = failures[r]
                        /\ r \in Pending => failures[r] = 0 /\ failures'[r] \in {0, 1}
      OBVIOUS
    <2>1. failures[r] \in Nat /\ (r \in Pending => failures[r] = 0)
      <3>1. failures[r] \in Nat
        BY DEF TypeOK
      <3>2. failures[r] <= 1 /\ (failures[r] = 1 => r \notin Pending)
        BY DEF Safe, FailedIsFinal
      <3> QED
        BY <3>1, <3>2
    <2>2. r \in failed => failures'[r] = failures[r] + 1
      BY <1>3
    <2>3. r \notin failed => failures'[r] = failures[r]
      BY <1>3, <2>1
    <2> QED
      BY <2>1, <2>2, <2>3
  <1>6. Progress'
    BY <1>1, <1>2, <1>4, <1>5 DEF Safe, Progress
  <1>7. NoOrphan'
    BY <1>4 DEF Safe, NoOrphan
  <1>8. FailedIsFinal'
    BY <1>1, <1>4, <1>5 DEF Safe, FailedIsFinal, NoOrphan
  <1>9. \A r \in Requests : ~(client'[r] = "open" /\ blocked'[r])
    <2> SUFFICES ASSUME NEW r \in Requests, client[r] = "open", r \notin Pending, blocked[r]
                 PROVE  FALSE
      BY <1>2, <1>4
    <2>1. pending # <<>> /\ r = Head(pending)
      BY DEF Safe, BlockedIsHead
    <2> QED
      BY <2>1, TailToSet DEF TypeOK, Pending
  <1>10. BlockedIsHead' /\ RetryWithinBuffer'
    BY <1>9 DEF BlockedIsHead, RetryWithinBuffer
  <1>11. AbortedIsStale'
    BY <1>1 DEF AbortedIsStale
  <1> QED
    BY <1>6, <1>7, <1>8, <1>10, <1>11 DEF Safe

LEMMA PendingType == TypeOK => Pending \subseteq Requests
  BY DEF TypeOK, Pending, ToSet

LEMMA RequestSafe ==
    ASSUME TypeOK, Safe, NEW r \in Requests,
           HandleRequest(r) \/ ScheduleSend(r) \/ Abort(r)
    PROVE  Safe'
  <1>1. CASE HandleRequest(r)
    <2>1. Pending' = Pending
      BY <1>1 DEF HandleRequest, Pending, queueVars
    <2>2. /\ stage[r] = "new" /\ stage' = [stage EXCEPT ![r] = "connecting"]
          /\ client' = [client EXCEPT ![r] = "open"]
          /\ UNCHANGED <<pending, stale, aborted, blocked, writable, buffer, body, failures>>
      BY <1>1 DEF HandleRequest, queueVars, responseVars
    <2>3. /\ client'[r] = "open" /\ stage'[r] = "connecting"
          /\ \A q \in Requests \ {r} : client'[q] = client[q] /\ stage'[q] = stage[q]
      BY <2>2 DEF TypeOK
    <2>4. /\ r \notin Pending /\ failures[r] = 0
          /\ ~stale[r] /\ ~aborted[r] /\ ~blocked[r]
      BY <2>2 DEF Safe, Progress
    <2>5. Progress'
      BY <2>1, <2>2, <2>3, <2>4 DEF Safe, Progress
    <2>6. NoOrphan' /\ FailedIsFinal'
      BY <2>1, <2>2, <2>3, <2>4 DEF Safe, NoOrphan, FailedIsFinal
    <2>7. BlockedIsHead' /\ RetryWithinBuffer'
      BY <2>2, <2>3, <2>4 DEF Safe, BlockedIsHead, RetryWithinBuffer
    <2>8. AbortedIsStale'
      BY <2>1, <2>2 DEF Safe, AbortedIsStale
    <2> QED
      BY <2>5, <2>6, <2>7, <2>8 DEF Safe
  <1>2. CASE ScheduleSend(r) /\ Refuse(r)
    <2>1. Pending' = Pending /\ UNCHANGED <<pending, stale, aborted, blocked, writable, buffer, body>>
      BY <1>2 DEF ScheduleSend, Refuse, Pending, queueVars, responseVars
    <2>2. /\ stage[r] = "connecting" /\ failures[r] = 0 /\ r \notin Pending
          /\ stage' = [stage EXCEPT ![r] = "refused"]
          /\ failures' = [failures EXCEPT ![r] = @ + 1]
          /\ client' = EndResponse(r)
      BY <1>2 DEF ScheduleSend, Refuse, Safe, Progress
    <2>3. client'[r] # "open" /\ \A q \in Requests \ {r} : client'[q] = client[q]
      <3>1. client \in [Requests -> {"none", "open", "done", "aborted"}]
        BY DEF TypeOK
      <3>2. client' = [client EXCEPT ![r] = Ended(@)]
        BY <2>2 DEF EndResponse
      <3> QED
        BY <3>1, <3>2 DEF Ended
    <2>4. \A q \in Requests \ {r} : stage'[q] = stage[q] /\ failures'[q] = failures[q]
      BY <2>2 DEF TypeOK
    <2>5. stage'[r] = "refused" /\ failures'[r] = 1
      BY <2>2 DEF TypeOK
    <2> QED
      BY <2>1, <2>2, <2>3, <2>4, <2>5
      DEF Safe, Progress, NoOrphan, FailedIsFinal, BlockedIsHead, RetryWithinBuffer,
          AbortedIsStale
  <1>3. CASE ScheduleSend(r) /\ Enqueue(r)
    <2>1. /\ stage[r] = "connecting" /\ failures[r] = 0
          /\ stage' = [stage EXCEPT ![r] = "queued"]
          /\ stale' = [stale EXCEPT ![r] = aborted[r]]
          /\ UNCHANGED <<failures, client, aborted, blocked, writable, buffer, body>>
      BY <1>3 DEF ScheduleSend, Enqueue, Safe, Progress, responseVars
    <2>2. pending' = Append(pending, r)
      BY <1>3 DEF Enqueue
    <2>3. Pending' = Pending \cup {r}
      BY <2>2, AppendToSet DEF TypeOK, Pending
    <2>4. ASSUME pending # <<>> PROVE pending' # <<>> /\ Head(pending') = Head(pending)
      <3>1. pending \in Seq(Requests) /\ Len(pending) > 0
        BY <2>4 DEF TypeOK
      <3>2. Len(pending') = Len(pending) + 1 /\ pending'[1] = pending[1]
        BY <2>2, <3>1
      <3> QED
        BY <2>2, <3>1, <3>2
    <2>5. Progress'
      BY <2>1, <2>3 DEF TypeOK, Safe, Progress
    <2>6. NoOrphan' /\ FailedIsFinal'
      BY <2>1, <2>3 DEF TypeOK, Safe, NoOrphan, FailedIsFinal
    <2>7. BlockedIsHead' /\ RetryWithinBuffer'
      BY <2>1, <2>4 DEF Safe, BlockedIsHead, RetryWithinBuffer
    <2>8. AbortedIsStale'
      <3>1. /\ stale \in [Requests -> BOOLEAN] /\ stale'[r] = aborted[r]
            /\ \A q \in Requests \ {r} : stale'[q] = stale[q]
        BY <2>1 DEF TypeOK
      <3>2. Pending \subseteq Requests
        BY PendingType
      <3> QED
        BY <2>1, <2>3, <3>1, <3>2 DEF Safe, AbortedIsStale
    <2> QED
      BY <2>5, <2>6, <2>7, <2>8 DEF Safe
  <1>4. CASE Abort(r)
    <2>1. /\ Pending' = Pending
          /\ UNCHANGED <<pending, blocked, writable, buffer, body, stage, failures>>
      BY <1>4 DEF Abort, Pending, requestVars
    <2>2. stage[r] # "new" /\ client'[r] = "aborted"
      BY <1>4 DEF TypeOK, Abort
    <2>3. \A q \in Requests \ {r} : /\ client'[q] = client[q]
                                    /\ stale'[q] = stale[q] /\ aborted'[q] = aborted[q]
      BY <1>4 DEF TypeOK, Abort
    <2>4. Progress'
      BY <2>1, <2>2, <2>3 DEF Safe, Progress
    <2>5. NoOrphan' /\ FailedIsFinal'
      BY <2>1, <2>2, <2>3 DEF Safe, NoOrphan, FailedIsFinal
    <2>6. BlockedIsHead' /\ RetryWithinBuffer'
      BY <2>1, <2>2, <2>3 DEF Safe, BlockedIsHead, RetryWithinBuffer
    <2>7. AbortedIsStale'
      <3>1. ASSUME NEW q \in Pending, q # r, aborted'[q], q \in Requests PROVE stale'[q]
        BY <2>3, <3>1 DEF Safe, AbortedIsStale
      <3>2. CASE stage[r] = "connecting"
        <4>1. r \notin Pending
          BY <3>2 DEF Safe, Progress
        <4> QED
          BY <2>1, <3>1, <4>1, PendingType DEF AbortedIsStale
      <3>3. CASE stale' = [stale EXCEPT ![r] = TRUE]
        BY <2>1, <3>1, <3>3, PendingType DEF TypeOK, AbortedIsStale
      <3> QED
        BY <1>4, <3>2, <3>3 DEF Abort
    <2> QED
      BY <2>4, <2>5, <2>6, <2>7 DEF Safe
  <1> QED
    BY <1>1, <1>2, <1>3, <1>4 DEF ScheduleSend

LEMMA OnWritableSafe ==
    ASSUME TypeOK, Safe, NEW r \in Requests, OnWritable(r)
    PROVE  Safe'
  <1>1. /\ client[r] = "open" /\ blocked[r]
        /\ UNCHANGED <<stale, aborted, writable, stage, failures>>
    BY DEF OnWritable, requestVars
  <1>2. pending # <<>> /\ r = Head(pending)
    BY <1>1 DEF Safe, BlockedIsHead
  <1>3. \A q \in Requests \ {r} : blocked'[q] = blocked[q]
    BY DEF TypeOK, OnWritable, RetryBuffer
  <1>4. CASE ~blocked'[r] /\ UNCHANGED <<pending, client>>
    BY <1>1, <1>2, <1>3, <1>4, RetryHead, HeadStepSafe DEF HeadStep
  <1>5. CASE /\ client' = EndResponse(r) /\ (pending' = pending \/ pending' = Tail(pending))
    <2>1. client'[r] # "open"
      BY <1>5, EndResponseHead
    <2>2. \A q \in Requests :
             client'[q] = client[q] \/ (client[q] = "open" /\ client'[q] = "done")
      BY <1>5, EndResponseHead
    <2>3. RetryWithinBuffer'
      BY <1>2, <1>3, <2>1, <2>2, RetryHead
    <2> QED
      BY <1>1, <1>2, <1>3, <1>5, <2>1, <2>2, <2>3, HeadStepSafe DEF HeadStep
  <1>6. CASE writable[r] = "retry" /\ RetryBuffer(r) /\ buffer = NoBuffer
    BY <1>4, <1>6 DEF TypeOK, RetryBuffer, queueVars
  <1>7. CASE writable[r] = "retry" /\ RetryBuffer(r) /\ buffer # NoBuffer
    <2> DEFINE k == Len(body[r]) - buffer.offset + 1
               rest == SubSeq(buffer.data, k, Len(buffer.data))
    <2>1. PICK n \in Accepted(rest) :
             /\ body' = [body EXCEPT ![r] = @ \o SubSeq(rest, 1, n)]
             /\ client' = IF Len(body[r]) + n = buffer.total
                          THEN EndResponse(r) ELSE client
             /\ buffer' = IF n = Len(rest) THEN NoBuffer ELSE buffer
             /\ blocked' = [blocked EXCEPT ![r] = ~(n = Len(rest))]
             /\ UNCHANGED <<pending, lock>>
      BY <1>7 DEF RetryBuffer
    <2>2. CASE client' = EndResponse(r)
      BY <1>5, <2>1, <2>2
    <2>3. CASE client' = client /\ n = Len(rest)
      <3>1. ~blocked'[r]
        BY <2>1, <2>3 DEF TypeOK
      <3> QED
        BY <1>4, <2>1, <2>3, <3>1
    <2>4. CASE client' = client /\ n # Len(rest)
      <3>1. buffer.data \in Seq(Units) /\ buffer.offset \in Nat /\ body[r] \in Seq(Units)
        BY DEF TypeOK
      <3>2. buffer.offset <= Len(body[r])
        BY <1>1, <1>7 DEF Safe, RetryWithinBuffer
      <3>3. k \in Nat \ {0}
        BY <3>1, <3>2
      <3> HIDE DEF k
      <3>4. rest \in Seq(Units)
        BY <3>1, <3>3
      <3> HIDE DEF rest
      <3>5. SubSeq(rest, 1, n) \in Seq(Units)
        BY <2>1, <3>4 DEF Accepted
      <3>6. ASSUME NEW s \in Seq(Units), NEW t \in Seq(Units)
            PROVE  Len(s) \in Nat /\ Len(s \o t) \in Nat /\ Len(s \o t) >= Len(s)
        OBVIOUS
      <3>7. Len(body[r]) \in Nat /\ Len(body'[r]) \in Nat /\ Len(body'[r]) >= Len(body[r])
        BY <2>1, <3>1, <3>5, <3>6 DEF TypeOK
      <3>8. buffer' = buffer
        BY <2>1, <2>4
      <3>9. RetryWithinBuffer'
        BY <1>2, <1>3, <2>4, <3>1, <3>2, <3>7, <3>8, RetryHead
      <3> QED
        BY <1>1, <1>2, <1>3, <2>1, <2>4, <3>9, HeadStepSafe DEF HeadStep
    <2> QED
      BY <2>1, <2>2, <2>3, <2>4
  <1>8. CASE writable[r] = "resume"
    BY <1>4, <1>8 DEF TypeOK, OnWritable
  <1>9. CASE writable[r] = "end"
    BY <1>2, <1>5, <1>9 DEF OnWritable
  <1> QED
    BY <1>6, <1>7, <1>8, <1>9 DEF TypeOK, OnWritable

LEMMA HeadersSafe ==
    ASSUME TypeOK, Safe, NEW mode, NEW size, Headers(mode, size)
    PROVE  Safe'
  <1>1. UNCHANGED <<stale, aborted, body, blocked, writable, buffer, stage, failures>>
    BY DEF Headers, requestVars
  <1>2. CASE UNCHANGED <<heads, contentLength, client, queueVars>>
    BY <1>1, <1>2, HeadStepSafe DEF Safe, RetryWithinBuffer, HeadStep, queueVars
  <1>3. CASE pending # <<>> /\ GiveHeaders(Head(pending), mode, size)
    <2> DEFINE q == Head(pending)
    <2>1. q \in Requests
      BY <1>3, TailToSet DEF TypeOK
    <2>2. CASE client' = EndResponse(q) /\ TerminateRequest
      <3>1. /\ client'[q] # "open"
            /\ \A r \in Requests :
                  client'[r] = client[r] \/ (client[r] = "open" /\ client'[r] = "done")
        BY <2>1, <2>2, EndResponseHead
      <3>2. RetryWithinBuffer'
        BY <1>1, <3>1, RetryHead
      <3> QED
        BY <1>1, <1>3, <2>2, <3>1, <3>2, HeadStepSafe DEF HeadStep, TerminateRequest
    <2>3. CASE UNCHANGED <<client, pending, paused>>
      BY <1>1, <2>3, HeadStepSafe DEF Safe, RetryWithinBuffer, HeadStep
    <2> QED
      BY <1>3, <2>2, <2>3 DEF GiveHeaders
  <1> QED
    BY <1>2, <1>3 DEF Headers

LEMMA BodyChunkSafe ==
    ASSUME TypeOK, Safe, NEW n \in 0 .. MaxBody, NEW last \in BOOLEAN, BodyChunk(n, last)
    PROVE  Safe'
  <1>1. n \in Nat /\ rx.read \in Nat /\ Head(wire) \in Requests
    BY PipelineAssumption, TailToSet DEF PipelineAssumption, TypeOK, Readings, BodyChunk
  <1> DEFINE data == [i \in 1 .. n |-> <<Head(wire), rx.read + i>>]
  <1>2. data \in Seq(Units)
    BY <1>1 DEF Units
  <1>3. Push(data, last) /\ UNCHANGED <<stage, failures>>
    BY DEF BodyChunk, requestVars
  <1> HIDE DEF data
  <1>4. CASE Deliver(data, last)
    BY <1>2, <1>3, <1>4, DeliverSafe
  <1>5. CASE UNCHANGED <<queueVars, stale, contentLength, buffer, client, responseVars>>
    BY <1>3, <1>5, HeadStepSafe
    DEF Safe, RetryWithinBuffer, HeadStep, queueVars, responseVars
  <1> QED
    BY <1>3, <1>4, <1>5 DEF Push

LEMMA ConnectionSafe ==
    ASSUME TypeOK, Safe, Send \/ Flow \/ ParserError \/ EndSocket \/ SocketClosed
    PROVE  Safe'
  <1>1. CASE CloseAll /\ UNCHANGED stage
    BY <1>1, CloseAllSafe
  <1>2. CASE UNCHANGED <<queueVars, stale, client, aborted, buffer, responseVars,
                         stage, failures>>
    BY <1>2, HeadStepSafe DEF Safe, RetryWithinBuffer, HeadStep, queueVars, responseVars
  <1>3. CASE Flow
    <2>1. Head(stream) \in Chunks
      BY <1>3, TailToSet DEF TypeOK, Flow, Draining
    <2>2. Head(stream).data \in Seq(Units) /\ Head(stream).last \in BOOLEAN
      BY <2>1 DEF Chunks
    <2> QED
      BY <1>3, <2>2, DeliverSafe DEF Flow, requestVars
  <1>4. CASE Send \/ ParserError \/ EndSocket \/ SocketClosed
    BY <1>1, <1>2, <1>4 DEF Send, ParserError, EndSocket, SocketClosed, responseVars, requestVars
  <1> QED
    BY <1>3, <1>4

LEMMA NextSafe == ASSUME TypeOK, Safe, [Next]_vars PROVE Safe'
  <1>1. ASSUME UNCHANGED vars PROVE Safe'
    BY <1>1, HeadStepSafe
    DEF vars, Safe, RetryWithinBuffer, HeadStep, queueVars, responseVars, requestVars
  <1> QED
    BY <1>1, NextActions, RequestSafe, OnWritableSafe, ConnectionSafe, HeadersSafe,
       BodyChunkSafe

-----------------------------------------------------------------------------
(***************************************************************************)
(* The first theorems.                                                     *)
(***************************************************************************)
Invariant == TypeOK /\ Safe

\* The inductive invariant holds initially and is kept by every step.
THEOREM InductiveInvariant == Spec => []Invariant
  <1>1. Init => Invariant
    BY InitType, InitSafe DEF Invariant
  <1>2. Invariant /\ [Next]_vars => Invariant'
    <2> SUFFICES ASSUME TypeOK, Safe, [Next]_vars PROVE TypeOK' /\ Safe'
      BY DEF Invariant
    <2>1. TypeOK'
      BY NextType DEF Safe
    <2> QED
      BY <2>1, NextSafe
  <1> QED
    BY <1>1, <1>2, PTL DEF Spec

\* Every variable keeps its type and the pipeline its limit, whatever the
\* clients, the server and the two sockets do.
THEOREM TypeCorrectness == Spec => []TypeOK
  <1>1. Invariant => TypeOK
    BY DEF Invariant
  <1> QED
    BY <1>1, InductiveInvariant, PTL

\* No request is lost by the pipeline: one that was scheduled and whose client
\* still waits is queued, so that a response, an error or the closing of the
\* connection will reach it.
THEOREM NoRequestIsOrphaned == Spec => []NoOrphan
  <1>1. Invariant => NoOrphan
    BY DEF Invariant, Safe
  <1> QED
    BY <1>1, InductiveInvariant, PTL

\* The error callback of a request is called at most once, and nothing more
\* happens to the request then.
THEOREM ErrorsAreFinal == Spec => []FailedIsFinal
  <1>1. Invariant => FailedIsFinal
    BY DEF Invariant, Safe
  <1> QED
    BY <1>1, InductiveInvariant, PTL

\* Only the oldest request is ever under backpressure.
THEOREM BackpressureIsAtHead == Spec => []BlockedIsHead
  <1>1. Invariant => BlockedIsHead
    BY DEF Invariant, Safe
  <1> QED
    BY <1>1, InductiveInvariant, PTL

\* A request in the pipeline whose client has left is marked stale, wherever on
\* its way to the pipeline the client left it.
THEOREM AbortsAreMarked == Spec => []AbortedIsStale
  <1>1. Invariant => AbortedIsStale
    BY DEF Invariant, Safe
  <1> QED
    BY <1>1, InductiveInvariant, PTL

\* A retry of the pending buffer never reaches before its start.
THEOREM RetryStaysInBuffer == Spec => []RetryWithinBuffer
  <1>1. Invariant => RetryWithinBuffer
    BY DEF Invariant, Safe
  <1> QED
    BY <1>1, InductiveInvariant, PTL


-----------------------------------------------------------------------------
(***************************************************************************)
(* No unit of a response body is sent twice: data may be lost or go to the *)
(* wrong client, and is never repeated.  The invariant: a unit of data is  *)
(* in one place only, a body that was sent, the stream, or the part of the *)
(* pending buffer that is still to be sent; and whatever is in one of them *)
(* has been read by the parser, so that what the parser reads next is in   *)
(* none of them.                                                           *)
(***************************************************************************)

\* u is an element of s.
Of(s, u) == \E i \in 1 .. Len(s) : s[i] = u

\* Who is to be answered: what the server has received, then what is to be sent.
Unread == wire \o immediates

Line ==
    /\ Distinct(Unread)
    /\ \A r \in ToSet(Unread) : stage[r] = "queued"
    /\ socket = "closed" => wire = <<>>

\* The parser has read u.
Emitted(u) ==
    /\ u \in Units /\ u[2] > 0 /\ stage[u[1]] = "queued"
    /\ u[1] \in ToSet(Unread) => wire # <<>> /\ u[1] = Head(wire) /\ u[2] <= rx.read

\* The handler that retries the pending buffer is the one of r.
Retries(r) == client[r] = "open" /\ blocked[r] /\ writable[r] = "retry"

\* Where the data of the pending buffer is that r is still to be sent.
RestAt(r) == {k \in 1 .. Len(buffer.data) : Retries(r) /\ k > Len(body[r]) - buffer.offset}

Sent(u) == \E r \in Requests : Of(body[r], u)
Kept(u) == \E r \in Requests : \E k \in RestAt(r) : buffer.data[k] = u
Waits(u) == \E k \in 1 .. Len(stream) : Of(stream[k].data, u)

\* The bodies that were sent and what is left of the pending buffer.
Given ==
    /\ \A r, q \in Requests : \A i \in 1 .. Len(body[r]), j \in 1 .. Len(body[q]) :
          body[r][i] = body[q][j] => r = q /\ i = j
    /\ \A r \in Requests : \A k, l \in RestAt(r) : buffer.data[k] = buffer.data[l] => k = l
    /\ \A r \in Requests : \A k \in RestAt(r) : ~Sent(buffer.data[k])

\* The chunks in the stream.
Streamed ==
    /\ \A k \in 1 .. Len(stream) : Distinct(stream[k].data)
    /\ \A k, l \in 1 .. Len(stream) :
          k # l => \A i \in 1 .. Len(stream[k].data) : ~Of(stream[l].data, stream[k].data[i])
    /\ \A k \in 1 .. Len(stream) : \A i \in 1 .. Len(stream[k].data) :
          ~Sent(stream[k].data[i]) /\ ~Kept(stream[k].data[i])

AllEmitted == \A u : Sent(u) \/ Kept(u) \/ Waits(u) => Emitted(u)

Apart == Line /\ Given /\ Streamed /\ AllEmitted

UnitsInvariant == Invariant /\ Apart

LEMMA InitApart == Init => Apart
  <1> SUFFICES ASSUME Init PROVE Apart
    OBVIOUS
  <1>1. wire = <<>> /\ immediates = <<>> /\ stream = <<>> /\ socket = "open"
        /\ \A r \in Requests : body[r] = <<>> /\ client[r] = "none"
    BY DEF Init
  <1>2. Unread = <<>>
    BY <1>1 DEF Unread
  <1>3. Line
    BY <1>1, <1>2, EmptyDistinct, EmptyToSet DEF Line
  <1>4. \A r \in Requests : RestAt(r) = {}
    BY <1>1 DEF RestAt, Retries
  <1>5. Given
    BY <1>1, <1>4 DEF Given
  <1>6. Streamed
    BY <1>1 DEF Streamed
  <1>7. AllEmitted
    BY <1>1, <1>4 DEF AllEmitted, Sent, Kept, Waits, Of
  <1> QED
    BY <1>3, <1>5, <1>6, <1>7 DEF Apart

-----------------------------------------------------------------------------
(***************************************************************************)
(* Data given to a response.                                               *)
(***************************************************************************)

\* Data that is nowhere in the bodies can be added to one of them, if what is
\* then left of the pending buffer is neither in the bodies nor in that data.
LEMMA GiveUnits ==
    ASSUME TypeOK, Given, NEW r \in Requests, NEW s \in Seq(Units), Distinct(s),
           \A i \in 1 .. Len(s) : ~Sent(s[i]),
           body' = [body EXCEPT ![r] = @ \o s],
           \A q \in Requests : \A k, l \in RestAt(q)' :
              buffer'.data[k] = buffer'.data[l] => k = l,
           \A q \in Requests : \A k \in RestAt(q)' :
              ~Sent(buffer'.data[k]) /\ ~Of(s, buffer'.data[k])
    PROVE  Given' /\ \A u : Sent(u)' => Sent(u) \/ Of(s, u)
  <1>1. body \in [Requests -> Seq(Units)]
    BY DEF TypeOK
  <1>2. /\ body'[r] = body[r] \o s
        /\ \A q \in Requests \ {r} : body'[q] = body[q]
    BY <1>1
  <1>3. /\ Len(body'[r]) = Len(body[r]) + Len(s)
        /\ Len(body[r]) \in Nat /\ Len(s) \in Nat
        /\ \A i \in 1 .. Len(body[r]) : body'[r][i] = body[r][i]
        /\ \A i \in 1 .. Len(s) : body'[r][Len(body[r]) + i] = s[i]
    BY <1>1, <1>2, ConcatParts
  <1>4. ASSUME NEW i \in 1 .. Len(body'[r])
        PROVE  \/ i \in 1 .. Len(body[r]) /\ body'[r][i] = body[r][i]
               \/ i - Len(body[r]) \in 1 .. Len(s) /\ body'[r][i] = s[i - Len(body[r])]
    <2>1. CASE i <= Len(body[r])
      BY <1>3, <2>1
    <2>2. CASE i > Len(body[r])
      <3>1. /\ i - Len(body[r]) \in 1 .. Len(s)
            /\ Len(body[r]) + (i - Len(body[r])) = i
        BY <1>3, <2>2
      <3> QED
        BY <1>3, <3>1
    <2> QED
      BY <1>3, <2>1, <2>2
  <1>5. ASSUME NEW u, Sent(u)' PROVE Sent(u) \/ Of(s, u)
    <2>1. PICK q \in Requests : Of(body[q], u)'
      BY <1>5 DEF Sent
    <2>2. CASE q = r
      BY <1>4, <2>1, <2>2 DEF Sent, Of
    <2>3. CASE q # r
      BY <1>2, <2>1, <2>3 DEF Sent, Of
    <2> QED
      BY <2>2, <2>3
  <1>6. ASSUME NEW p \in Requests, NEW q \in Requests,
               NEW i \in 1 .. Len(body'[p]), NEW j \in 1 .. Len(body'[q]),
               body'[p][i] = body'[q][j]
        PROVE  p = q /\ i = j
    <2>1. ASSUME NEW x \in Requests, NEW k \in 1 .. Len(body[x]) PROVE Sent(body[x][k])
      BY DEF Sent, Of
    <2>2. CASE p # r /\ q # r
      BY <1>2, <1>6, <2>2 DEF Given
    <2>3. CASE p = r /\ q # r
      BY <1>2, <1>4, <1>6, <2>1, <2>3 DEF Given
    <2>4. CASE p # r /\ q = r
      BY <1>2, <1>4, <1>6, <2>1, <2>4 DEF Given
    <2>5. CASE p = r /\ q = r
      <3>1. CASE i \in 1 .. Len(body[r]) /\ body'[r][i] = body[r][i]
        BY <1>4, <1>6, <2>1, <2>5, <3>1 DEF Given
      <3>2. CASE i - Len(body[r]) \in 1 .. Len(s) /\ body'[r][i] = s[i - Len(body[r])]
        <4>1. CASE j \in 1 .. Len(body[r]) /\ body'[r][j] = body[r][j]
          BY <1>6, <2>1, <2>5, <3>2, <4>1
        <4>2. CASE j - Len(body[r]) \in 1 .. Len(s) /\ body'[r][j] = s[j - Len(body[r])]
          <5>1. i - Len(body[r]) = j - Len(body[r])
            BY <1>6, <2>5, <3>2, <4>2 DEF Distinct
          <5> QED
            BY <1>3, <2>5, <5>1
        <4> QED
          BY <1>4, <2>5, <4>1, <4>2
      <3> QED
        BY <1>4, <2>5, <3>1, <3>2
    <2> QED
      BY <2>2, <2>3, <2>4, <2>5
  <1>7. ASSUME NEW q \in Requests, NEW k \in RestAt(q)' PROVE ~Sent(buffer.data[k])'
    BY <1>5
  <1> QED
    BY <1>5, <1>6, <1>7 DEF Given

\* What is left of the pending buffer gets less while the buffer stays.
LEMMA RestShrinks ==
    ASSUME TypeOK, NEW q \in Requests, buffer' = buffer, Retries(q)' => Retries(q),
           Len(body[q]) <= Len(body'[q]), Len(body'[q]) \in Nat
    PROVE  RestAt(q)' \subseteq RestAt(q)
  <1>1. Len(body[q]) \in Nat /\ buffer.offset \in Nat
    BY DEF TypeOK
  <1> QED
    BY <1>1 DEF RestAt

\* Nothing is given, and no more is left of the pending buffer than before.
LEMMA KeepUnits ==
    ASSUME TypeOK, Given, body' = body, buffer' = buffer,
           \A q \in Requests : Retries(q)' => Retries(q)
    PROVE  Given' /\ \A u : Sent(u)' \/ Kept(u)' => Sent(u) \/ Kept(u)
  <1>1. \A q \in Requests : Len(body[q]) \in Nat
    BY DEF TypeOK
  <1>2. \A q \in Requests : RestAt(q)' \subseteq RestAt(q)
    BY <1>1, RestShrinks
  <1>3. \A u : Sent(u)' <=> Sent(u)
    BY DEF Sent
  <1>4. \A u : Kept(u)' => Kept(u)
    BY <1>2 DEF Kept
  <1> QED
    BY <1>2, <1>3, <1>4 DEF Given

\* Data is given to r and the pending buffer stays.
LEMMA GiveFromElsewhere ==
    ASSUME TypeOK, Given, NEW r \in Requests, NEW s \in Seq(Units), Distinct(s),
           \A i \in 1 .. Len(s) : ~Sent(s[i]) /\ ~Kept(s[i]),
           body' = [body EXCEPT ![r] = @ \o s], buffer' = buffer,
           \A q \in Requests : Retries(q)' => Retries(q)
    PROVE  Given' /\ \A u : Sent(u)' \/ Kept(u)' => Sent(u) \/ Kept(u) \/ Of(s, u)
  <1>1. body \in [Requests -> Seq(Units)]
    BY DEF TypeOK
  <1>2. \A q \in Requests :
           /\ Len(body[q]) \in Nat /\ Len(body'[q]) \in Nat
           /\ Len(body[q]) <= Len(body'[q])
    <2>1. Len(body[r] \o s) = Len(body[r]) + Len(s) /\ Len(body[r]) \in Nat /\ Len(s) \in Nat
      BY <1>1, ConcatParts
    <2> QED
      BY <1>1, <2>1
  <1>3. \A q \in Requests : RestAt(q)' \subseteq RestAt(q)
    BY <1>2, RestShrinks
  <1>4. \A q \in Requests : \A k \in RestAt(q)' :
           ~Sent(buffer'.data[k]) /\ ~Of(s, buffer'.data[k])
    BY <1>3 DEF Given, Kept, Of
  <1>5. \A q \in Requests : \A k, l \in RestAt(q)' :
           buffer'.data[k] = buffer'.data[l] => k = l
    BY <1>3 DEF Given
  <1>6. Given' /\ \A u : Sent(u)' => Sent(u) \/ Of(s, u)
    BY <1>4, <1>5, GiveUnits
  <1>7. \A u : Kept(u)' => Kept(u)
    BY <1>3 DEF Kept
  <1> QED
    BY <1>6, <1>7

LEMMA SendStreamChunkUnits ==
    ASSUME TypeOK, Given, NEW r \in Requests, NEW data \in Seq(Units), NEW last \in BOOLEAN,
           Distinct(data), \A i \in 1 .. Len(data) : ~Sent(data[i]) /\ ~Kept(data[i]),
           SendStreamChunk(r, data, last)
    PROVE  Given' /\ \A u : Sent(u)' \/ Kept(u)' => Sent(u) \/ Kept(u) \/ Of(data, u)
  <1>1. body' = [body EXCEPT ![r] = @ \o data] /\ buffer' = buffer
    BY DEF SendStreamChunk
  <1>2. ASSUME NEW q \in Requests, Retries(q)' PROVE Retries(q)
    <2>1. CASE client' = (IF last THEN EndResponse(r) ELSE client) /\ UNCHANGED <<blocked, writable>>
      BY <1>2, <2>1, EndResponseHead DEF Retries
    <2>2. CASE /\ blocked' = [blocked EXCEPT ![r] = TRUE]
               /\ writable' = [writable EXCEPT ![r] = IF last THEN "end" ELSE "resume"]
               /\ UNCHANGED client
      BY <1>2, <2>2 DEF Retries, TypeOK
    <2> QED
      BY <2>1, <2>2 DEF SendStreamChunk
  <1> QED
    BY <1>1, <1>2, GiveFromElsewhere

\* The first n elements of s.
LEMMA FirstOf ==
    ASSUME NEW S, NEW s \in Seq(S), NEW n \in 0 .. Len(s)
    PROVE  /\ SubSeq(s, 1, n) \in Seq(S) /\ Len(SubSeq(s, 1, n)) = n
           /\ \A i \in 1 .. n : SubSeq(s, 1, n)[i] = s[i]
  OBVIOUS

\* What follows the first m.
LEMMA RestOf ==
    ASSUME NEW S, NEW s \in Seq(S), NEW m \in Nat
    PROVE  /\ SubSeq(s, m + 1, Len(s)) \in Seq(S) /\ Len(SubSeq(s, m + 1, Len(s))) \in Nat
           /\ \A i \in 1 .. Len(SubSeq(s, m + 1, Len(s))) :
                 m + i \in 1 .. Len(s) /\ SubSeq(s, m + 1, Len(s))[i] = s[m + i]
  OBVIOUS

LEMMA GrowLength ==
    ASSUME NEW b \in Seq(Units), NEW s \in Seq(Units)
    PROVE  Len(b \o s) = Len(b) + Len(s) /\ Len(b) \in Nat
  BY ConcatParts

\* tryEnd takes the first units, and the rest becomes the pending buffer.
LEMMA SendChunkUnits ==
    ASSUME TypeOK, Safe, Given, pending # <<>>, NEW r \in Requests, r = Head(pending),
           NEW data \in Seq(Units), NEW total \in Nat,
           Distinct(data), \A i \in 1 .. Len(data) : ~Sent(data[i]) /\ ~Kept(data[i]),
           SendChunk(r, data, total)
    PROVE  Given' /\ \A u : Sent(u)' \/ Kept(u)' => Sent(u) \/ Kept(u) \/ Of(data, u)
  <1>1. PICK n \in Accepted(data) : SendChunk(r, data, total)!(n)
    BY DEF SendChunk
  <1>2. n \in 0 .. Len(data) /\ Len(data) \in Nat
    BY <1>1 DEF Accepted
  <1> DEFINE s == SubSeq(data, 1, n)
  <1>3. s \in Seq(Units) /\ Len(s) = n /\ \A i \in 1 .. n : s[i] = data[i]
    BY <1>2, FirstOf
  <1>4. body' = [body EXCEPT ![r] = @ \o s] /\ writable' = writable
    BY <1>1
  <1> HIDE DEF s
  <1>5. Distinct(s) /\ \A i \in 1 .. Len(s) : ~Sent(s[i]) /\ ~Kept(s[i])
    <2>1. \A i \in 1 .. n : i \in 1 .. Len(data)
      BY <1>2
    <2>2. Distinct(s)
      BY <1>3, <2>1 DEF Distinct
    <2> QED
      BY <1>3, <2>1, <2>2
  <1>6. \A u : Of(s, u) => Of(data, u)
    BY <1>2, <1>3 DEF Of
  <1>7. CASE Len(body[r]) + n = total
    <2>1. client' = EndResponse(r) /\ UNCHANGED <<blocked, buffer>>
      BY <1>1, <1>7
    <2>2. \A q \in Requests : Retries(q)' => Retries(q)
      BY <1>4, <2>1, EndResponseHead DEF Retries
    <2> QED
      BY <1>3, <1>4, <1>5, <1>6, <2>1, <2>2, GiveFromElsewhere
  <1>8. CASE Len(body[r]) + n # total /\ n = Len(data)
    <2>1. blocked' = [blocked EXCEPT ![r] = @ \/ ~(n = Len(data))] /\ UNCHANGED <<client, buffer>>
      BY <1>1, <1>8
    <2>2. \A q \in Requests : Retries(q)' => Retries(q)
      BY <1>4, <1>8, <2>1 DEF Retries, TypeOK
    <2> QED
      BY <1>3, <1>4, <1>5, <1>6, <2>1, <2>2, GiveFromElsewhere
  <1>9. CASE Len(body[r]) + n # total /\ n # Len(data)
    <2>1. /\ blocked' = [blocked EXCEPT ![r] = @ \/ ~(n = Len(data))] /\ client' = client
          /\ buffer' = [data |-> data, offset |-> Len(body[r]), total |-> total]
      BY <1>1, <1>9
    <2>2. buffer'.data = data /\ buffer'.offset = Len(body[r])
      BY <2>1
    <2>3. Len(body'[r]) = Len(body[r]) + n /\ Len(body[r]) \in Nat
      <3>1. body \in [Requests -> Seq(Units)]
        BY DEF TypeOK
      <3>2. body'[r] = body[r] \o s /\ body[r] \in Seq(Units)
        BY <1>4, <3>1
      <3>3. Len(body[r] \o s) = Len(body[r]) + Len(s) /\ Len(body[r]) \in Nat
        BY <1>3, <3>2, GrowLength
      <3> QED
        BY <1>3, <3>2, <3>3
    <2>4. ASSUME NEW q \in Requests, NEW k \in RestAt(q)'
          PROVE  q = r /\ k \in 1 .. Len(data) /\ k > n
      <3>1. Retries(q)' /\ k \in 1 .. Len(data) /\ k > Len(body'[q]) - Len(body[r])
        BY <2>2, <2>4 DEF RestAt
      <3>2. q = r
        <4> SUFFICES ASSUME q # r PROVE FALSE
          OBVIOUS
        <4>1. Retries(q)
          BY <1>4, <2>1, <3>1 DEF Retries, TypeOK
        <4> QED
          BY <4>1 DEF Retries, Safe, BlockedIsHead
      <3>3. k > Len(body'[r]) - Len(body[r])
        BY <3>1, <3>2
      <3>4. n \in Nat /\ k \in Nat /\ Len(body[r]) \in Nat
        BY <1>2, <2>3, <3>1
      <3>5. k > n
        BY <2>3, <3>3, <3>4
      <3> QED
        BY <3>1, <3>2, <3>5
    <2>5. \A q \in Requests : \A k \in RestAt(q)' :
             ~Sent(buffer'.data[k]) /\ ~Of(s, buffer'.data[k])
      <3> SUFFICES ASSUME NEW q \in Requests, NEW k \in RestAt(q)'
                   PROVE  ~Sent(data[k]) /\ ~Of(s, data[k])
        BY <2>2
      <3>1. k \in 1 .. Len(data) /\ k > n
        BY <2>4
      <3>2. ASSUME NEW i \in 1 .. Len(s) PROVE s[i] # data[k]
        BY <1>2, <1>3, <3>1 DEF Distinct
      <3> QED
        BY <3>1, <3>2 DEF Of
    <2>6. \A q \in Requests : \A k, l \in RestAt(q)' :
             buffer'.data[k] = buffer'.data[l] => k = l
      BY <2>2, <2>4 DEF Distinct
    <2>7. Given' /\ \A u : Sent(u)' => Sent(u) \/ Of(s, u)
      BY <1>3, <1>4, <1>5, <2>5, <2>6, GiveUnits
    <2>8. \A u : Kept(u)' => Of(data, u)
      BY <2>2, <2>4 DEF Kept, Of
    <2> QED
      BY <1>6, <2>7, <2>8
  <1> QED
    BY <1>7, <1>8, <1>9

\* The 'data' handler of _dataStream.
LEMMA DeliverUnits ==
    ASSUME TypeOK, Safe, Given, NEW data \in Seq(Units), NEW last \in BOOLEAN,
           Distinct(data), \A i \in 1 .. Len(data) : ~Sent(data[i]) /\ ~Kept(data[i]),
           Deliver(data, last)
    PROVE  Given' /\ \A u : Sent(u)' \/ Kept(u)' => Sent(u) \/ Kept(u) \/ Of(data, u)
  <1>1. CASE UNCHANGED <<client, body, blocked, writable, buffer>>
    <2>1. \A q \in Requests : Retries(q)' => Retries(q)
      BY <1>1 DEF Retries
    <2> QED
      BY <1>1, <2>1, KeepUnits
  <1>2. CASE pending # <<>> /\ ~UNCHANGED <<client, body, blocked, writable, buffer>>
    <2>1. PICK r \in Requests : r = Head(pending)
      BY <1>2, TailToSet DEF TypeOK
    <2>2. contentLength[r] \in Nat
      BY DEF TypeOK
    <2>3. SendStreamChunk(r, data, last) \/ SendChunk(r, data, contentLength[r])
      BY <1>2, <2>1 DEF Deliver, IgnoreChunk
    <2> QED
      BY <1>2, <2>1, <2>2, <2>3, SendStreamChunkUnits, SendChunkUnits
  <1> QED
    BY <1>1, <1>2 DEF Deliver

\* The rest of the pending buffer moves to the body of the response it belongs to.
LEMMA RetryUnits ==
    ASSUME TypeOK, Safe, Given, NEW r \in Requests, OnWritable(r)
    PROVE  Given' /\ \A u : Sent(u)' \/ Kept(u)' => Sent(u) \/ Kept(u)
  <1>1. client[r] = "open" /\ blocked[r] /\ writable' = writable
    BY DEF OnWritable
  <1>2. CASE writable[r] # "retry" \/ buffer = NoBuffer
    <2>1. /\ client' = client \/ client' = EndResponse(r)
          /\ blocked' = [blocked EXCEPT ![r] = FALSE]
          /\ UNCHANGED <<body, buffer>>
      BY <1>2 DEF OnWritable, RetryBuffer
    <2>2. ASSUME NEW q \in Requests, Retries(q)' PROVE Retries(q)
      <3>1. client'[q] = "open" => client[q] = "open"
        BY <2>1, EndResponseHead
      <3>2. blocked'[q] => blocked[q]
        BY <2>1 DEF TypeOK
      <3> QED
        BY <1>1, <2>2, <3>1, <3>2 DEF Retries
    <2> QED
      BY <2>1, <2>2, KeepUnits
  <1>3. CASE writable[r] = "retry" /\ RetryBuffer(r) /\ buffer # NoBuffer
    <2> DEFINE start == Len(body[r]) - buffer.offset
               rest  == SubSeq(buffer.data, start + 1, Len(buffer.data))
    <2>1. /\ body[r] \in Seq(Units) /\ Len(body[r]) \in Nat /\ buffer.offset \in Nat
          /\ buffer.data \in Seq(Units) /\ Len(buffer.data) \in Nat
      BY DEF TypeOK
    <2>2. Retries(r) /\ start \in Nat
      <3>1. Retries(r)
        BY <1>1, <1>3 DEF Retries
      <3>2. buffer.offset <= Len(body[r])
        BY <3>1 DEF Retries, Safe, RetryWithinBuffer
      <3> QED
        BY <2>1, <3>1, <3>2
    <2>3. /\ rest \in Seq(Units) /\ Len(rest) \in Nat
          /\ \A i \in 1 .. Len(rest) :
                start + i \in 1 .. Len(buffer.data) /\ rest[i] = buffer.data[start + i]
      <3> HIDE DEF start
      <3> QED
        BY <2>1, <2>2, RestOf
    <2>4. PICK n \in Accepted(rest) :
             /\ body' = [body EXCEPT ![r] = @ \o SubSeq(rest, 1, n)]
             /\ client' \in {client, EndResponse(r)}
             /\ buffer' \in {buffer, NoBuffer}
             /\ blocked' = [blocked EXCEPT ![r] = ~(n = Len(rest))]
      BY <1>3 DEF RetryBuffer
    <2> HIDE DEF rest
    <2>5. n \in 0 .. Len(rest)
      BY <2>3, <2>4 DEF Accepted
    <2> DEFINE s == SubSeq(rest, 1, n)
    <2>6. s \in Seq(Units) /\ Len(s) = n /\ \A i \in 1 .. n : s[i] = rest[i]
      BY <2>3, <2>5, FirstOf
    <2>7. \A i \in 1 .. n : start + i \in RestAt(r) /\ s[i] = buffer.data[start + i]
      BY <2>2, <2>3, <2>5, <2>6 DEF RestAt
    <2>8. body' = [body EXCEPT ![r] = @ \o s]
      BY <2>4
    <2> HIDE DEF s
    <2>9. Distinct(s) /\ \A i \in 1 .. Len(s) : ~Sent(s[i]) /\ Kept(s[i])
      <3>1. Distinct(s)
        BY <2>2, <2>6, <2>7 DEF Distinct, Given
      <3> QED
        BY <2>6, <2>7, <3>1 DEF Given, Kept
    <2>10. Len(body'[r]) = Len(body[r]) + n
      <3>1. body'[r] = body[r] \o s
        BY <2>8 DEF TypeOK
      <3> QED
        BY <2>1, <2>6, <3>1, GrowLength
    <2>11. ASSUME NEW q \in Requests, NEW k \in RestAt(q)'
           PROVE  q = r /\ k \in RestAt(r) /\ k > start + n /\ buffer' = buffer
      <3>1. buffer' = buffer
        <4> SUFFICES ASSUME buffer' = NoBuffer PROVE FALSE
          BY <2>4
        <4> QED
          BY <2>11 DEF RestAt, NoBuffer
      <3>2. Retries(q)
        <4>1. Retries(q)'
          BY <2>11 DEF RestAt
        <4>2. client'[q] = "open" => client[q] = "open"
          BY <2>4, EndResponseHead
        <4>3. q # r => blocked'[q] = blocked[q]
          BY <2>4 DEF TypeOK
        <4> QED
          BY <1>1, <2>2, <4>1, <4>2, <4>3 DEF Retries
      <3>3. q = r
        BY <2>2, <3>2 DEF Retries, Safe, BlockedIsHead
      <3>4. k \in 1 .. Len(buffer.data) /\ k > Len(body'[r]) - buffer.offset
        BY <2>11, <3>1, <3>3 DEF RestAt
      <3>5. k > start + n /\ k > start
        BY <2>1, <2>5, <2>10, <3>4
      <3> QED
        BY <2>2, <3>1, <3>3, <3>4, <3>5 DEF RestAt
    <2> HIDE DEF start
    <2>12. \A q \in Requests : \A k, l \in RestAt(q)' :
              buffer'.data[k] = buffer'.data[l] => k = l
      BY <2>11 DEF Given
    <2>13. \A q \in Requests : \A k \in RestAt(q)' :
              ~Sent(buffer'.data[k]) /\ ~Of(s, buffer'.data[k])
      <3> SUFFICES ASSUME NEW q \in Requests, NEW k \in RestAt(q)'
                   PROVE  ~Sent(buffer.data[k]) /\ ~Of(s, buffer.data[k])
        BY <2>11
      <3>1. k \in RestAt(r) /\ k > start + n
        BY <2>11
      <3>2. ASSUME NEW i \in 1 .. n PROVE s[i] # buffer.data[k]
        <4>1. start + i # k
          BY <2>2, <2>5, <3>1
        <4> QED
          BY <2>7, <3>1, <4>1 DEF Given
      <3> QED
        BY <2>6, <3>1, <3>2 DEF Given, Of
    <2>14. Given' /\ \A u : Sent(u)' => Sent(u) \/ Of(s, u)
      BY <2>6, <2>8, <2>9, <2>12, <2>13, GiveUnits
    <2>15. \A u : Kept(u)' => Kept(u)
      BY <2>11 DEF Kept
    <2> QED
      BY <2>9, <2>14, <2>15 DEF Of
  <1> QED
    BY <1>2, <1>3 DEF OnWritable

-----------------------------------------------------------------------------
(***************************************************************************)
(* Data in the stream.                                                     *)
(***************************************************************************)

\* The stream stays or is emptied, and no unit has moved to another place.
LEMMA KeepStream ==
    ASSUME TypeOK, Streamed, stream' = stream \/ stream' = <<>>,
           \A u : Sent(u)' \/ Kept(u)' => Sent(u) \/ Kept(u)
    PROVE  Streamed' /\ \A u : Waits(u)' => Waits(u)
  <1>1. CASE stream' = stream
    <2>1. ASSUME NEW k \in 1 .. Len(stream'), NEW i \in 1 .. Len(stream'[k].data)
          PROVE  ~Sent(stream[k].data[i])' /\ ~Kept(stream[k].data[i])'
      BY <1>1 DEF Streamed
    <2> QED
      BY <1>1, <2>1 DEF Streamed, Waits, Of
  <1>2. CASE stream' = <<>>
    BY <1>2 DEF Streamed, Waits
  <1> QED
    BY <1>1, <1>2

\* The parser's data goes to the client or to the end of the stream.
LEMMA PushUnits ==
    ASSUME TypeOK, Safe, Given, Streamed, NEW data \in Seq(Units), NEW last \in BOOLEAN,
           Distinct(data),
           \A i \in 1 .. Len(data) : ~Sent(data[i]) /\ ~Kept(data[i]) /\ ~Waits(data[i]),
           Push(data, last)
    PROVE  /\ Given' /\ Streamed'
           /\ \A u : Sent(u)' \/ Kept(u)' \/ Waits(u)'
                        => Sent(u) \/ Kept(u) \/ Waits(u) \/ Of(data, u)
  <1>1. CASE stream = <<>> /\ Deliver(data, last) /\ stream' = stream
    <2>1. Given' /\ \A u : Sent(u)' \/ Kept(u)' => Sent(u) \/ Kept(u) \/ Of(data, u)
      BY <1>1, DeliverUnits
    <2>2. Streamed' /\ \A u : ~Waits(u)'
      BY <1>1 DEF Streamed, Waits
    <2> QED
      BY <2>1, <2>2
  <1>2. CASE /\ stream' = Append(stream, [data |-> data, last |-> last])
             /\ UNCHANGED <<client, body, blocked, writable, buffer>>
    <2> DEFINE chunk == [data |-> data, last |-> last]
    <2>1. Given' /\ \A u : Sent(u)' \/ Kept(u)' => Sent(u) \/ Kept(u)
      <3>1. \A q \in Requests : Retries(q)' => Retries(q)
        BY <1>2 DEF Retries
      <3> QED
        BY <1>2, <3>1, KeepUnits
    <2>2. stream \in Seq(Chunks) /\ chunk \in Chunks /\ chunk.data = data
      BY DEF TypeOK, Chunks
    <2> HIDE DEF chunk
    <2>3. /\ Len(stream) \in Nat /\ Len(stream') = Len(stream) + 1
          /\ \A k \in 1 .. Len(stream) : stream'[k] = stream[k]
          /\ stream'[Len(stream) + 1].data = data
      BY <1>2, <2>2 DEF chunk
    <2>4. ASSUME NEW k \in 1 .. Len(stream')
          PROVE  \/ k \in 1 .. Len(stream) /\ stream'[k] = stream[k]
                 \/ k = Len(stream) + 1 /\ stream'[k].data = data
      BY <2>3
    <2>5. ASSUME NEW u, Waits(u)' PROVE Waits(u) \/ Of(data, u)
      <3>1. PICK k \in 1 .. Len(stream') : Of(stream'[k].data, u)
        BY <2>5 DEF Waits, Of
      <3> QED
        BY <2>4, <3>1 DEF Waits
    <2>6. ASSUME NEW k \in 1 .. Len(stream') PROVE Distinct(stream'[k].data)
      BY <2>4 DEF Streamed
    <2>7. ASSUME NEW k \in 1 .. Len(stream'), NEW i \in 1 .. Len(stream'[k].data)
          PROVE  ~Sent(stream[k].data[i])' /\ ~Kept(stream[k].data[i])'
      BY <2>1, <2>4 DEF Streamed
    <2>8. ASSUME NEW k \in 1 .. Len(stream'), NEW l \in 1 .. Len(stream'), k # l,
                 NEW i \in 1 .. Len(stream'[k].data)
          PROVE  ~Of(stream'[l].data, stream'[k].data[i])
      <3>1. ASSUME NEW m \in 1 .. Len(stream), NEW j \in 1 .. Len(stream[m].data)
            PROVE  ~Of(data, stream[m].data[j])
        BY DEF Waits, Of
      <3>2. ASSUME NEW m \in 1 .. Len(stream), NEW j \in 1 .. Len(data)
            PROVE  ~Of(stream[m].data, data[j])
        BY DEF Waits
      <3>3. CASE k \in 1 .. Len(stream) /\ stream'[k] = stream[k]
        BY <2>4, <2>8, <3>1, <3>3 DEF Streamed
      <3>4. CASE k = Len(stream) + 1 /\ stream'[k].data = data
        BY <2>4, <2>8, <3>2, <3>4
      <3> QED
        BY <2>4, <3>3, <3>4
    <2>9. Streamed'
      BY <2>6, <2>7, <2>8 DEF Streamed, Of
    <2> QED
      BY <2>1, <2>5, <2>9
  <1> QED
    BY <1>1, <1>2 DEF Push, responseVars

\* The oldest chunk of the stream goes to the client.
LEMMA FlowUnits ==
    ASSUME TypeOK, Safe, Given, Streamed, Flow
    PROVE  /\ Given' /\ Streamed'
           /\ \A u : Sent(u)' \/ Kept(u)' \/ Waits(u)' => Sent(u) \/ Kept(u) \/ Waits(u)
  <1>1. stream \in Seq(Chunks) /\ stream # <<>> /\ stream' = Tail(stream)
    BY DEF TypeOK, Flow, Draining
  <1>2. PICK data \in Seq(Units), last \in BOOLEAN :
           data = Head(stream).data /\ Deliver(data, last)
    <2>1. Head(stream) \in Chunks
      BY <1>1, TailToSet
    <2> QED
      BY <2>1 DEF Flow, Chunks
  <1>3. /\ 1 \in 1 .. Len(stream) /\ stream[1].data = data /\ Len(stream) \in Nat
        /\ Len(stream') = Len(stream) - 1
        /\ \A k \in 1 .. Len(stream') : k + 1 \in 1 .. Len(stream) /\ stream'[k] = stream[k + 1]
    BY <1>1, <1>2
  <1>4. Distinct(data) /\ \A i \in 1 .. Len(data) : ~Sent(data[i]) /\ ~Kept(data[i])
    BY <1>3 DEF Streamed
  <1>5. Given' /\ \A u : Sent(u)' \/ Kept(u)' => Sent(u) \/ Kept(u) \/ Of(data, u)
    BY <1>2, <1>4, DeliverUnits
  <1>6. \A u : Of(data, u) => Waits(u)
    BY <1>3 DEF Waits
  <1>7. ASSUME NEW u, Waits(u)' PROVE Waits(u)
    <2>1. PICK k \in 1 .. Len(stream') : Of(stream'[k].data, u)
      BY <1>7 DEF Waits, Of
    <2> QED
      BY <1>3, <2>1 DEF Waits
  <1>8. ASSUME NEW k \in 1 .. Len(stream') PROVE Distinct(stream'[k].data)
    BY <1>3 DEF Streamed
  <1>9. ASSUME NEW k \in 1 .. Len(stream'), NEW i \in 1 .. Len(stream'[k].data)
        PROVE  ~Sent(stream[k].data[i])' /\ ~Kept(stream[k].data[i])'
    <2>1. k + 1 \in 1 .. Len(stream) /\ k + 1 # 1 /\ stream'[k] = stream[k + 1]
      BY <1>3
    <2>2. ~Sent(stream'[k].data[i]) /\ ~Kept(stream'[k].data[i])
      BY <2>1 DEF Streamed
    <2>3. ~Of(data, stream'[k].data[i])
      BY <1>3, <2>1 DEF Streamed
    <2> QED
      BY <1>5, <2>2, <2>3
  <1>10. ASSUME NEW k \in 1 .. Len(stream'), NEW l \in 1 .. Len(stream'), k # l,
                NEW i \in 1 .. Len(stream'[k].data)
         PROVE  ~Of(stream'[l].data, stream'[k].data[i])
    <2>1. /\ k + 1 \in 1 .. Len(stream) /\ stream'[k] = stream[k + 1]
          /\ l + 1 \in 1 .. Len(stream) /\ stream'[l] = stream[l + 1]
          /\ k + 1 # l + 1
      BY <1>3, <1>10
    <2> QED
      BY <2>1 DEF Streamed
  <1>11. Streamed'
    BY <1>8, <1>9, <1>10 DEF Streamed, Of
  <1> QED
    BY <1>5, <1>6, <1>7, <1>11

-----------------------------------------------------------------------------
(***************************************************************************)
(* What the parser has read.                                               *)
(***************************************************************************)

\* Nothing that was read becomes unread.
Reads ==
    \A r \in Requests :
       stage[r] = "queued" =>
          /\ stage'[r] = "queued"
          /\ r \in ToSet(Unread') =>
                /\ r \in ToSet(Unread)
                /\ wire # <<>> /\ r = Head(wire) =>
                      wire' # <<>> /\ r = Head(wire') /\ rx.read <= rx'.read

LEMMA EmittedStays ==
    ASSUME TypeOK, TypeOK', Reads, NEW u, Emitted(u)
    PROVE  Emitted(u)'
  <1>1. u[1] \in Requests /\ u[2] \in Nat
    BY DEF Emitted, Units
  <1>2. rx.read \in Nat /\ rx'.read \in Nat
    BY DEF TypeOK, Readings
  <1>3. /\ stage[u[1]] = "queued"
        /\ u[1] \in ToSet(Unread) => wire # <<>> /\ u[1] = Head(wire) /\ u[2] <= rx.read
    BY DEF Emitted
  <1>4. stage'[u[1]] = "queued"
    BY <1>1, <1>3 DEF Reads
  <1>5. ASSUME u[1] \in ToSet(Unread')
        PROVE  wire' # <<>> /\ u[1] = Head(wire') /\ u[2] <= rx'.read
    <2>1. wire # <<>> /\ u[1] = Head(wire) /\ u[2] <= rx.read
      BY <1>1, <1>3, <1>5 DEF Reads
    <2>2. wire' # <<>> /\ u[1] = Head(wire') /\ rx.read <= rx'.read
      BY <1>1, <1>3, <1>5, <2>1 DEF Reads
    <2> QED
      BY <1>1, <1>2, <2>1, <2>2
  <1> QED
    BY <1>4, <1>5 DEF Emitted

LEMMA LineType ==
    ASSUME TypeOK
    PROVE  /\ wire \in Seq(Requests) /\ immediates \in Seq(Requests)
           /\ Unread \in Seq(Requests) /\ ToSet(Unread) \subseteq Requests
           /\ ToSet(Unread) = ToSet(wire) \cup ToSet(immediates)
  <1>1. wire \in Seq(Requests) /\ immediates \in Seq(Requests)
    BY DEF TypeOK
  <1>2. Unread \in Seq(Requests) /\ ToSet(Unread) = ToSet(wire) \cup ToSet(immediates)
    BY <1>1, ConcatToSet DEF Unread
  <1>3. ASSUME NEW s \in Seq(Requests) PROVE ToSet(s) \subseteq Requests
    BY DEF ToSet
  <1> QED
    BY <1>1, <1>2, <1>3

\* The line stays as it is, and the parser where it is or further on.
LEMMA LineStays ==
    ASSUME TypeOK, Line, UNCHANGED <<wire, immediates, socket>>, rx.read <= rx'.read,
           \A r \in Requests : stage[r] = "queued" => stage'[r] = "queued"
    PROVE  Line' /\ Reads
  <1>1. Unread' = Unread
    BY DEF Unread
  <1> QED
    BY <1>1, LineType DEF Line, Reads

LEMMA LineSame ==
    ASSUME TypeOK, Line, UNCHANGED <<wire, immediates, socket, rx>>,
           \A r \in Requests : stage[r] = "queued" => stage'[r] = "queued"
    PROVE  Line' /\ Reads
  <1>1. rx.read \in Nat /\ rx'.read = rx.read
    BY DEF TypeOK, Readings
  <1> QED
    BY <1>1, LineStays

\* The parser is through with the first in line.
LEMMA LineMoves ==
    ASSUME TypeOK, Line, wire # <<>>, wire' = Tail(wire), UNCHANGED <<immediates, stage>>,
           socket' # "closed"
    PROVE  /\ Line' /\ Reads
           /\ Head(wire) \in Requests /\ stage[Head(wire)] = "queued"
           /\ Head(wire) \notin ToSet(Unread')
  <1>1. Unread # <<>> /\ Head(Unread) = Head(wire) /\ Unread' = Tail(Unread)
    <2>1. wire \in Seq(Requests) /\ immediates \in Seq(Requests) /\ Len(wire) > 0
      BY LineType
    <2> QED
      BY <2>1 DEF Unread
  <1>2. Distinct(Unread') /\ ToSet(Unread') = ToSet(Unread) \ {Head(wire)}
    BY <1>1, LineType, TailDistinct DEF Line
  <1>3. Head(wire) \in ToSet(Unread)
    BY <1>1, LineType, TailToSet
  <1> QED
    BY <1>2, <1>3, LineType DEF Line, Reads

\* The parser takes a response for read: it is through with it, or out of step.
LEMMA LineGoesOn ==
    ASSUME TypeOK, Line, wire # <<>>, NEW n \in Nat, EndOfResponse(n) \/ NextOrRemains(n),
           UNCHANGED <<immediates, stage>>, socket # "closed", socket' # "closed"
    PROVE  /\ Line' /\ Reads
           /\ \/ Head(wire) \notin ToSet(Unread')
              \/ wire' = wire /\ rx'.read = rx.read + n + 1
  <1>1. CASE wire' = Tail(wire)
    BY <1>1, LineMoves
  <1>2. CASE wire' = wire /\ rx'.read = rx.read + n + 1
    <2>1. rx.read <= rx'.read
      BY <1>2 DEF TypeOK, Readings
    <2>2. Unread' = Unread
      BY <1>2 DEF Unread
    <2> QED
      BY <1>2, <2>1, <2>2, LineType DEF Line, Reads
  <1> QED
    BY <1>1, <1>2, GoesOnReading

\* The connection is closed: nothing more is read.
LEMMA LineCloses ==
    ASSUME TypeOK, Line, wire' = <<>>, stage' = stage,
           immediates' = immediates \/ (immediates # <<>> /\ immediates' = Tail(immediates))
    PROVE  Line' /\ Reads
  <1>1. /\ wire \in Seq(Requests) /\ immediates \in Seq(Requests) /\ immediates' \in Seq(Requests)
        /\ ToSet(immediates') \subseteq ToSet(immediates)
    <2>1. wire \in Seq(Requests) /\ immediates \in Seq(Requests)
      BY DEF TypeOK
    <2>2. immediates # <<>> => /\ Tail(immediates) \in Seq(Requests)
                               /\ ToSet(Tail(immediates)) \subseteq ToSet(immediates)
      BY <2>1, TailToSet
    <2> QED
      BY <2>1, <2>2
  <1>2. Unread' = immediates'
    BY <1>1 DEF Unread
  <1>3. /\ Len(Unread) = Len(wire) + Len(immediates) /\ Len(wire) \in Nat
        /\ \A i \in 1 .. Len(wire) : Unread[i] = wire[i]
        /\ \A i \in 1 .. Len(immediates) : Unread[Len(wire) + i] = immediates[i]
    BY <1>1, ConcatParts DEF Unread
  <1>4. Distinct(immediates)
    <2> SUFFICES ASSUME NEW i \in 1 .. Len(immediates), NEW j \in 1 .. Len(immediates),
                        immediates[i] = immediates[j]
                 PROVE  i = j
      BY DEF Distinct
    <2>1. Len(wire) + i \in 1 .. Len(Unread) /\ Len(wire) + j \in 1 .. Len(Unread)
      BY <1>3, <1>1
    <2>2. Unread[Len(wire) + i] = Unread[Len(wire) + j]
      BY <1>3
    <2>3. Len(wire) + i = Len(wire) + j
      BY <2>1, <2>2 DEF Line, Distinct
    <2> QED
      BY <1>3, <2>3
  <1>5. wire # <<>> => Head(wire) \notin ToSet(immediates)
    <2> SUFFICES ASSUME wire # <<>>, NEW i \in 1 .. Len(immediates), immediates[i] = Head(wire)
                 PROVE  FALSE
      BY DEF ToSet
    <2>1. Head(wire) = wire[1] /\ 1 \in 1 .. Len(wire)
      BY <1>1
    <2>2. Len(wire) + i \in 1 .. Len(Unread) /\ 1 \in 1 .. Len(Unread)
      BY <1>1, <1>3, <2>1
    <2>3. Len(wire) + i = 1
      BY <1>3, <2>1, <2>2 DEF Line, Distinct
    <2> QED
      BY <1>3, <2>1, <2>3
  <1>6. Distinct(immediates')
    BY <1>1, <1>4, TailDistinct
  <1>7. ToSet(immediates) \subseteq ToSet(Unread) /\ ToSet(Unread) \subseteq Requests
    BY LineType
  <1>8. \A r \in ToSet(Unread') : r \in ToSet(Unread) /\ (wire # <<>> => r # Head(wire))
    BY <1>1, <1>2, <1>5, <1>7
  <1> QED
    BY <1>2, <1>6, <1>7, <1>8 DEF Line, Reads

-----------------------------------------------------------------------------
(***************************************************************************)
(* Every step keeps Apart.                                                 *)
(***************************************************************************)

\* A step in which no unit is read or comes from the stream.
LEMMA NothingMoves ==
    ASSUME TypeOK, TypeOK', Apart, Line', Reads, stream' = stream \/ stream' = <<>>,
           Given', \A u : Sent(u)' \/ Kept(u)' => Sent(u) \/ Kept(u)
    PROVE  Apart'
  <1>1. Streamed' /\ \A u : Waits(u)' => Waits(u)
    BY KeepStream DEF Apart
  <1>2. ASSUME NEW u, Sent(u)' \/ Kept(u)' \/ Waits(u)' PROVE Emitted(u)'
    <2>1. Emitted(u)
      BY <1>1, <1>2 DEF Apart, AllEmitted
    <2> QED
      BY <2>1, EmittedStays
  <1> QED
    BY <1>1, <1>2 DEF Apart, AllEmitted

\* In particular one that gives no data to a response.
LEMMA NothingGiven ==
    ASSUME TypeOK, TypeOK', Apart, Line', Reads, stream' = stream \/ stream' = <<>>,
           UNCHANGED <<body, buffer, writable>>,
           \A r \in Requests : client'[r] = "open" /\ blocked'[r] => client[r] = "open" /\ blocked[r]
    PROVE  Apart'
  <1>1. \A r \in Requests : Retries(r)' => Retries(r)
    BY DEF Retries
  <1>2. Given' /\ \A u : Sent(u)' \/ Kept(u)' => Sent(u) \/ Kept(u)
    BY <1>1, KeepUnits DEF Apart
  <1> QED
    BY <1>2, NothingMoves

LEMMA RequestApart ==
    ASSUME TypeOK, TypeOK', Safe, Apart, NEW r \in Requests,
           HandleRequest(r) \/ ScheduleSend(r) \/ Abort(r)
    PROVE  Apart'
  <1>1. CASE HandleRequest(r) \/ Abort(r)
    <2>1. /\ UNCHANGED <<wire, immediates, socket, rx, stream, body, buffer, blocked, writable>>
          /\ \A q \in Requests : stage[q] = "queued" => stage'[q] = "queued"
      <3>1. UNCHANGED <<wire, immediates, socket, rx, stream, body, buffer, blocked, writable>>
        BY <1>1 DEF HandleRequest, Abort, responseVars, requestVars, serverVars
      <3>2. \/ stage[r] = "new" /\ stage' = [stage EXCEPT ![r] = "connecting"]
            \/ stage' = stage
        BY <1>1 DEF HandleRequest, Abort, requestVars
      <3>3. \A q \in Requests : stage[q] = "queued" => stage'[q] = "queued"
        <4>1. stage \in [Requests -> {"new", "connecting", "queued", "refused"}]
          BY DEF TypeOK
        <4> QED
          BY <3>2, <4>1
      <3> QED
        BY <3>1, <3>3
    <2>2. \A q \in Requests : client'[q] = "open" /\ blocked[q] => client[q] = "open"
      <3>1. CASE HandleRequest(r)
        <4>1. client' = [client EXCEPT ![r] = "open"] /\ ~blocked[r]
          BY <3>1 DEF HandleRequest, Safe, Progress
        <4> QED
          BY <4>1 DEF TypeOK
      <3>2. CASE Abort(r)
        <4>1. client' = [client EXCEPT ![r] = "aborted"]
          BY <3>2 DEF Abort
        <4> QED
          BY <4>1 DEF TypeOK
      <3> QED
        BY <1>1, <3>1, <3>2
    <2>3. Line' /\ Reads
      BY <2>1, LineSame DEF Apart
    <2> QED
      BY <2>1, <2>2, <2>3, NothingGiven
  <1>2. CASE ScheduleSend(r)
    <2>1. /\ stage[r] = "connecting"
          /\ UNCHANGED <<wire, socket, rx, stream, body, buffer, blocked, writable>>
      BY <1>2 DEF ScheduleSend, responseVars, serverVars
    <2>2. \A q \in Requests : client'[q] = "open" => client[q] = "open"
      BY <1>2, EndResponseHead DEF ScheduleSend, Refuse, Enqueue
    <2>3. Line' /\ Reads
      <3>1. CASE Refuse(r)
        <4>1. /\ immediates' = immediates
              /\ \A q \in Requests : stage[q] = "queued" => stage'[q] = "queued"
          BY <2>1, <3>1 DEF Refuse, TypeOK
        <4> QED
          BY <2>1, <4>1, LineSame DEF Apart
      <3>2. CASE Enqueue(r) /\ socket # "closed"
        <4>1. Unread' = Append(Unread, r)
          BY <2>1, <3>2, LineType, ConcatAppend DEF Enqueue, Unread
        <4>2. r \notin ToSet(Unread)
          BY <2>1 DEF Apart, Line
        <4>3. Distinct(Unread') /\ ToSet(Unread') = ToSet(Unread) \cup {r}
          BY <4>1, <4>2, LineType, AppendDistinct, AppendToSet DEF Apart, Line
        <4>4. /\ stage'[r] = "queued"
              /\ \A q \in Requests \ {r} : stage'[q] = stage[q]
          BY <3>2 DEF Enqueue, TypeOK
        <4>5. Line'
          BY <2>1, <3>2, <4>3, <4>4, LineType DEF Apart, Line
        <4>6. \A q \in Requests : stage[q] = "queued" => q # r
          BY <2>1
        <4>7. rx.read <= rx'.read
          BY <2>1 DEF TypeOK, Readings
        <4> QED
          BY <2>1, <4>3, <4>4, <4>5, <4>6, <4>7 DEF Reads
      <3> QED
        BY <1>2, <3>1, <3>2 DEF ScheduleSend
    <2> QED
      BY <2>1, <2>2, <2>3, NothingGiven
  <1> QED
    BY <1>1, <1>2

LEMMA OnWritableApart ==
    ASSUME TypeOK, TypeOK', Safe, Apart, NEW r \in Requests, OnWritable(r)
    PROVE  Apart'
  <1>1. UNCHANGED <<wire, immediates, socket, rx, stream, stage>>
    BY DEF OnWritable, requestVars, serverVars
  <1>2. Line' /\ Reads
    BY <1>1, LineSame DEF Apart
  <1>3. Given' /\ \A u : Sent(u)' \/ Kept(u)' => Sent(u) \/ Kept(u)
    BY RetryUnits DEF Apart
  <1> QED
    BY <1>1, <1>2, <1>3, NothingMoves

\* Closing the pipeline gives nobody data, and empties the stream.
LEMMA CloseApart ==
    ASSUME TypeOK, TypeOK', Apart, Line', Reads, CloseAll
    PROVE  Apart'
  <1>1. stream' = <<>> /\ UNCHANGED <<body, buffer, blocked, writable>>
    BY DEF CloseAll, responseVars
  <1>2. \A r \in Requests : client'[r] = "open" => client[r] = "open"
    BY DEF CloseAll, Ended
  <1> QED
    BY <1>1, <1>2, NothingGiven

LEMMA ConnectionApart ==
    ASSUME TypeOK, TypeOK', Safe, Apart, Send \/ ParserError \/ EndSocket \/ SocketClosed
    PROVE  Apart'
  <1>1. CASE Send
    <2>1. immediates # <<>> /\ immediates' = Tail(immediates) /\ stage' = stage
      BY <1>1 DEF Send
    <2>2. CASE socket = "open"
      <3>1. /\ wire' = Append(wire, Head(immediates))
            /\ UNCHANGED <<socket, rx, stream, body, buffer, blocked, writable, client>>
        BY <1>1, <2>2 DEF Send, responseVars
      <3>2. Unread' = Unread
        BY <2>1, <3>1, LineType, MoveHead DEF Unread
      <3>3. wire # <<>> => wire' # <<>> /\ Head(wire') = Head(wire)
        <4>1. wire \in Seq(Requests) /\ Head(immediates) \in Requests
          BY <2>1, LineType, TailToSet
        <4> QED
          BY <3>1, <4>1
      <3>4. rx.read <= rx'.read
        BY <3>1 DEF TypeOK, Readings
      <3>5. Line' /\ Reads
        BY <2>1, <2>2, <3>1, <3>2, <3>3, <3>4 DEF Apart, Line, Reads
      <3> QED
        BY <3>1, <3>5, NothingGiven
    <2>3. CASE socket = "ending"
      <3>1. CloseAll /\ wire' = <<>>
        BY <1>1, <2>3 DEF Send
      <3>2. Line' /\ Reads
        BY <2>1, <3>1, LineCloses DEF Apart
      <3> QED
        BY <3>1, <3>2, CloseApart
    <2>4. CASE socket = "closed"
      <3>1. UNCHANGED <<wire, stream, body, buffer, blocked, writable, client>> /\ wire = <<>>
        BY <1>1, <2>4 DEF Send, responseVars, serverVars, Apart, Line
      <3>2. Line' /\ Reads
        BY <2>1, <3>1, LineCloses DEF Apart
      <3> QED
        BY <3>1, <3>2, NothingGiven
    <2> QED
      BY <1>1, <2>2, <2>3, <2>4 DEF Send
  <1>2. CASE ParserError
    <2>1. /\ CloseAll /\ wire # <<>> /\ NextOrRemains(0)
          /\ socket # "closed" /\ socket' = "ending"
          /\ UNCHANGED <<stage, immediates>>
      BY <1>2 DEF ParserError, ParserMayRun
    <2>2. Line' /\ Reads
      BY <2>1, LineGoesOn DEF Apart
    <2> QED
      BY <2>1, <2>2, CloseApart
  <1>3. CASE EndSocket
    <2>1. /\ socket = "open" /\ socket' = "ending"
          /\ UNCHANGED <<wire, rx, immediates, stage, stream, body, buffer, blocked, writable,
                         client>>
      BY <1>3 DEF EndSocket, requestVars, responseVars
    <2>2. Unread' = Unread /\ rx.read <= rx'.read
      BY <2>1 DEF Unread, TypeOK, Readings
    <2>3. Line' /\ Reads
      BY <2>1, <2>2 DEF Apart, Line, Reads
    <2> QED
      BY <2>1, <2>3, NothingGiven
  <1>4. CASE SocketClosed
    <2>1. CloseAll /\ wire' = <<>> /\ UNCHANGED <<stage, immediates>>
      BY <1>4 DEF SocketClosed
    <2>2. Line' /\ Reads
      BY <2>1, LineCloses DEF Apart
    <2> QED
      BY <2>1, <2>2, CloseApart
  <1> QED
    BY <1>1, <1>2, <1>3, <1>4

LEMMA HeadersApart ==
    ASSUME TypeOK, TypeOK', Safe, Apart,
           NEW mode \in {"EMPTY", "FIXED", "CHUNKED", "UNTIL_CLOSE"},
           NEW size \in 0 .. MaxBody, Headers(mode, size)
    PROVE  Apart'
  <1>1. /\ wire # <<>> /\ socket # "closed"
        /\ UNCHANGED <<stream, buffer, body, blocked, writable, immediates, stage, socket>>
    BY DEF Headers, ParserMayRun, requestVars
  <1>2. \A r \in Requests : client'[r] = "open" => client[r] = "open"
    <2>1. CASE client' = client
      BY <2>1
    <2>2. CASE pending # <<>> /\ client' = EndResponse(Head(pending))
      BY <2>2, TailToSet, EndResponseHead DEF TypeOK
    <2> QED
      BY <2>1, <2>2 DEF Headers, GiveHeaders
  <1>3. Line' /\ Reads
    <2>1. CASE mode = "EMPTY"
      <3>1. EndOfResponse(0)
        BY <2>1 DEF Headers
      <3> QED
        BY <1>1, <3>1, LineGoesOn DEF Apart
    <2>2. CASE mode # "EMPTY"
      <3>1. wire' = wire /\ rx' = [rx EXCEPT !.mode = mode, !.size = size]
        BY <2>2 DEF Headers
      <3>2. rx'.read = rx.read /\ rx.read \in Nat
        BY <3>1 DEF TypeOK, Readings
      <3>3. rx.read <= rx'.read
        BY <3>2
      <3> QED
        BY <1>1, <3>1, <3>3, LineStays DEF Apart
    <2> QED
      BY <2>1, <2>2
  <1> QED
    BY <1>1, <1>2, <1>3, NothingGiven

\* What the parser reads is nowhere yet.
LEMMA BodyChunkApart ==
    ASSUME TypeOK, TypeOK', Safe, Apart, NEW n \in 0 .. MaxBody, NEW last \in BOOLEAN,
           BodyChunk(n, last)
    PROVE  Apart'
  <1>1. /\ wire # <<>> /\ n \in Nat /\ rx.read \in Nat /\ socket # "closed"
        /\ UNCHANGED <<stage, immediates, socket>>
    BY PipelineAssumption
    DEF BodyChunk, ParserMayRun, PipelineAssumption, TypeOK, Readings, requestVars
  <1>2. PICK r \in Requests : r = Head(wire)
    BY <1>1, LineType, TailToSet
  <1>3. r \in ToSet(Unread) /\ stage[r] = "queued"
    BY <1>1, <1>2, LineType, TailToSet DEF Apart, Line
  <1> DEFINE data == [i \in 1 .. n |-> <<r, rx.read + i>>]
  <1>4. data \in Seq(Units) /\ Len(data) = n /\ \A i \in 1 .. n : data[i] = <<r, rx.read + i>>
    <2>1. \A i \in 1 .. n : <<r, rx.read + i>> \in Units
      BY <1>1 DEF Units
    <2> QED
      BY <1>1, <2>1
  <1>5. Push(data, last)
    BY <1>2 DEF BodyChunk
  <1> HIDE DEF data
  <1>6. Distinct(data)
    <2> SUFFICES ASSUME NEW i \in 1 .. n, NEW j \in 1 .. n, data[i] = data[j] PROVE i = j
      BY <1>4 DEF Distinct
    <2>1. rx.read + i = rx.read + j
      BY <1>4
    <2> QED
      BY <1>1, <2>1
  <1>7. ASSUME NEW i \in 1 .. n PROVE ~Emitted(data[i])
    <2>1. data[i][1] = r /\ data[i][2] = rx.read + i
      BY <1>4
    <2>2. ~(rx.read + i <= rx.read)
      BY <1>1
    <2> QED
      BY <1>3, <2>1, <2>2 DEF Emitted
  <1>8. /\ Given' /\ Streamed'
        /\ \A u : Sent(u)' \/ Kept(u)' \/ Waits(u)'
                     => Sent(u) \/ Kept(u) \/ Waits(u) \/ Of(data, u)
    BY <1>4, <1>5, <1>6, <1>7, PushUnits DEF Apart, AllEmitted
  <1>9. /\ Line' /\ Reads /\ stage'[r] = "queued"
        /\ r \in ToSet(Unread') =>
              wire' # <<>> /\ r = Head(wire') /\ rx.read + n <= rx'.read /\ rx'.read \in Nat
    <2>1. CASE last
      <3>1. EndOfResponse(n)
        BY <2>1 DEF BodyChunk
      <3>2. rx.read + n <= rx.read + n + 1 /\ rx.read + n + 1 \in Nat
        BY <1>1
      <3> QED
        BY <1>1, <1>2, <1>3, <3>1, <3>2, LineGoesOn DEF Apart
    <2>2. CASE ~last
      <3>1. wire' = wire /\ rx' = [rx EXCEPT !.read = @ + n]
        BY <2>2 DEF BodyChunk
      <3>2. rx'.read = rx.read + n
        BY <3>1 DEF TypeOK, Readings
      <3>3. rx.read <= rx'.read /\ rx.read + n <= rx'.read /\ rx'.read \in Nat
        BY <1>1, <3>2
      <3> QED
        BY <1>1, <1>2, <1>3, <3>1, <3>2, <3>3, LineStays DEF Apart
    <2> QED
      BY <2>1, <2>2
  <1>10. ASSUME NEW u, Of(data, u) PROVE Emitted(u)'
    <2>1. PICK i \in 1 .. n : u = <<r, rx.read + i>>
      BY <1>4, <1>10 DEF Of
    <2>2. u \in Units /\ u[1] = r /\ u[2] = rx.read + i
      BY <1>1, <2>1 DEF Units
    <2>3. rx.read + i > 0 /\ rx.read + i <= rx.read + n
      BY <1>1
    <2>4. ASSUME r \in ToSet(Unread')
          PROVE  wire' # <<>> /\ r = Head(wire') /\ u[2] <= rx'.read
      <3>1. rx'.read \in Nat /\ rx.read + n <= rx'.read
        BY <1>9, <2>4
      <3>2. rx.read + i <= rx'.read
        BY <1>1, <2>3, <3>1
      <3> QED
        BY <1>9, <2>2, <2>4, <3>2
    <2> QED
      BY <1>9, <2>2, <2>3, <2>4 DEF Emitted
  <1>11. ASSUME NEW u, Sent(u)' \/ Kept(u)' \/ Waits(u)' PROVE Emitted(u)'
    <2>1. CASE Of(data, u)
      BY <1>10, <2>1
    <2>2. CASE ~Of(data, u)
      <3>1. Emitted(u)
        BY <1>8, <1>11, <2>2 DEF Apart, AllEmitted
      <3> QED
        BY <1>9, <3>1, EmittedStays
    <2> QED
      BY <2>1, <2>2
  <1> QED
    BY <1>8, <1>9, <1>11 DEF Apart, AllEmitted

LEMMA FlowApart ==
    ASSUME TypeOK, TypeOK', Safe, Apart, Flow
    PROVE  Apart'
  <1>1. UNCHANGED <<wire, immediates, socket, rx, stage>>
    BY DEF Flow, requestVars, serverVars
  <1>2. Line' /\ Reads
    BY <1>1, LineSame DEF Apart
  <1>3. /\ Given' /\ Streamed'
        /\ \A u : Sent(u)' \/ Kept(u)' \/ Waits(u)' => Sent(u) \/ Kept(u) \/ Waits(u)
    BY FlowUnits DEF Apart
  <1>4. ASSUME NEW u, Sent(u)' \/ Kept(u)' \/ Waits(u)' PROVE Emitted(u)'
    <2>1. Emitted(u)
      BY <1>3, <1>4 DEF Apart, AllEmitted
    <2> QED
      BY <1>2, <2>1, EmittedStays
  <1> QED
    BY <1>2, <1>3, <1>4 DEF Apart, AllEmitted

LEMMA NextApart ==
    ASSUME TypeOK, TypeOK', Safe, Apart, [Next]_vars
    PROVE  Apart'
  <1>1. ASSUME UNCHANGED vars PROVE Apart'
    <2>1. UNCHANGED <<wire, immediates, socket, rx, stage, stream, body, buffer, writable,
                      client, blocked>>
      BY <1>1 DEF vars, responseVars, requestVars, serverVars
    <2>2. Line' /\ Reads
      BY <2>1, LineSame DEF Apart
    <2> QED
      BY <2>1, <2>2, NothingGiven
  <1> QED
    BY <1>1, NextActions, RequestApart, OnWritableApart, ConnectionApart, FlowApart,
       HeadersApart, BodyChunkApart

-----------------------------------------------------------------------------
(***************************************************************************)
(* The theorem about units.                                                *)
(***************************************************************************)

\* The inductive invariant holds initially and is kept by every step.
THEOREM UnitsAreApart == Spec => []UnitsInvariant
  <1>1. Init => UnitsInvariant
    BY InitType, InitSafe, InitApart DEF UnitsInvariant, Invariant
  <1>2. UnitsInvariant /\ [Next]_vars => UnitsInvariant'
    <2> SUFFICES ASSUME TypeOK, Safe, Apart, [Next]_vars PROVE TypeOK' /\ Safe' /\ Apart'
      BY DEF UnitsInvariant, Invariant
    <2>1. TypeOK'
      BY NextType DEF Safe
    <2> QED
      BY <2>1, NextSafe, NextApart
  <1> QED
    BY <1>1, <1>2, PTL DEF Spec

\* No unit of a body is sent twice, to one client or to two: not when the stream
\* resumes under a client that is still behind, not by the retry of the pending
\* buffer, and not when a response went to the wrong client.
THEOREM UnitsAreSentOnce == Spec => []UnitsOnce
  <1>1. UnitsInvariant => UnitsOnce
    <2> SUFFICES ASSUME UnitsInvariant PROVE UnitsOnce
      OBVIOUS
    <2>1. \A r \in Requests : DOMAIN body[r] = 1 .. Len(body[r])
      BY DEF UnitsInvariant, Invariant, TypeOK
    <2> QED
      BY <2>1 DEF UnitsInvariant, Apart, Given, UnitsOnce
  <1> QED
    BY <1>1, UnitsAreApart, PTL
=============================================================================
