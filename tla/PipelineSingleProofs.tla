------------------------ MODULE PipelineSingleProofs ------------------------
(***************************************************************************)
(* Proofs about Pipeline when requests are not pipelined: with a limit of  *)
(* one, and with backpressure allowed, a client gets its own response in   *)
(* order and whole, and the stream is paused only while a client is        *)
(* behind.  With a larger limit and backpressure the headers of the next   *)
(* response may go to the wrong client; and so may what the parser makes   *)
(* of the rest of a malformed response, whatever the limit is.             *)
(*                                                                         *)
(* The invariant: the body that was sent, the pending buffer and the       *)
(* chunks in the stream are one run of units without a gap, up to where    *)
(* the parser has read.                                                    *)
(***************************************************************************)
EXTENDS PipelineProofs

\* One request at a time, and responses that are well-formed.
Single == MaxRequests = 1 /\ ~ParserErrors

-----------------------------------------------------------------------------
(***************************************************************************)
(* Chunks that follow one another.                                         *)
(***************************************************************************)

\* The data of a chunk is that of r from unit a + 1 on.
Follows(data, r, a) == \A i \in 1 .. Len(data) : data[i] = <<r, a + i>>

\* The chunks of s hold the units of r after a up to b, in order, without a gap
\* or a repetition; start says where each chunk starts.
Chain(s, r, a, b, start) ==
    /\ start[1] = a /\ start[Len(s) + 1] = b
    /\ \A k \in 1 .. Len(s) :
          /\ start[k + 1] = start[k] + Len(s[k].data) /\ start[k + 1] <= b
          /\ Follows(s[k].data, r, start[k])

Chained(s, r, a, b) ==
    \E start \in [1 .. Len(s) + 1 -> Nat] : Chain(s, r, a, b, start)

LEMMA ChainEmpty ==
    ASSUME NEW r, NEW a \in Nat, NEW b \in Nat
    PROVE  Chained(<<>>, r, a, b) <=> a = b
  <1>1. ASSUME Chained(<<>>, r, a, b) PROVE a = b
    BY <1>1 DEF Chained, Chain
  <1>2. ASSUME a = b PROVE Chained(<<>>, r, a, b)
    <2>1. [k \in 1 .. 1 |-> a] \in [1 .. Len(<<>>) + 1 -> Nat]
      OBVIOUS
    <2>2. Chain(<<>>, r, a, b, [k \in 1 .. 1 |-> a])
      BY <1>2 DEF Chain
    <2> QED
      BY <2>1, <2>2 DEF Chained
  <1> QED
    BY <1>1, <1>2

LEMMA ChainAppend ==
    ASSUME NEW s \in Seq(Chunks), NEW c \in Chunks, NEW r, NEW a \in Nat, NEW b \in Nat,
           Chained(s, r, a, b), Follows(c.data, r, b)
    PROVE  Chained(Append(s, c), r, a, b + Len(c.data))
  <1>1. PICK start \in [1 .. Len(s) + 1 -> Nat] : Chain(s, r, a, b, start)
    BY DEF Chained
  <1>2. Len(s) \in Nat /\ Len(c.data) \in Nat
    BY DEF Chunks
  <1> DEFINE t == Append(s, c)
             e == b + Len(c.data)
             next == [k \in 1 .. Len(s) + 2 |-> IF k <= Len(s) + 1 THEN start[k] ELSE e]
  <1>3. /\ Len(t) = Len(s) + 1 /\ t[Len(s) + 1] = c
        /\ \A k \in 1 .. Len(s) : t[k] = s[k]
    OBVIOUS
  <1> HIDE DEF t
  <1>4. e \in Nat /\ b <= e
    BY <1>2
  <1>5. next \in [1 .. Len(t) + 1 -> Nat]
    BY <1>2, <1>3, <1>4
  <1>6. /\ \A k \in 1 .. Len(s) + 1 : next[k] = start[k] /\ k \in 1 .. Len(s) + 2
        /\ next[Len(s) + 2] = e
    BY <1>2
  <1> HIDE DEF next
  <1>7. next[1] = a /\ next[Len(t) + 1] = e
    BY <1>1, <1>2, <1>3, <1>6 DEF Chain
  <1>8. ASSUME NEW k \in 1 .. Len(t)
        PROVE  /\ next[k + 1] = next[k] + Len(t[k].data) /\ next[k + 1] <= e
               /\ Follows(t[k].data, r, next[k])
    <2>1. CASE k \in 1 .. Len(s)
      <3>1. k \in 1 .. Len(s) + 1 /\ k + 1 \in 1 .. Len(s) + 1
        BY <1>2, <2>1
      <3>2. next[k] = start[k] /\ next[k + 1] = start[k + 1] /\ t[k] = s[k]
        BY <1>3, <1>6, <2>1, <3>1
      <3>3. /\ start[k + 1] = start[k] + Len(s[k].data) /\ start[k + 1] <= b
            /\ Follows(s[k].data, r, start[k])
        BY <1>1, <2>1 DEF Chain
      <3>4. start[k + 1] \in Nat
        BY <3>1
      <3>5. start[k + 1] <= e
        BY <1>4, <3>3, <3>4
      <3> QED
        BY <3>2, <3>3, <3>5
    <2>2. CASE k = Len(s) + 1
      <3>1. next[k] = b /\ next[k + 1] = e /\ t[k] = c
        BY <1>1, <1>2, <1>3, <1>6, <2>2 DEF Chain
      <3> QED
        BY <1>4, <3>1
    <2> QED
      BY <1>2, <1>3, <2>1, <2>2
  <1>9. Chain(t, r, a, e, next)
    BY <1>7, <1>8 DEF Chain
  <1>10. Chained(t, r, a, e)
    BY <1>5, <1>9 DEF Chained
  <1> QED
    BY <1>10 DEF t

LEMMA ChainTail ==
    ASSUME NEW s \in Seq(Chunks), s # <<>>, NEW r, NEW a \in Nat, NEW b \in Nat,
           Chained(s, r, a, b)
    PROVE  /\ Follows(Head(s).data, r, a)
           /\ a + Len(Head(s).data) \in Nat /\ a + Len(Head(s).data) <= b
           /\ Chained(Tail(s), r, a + Len(Head(s).data), b)
  <1>1. PICK start \in [1 .. Len(s) + 1 -> Nat] : Chain(s, r, a, b, start)
    BY DEF Chained
  <1>2. Len(s) \in Nat \ {0} /\ Head(s) = s[1] /\ Head(s) \in Chunks
    OBVIOUS
  <1>3. Len(Head(s).data) \in Nat
    BY <1>2 DEF Chunks
  <1> DEFINE t == Tail(s)
             m == a + Len(Head(s).data)
             next == [k \in 1 .. Len(s) |-> start[k + 1]]
  <1>4. Len(t) = Len(s) - 1 /\ \A k \in 1 .. Len(t) : t[k] = s[k + 1]
    OBVIOUS
  <1> HIDE DEF t
  <1>5. 1 \in 1 .. Len(s)
    BY <1>2
  <1>6. start[1] = a /\ start[2] = m /\ m <= b /\ Follows(Head(s).data, r, a)
    <2>1. /\ start[1 + 1] = start[1] + Len(s[1].data) /\ start[1 + 1] <= b
          /\ Follows(s[1].data, r, start[1]) /\ start[1] = a
      BY <1>1, <1>5 DEF Chain
    <2>2. 1 + 1 = 2
      OBVIOUS
    <2> QED
      BY <1>2, <2>1, <2>2
  <1>7. m \in Nat
    BY <1>3
  <1>8. next \in [1 .. Len(t) + 1 -> Nat] /\ \A k \in 1 .. Len(s) : next[k] = start[k + 1]
    BY <1>2, <1>4
  <1> HIDE DEF next
  <1>9. next[1] = m /\ next[Len(t) + 1] = b
    <2>1. next[1] = start[2] /\ next[Len(s)] = start[Len(s) + 1] /\ Len(t) + 1 = Len(s)
      BY <1>2, <1>4, <1>8
    <2> QED
      BY <1>1, <1>6, <2>1 DEF Chain
  <1>10. ASSUME NEW k \in 1 .. Len(t)
         PROVE  /\ next[k + 1] = next[k] + Len(t[k].data) /\ next[k + 1] <= b
                /\ Follows(t[k].data, r, next[k])
    <2>1. k \in 1 .. Len(s) /\ k + 1 \in 1 .. Len(s) /\ t[k] = s[k + 1]
      BY <1>2, <1>4
    <2>2. next[k] = start[k + 1] /\ next[k + 1] = start[(k + 1) + 1]
      BY <1>8, <2>1
    <2> QED
      BY <1>1, <2>1, <2>2 DEF Chain
  <1>11. Chain(t, r, m, b, next)
    BY <1>9, <1>10 DEF Chain
  <1>12. Chained(t, r, m, b)
    BY <1>8, <1>11 DEF Chained
  <1> QED
    BY <1>6, <1>7, <1>12 DEF t

LEMMA ChainBound ==
    ASSUME NEW s \in Seq(Chunks), NEW r, NEW a \in Nat, NEW b \in Nat, Chained(s, r, a, b)
    PROVE  a <= b
  <1>1. CASE s = <<>>
    BY <1>1, ChainEmpty
  <1>2. CASE s # <<>>
    <2>1. /\ Head(s) \in Chunks /\ a + Len(Head(s).data) <= b
      BY <1>2, ChainTail
    <2>2. Len(Head(s).data) \in Nat
      BY <2>1 DEF Chunks
    <2> QED
      BY <2>1, <2>2
  <1> QED
    BY <1>1, <1>2

-----------------------------------------------------------------------------
(***************************************************************************)
(* The inductive invariant.                                                *)
(***************************************************************************)

\* There is one request at most, sent or to be sent, and nothing but its data in
\* the stream, of which the last chunk is the last.
Alone ==
    /\ socket = "closed" => pending = <<>> /\ wire = <<>>
    /\ socket # "closed" => Unread = <<>> \/ Unread = pending
    /\ pending = <<>> => stream = <<>>
    /\ Unread # <<>> /\ rx = Idle => stream = <<>>
    /\ \A k \in 1 .. Len(stream) : stream[k].last => k = Len(stream) /\ wire = <<>>

\* The parser reads only what was sent, and stops at the end of a response.
Position ==
    /\ rx = Idle \/ wire # <<>>
    /\ rx.from = 0
    /\ rx.mode = "IDLE" => rx = Idle
    /\ rx.mode = "FIXED" => rx.read < rx.size
    /\ rx.mode \in {"CHUNKED", "UNTIL_CLOSE"} => rx.size = 0

\* The stream is paused if and only if a client that waits is behind.
Pauses ==
    /\ PausedHeadBlocked
    /\ \A r \in Requests : client[r] = "open" /\ blocked[r] => paused

\* The parser has not come to the response to r.
Early(r) ==
    stage[r] \in {"new", "connecting"} \/ (r \in Pending /\ Unread = pending /\ rx = Idle)

\* What a client got is its own response from the start, all of it when it is done.
Got(r) ==
    /\ heads[r] \in {<<>>, <<r>>}
    /\ Follows(body[r], r, 0)
    /\ Early(r) => heads[r] = <<>> /\ body[r] = <<>> /\ ~blocked[r] /\ writable[r] = "retry"
    /\ client[r] = "done" /\ failures[r] = 0 =>
          heads[r] # <<>> /\ (contentLength[r] > 0 => Len(body[r]) = contentLength[r])
    /\ r \in Pending /\ client[r] = "done" => Unread = <<>>

\* How much of its body r has got, or will have from the pending buffer.
Reached(r) == IF Retries(r) THEN buffer.offset + Len(buffer.data) ELSE Len(body[r])

\* The parser has read the body of r up to e.
ReadTo(r, e) ==
    /\ wire # <<>> => e = rx.read /\ contentLength[r] = rx.size
    /\ wire = <<>> /\ contentLength[r] > 0 => e = contentLength[r]

\* The body of r, the pending buffer and the stream follow one another, and the
\* handler that is registered for r knows how to go on.
Serving(r) ==
    /\ heads[r] = <<r>>
    /\ \E e \in Nat : Chained(stream, r, Reached(r), e) /\ ReadTo(r, e)
    /\ contentLength[r] > 0 =>
          writable[r] = "retry" /\ \A k \in 1 .. Len(stream) : stream[k].data # <<>>
    /\ contentLength[r] = 0 /\ blocked[r] => writable[r] # "retry"
    /\ Retries(r) => /\ buffer.total = contentLength[r]
                     /\ Follows(buffer.data, r, buffer.offset)
                     /\ Len(body[r]) < Reached(r)
    /\ blocked[r] /\ writable[r] = "end" => stream = <<>> /\ wire = <<>>

Served == \A r \in Pending : client[r] = "open" /\ ~Early(r) => Serving(r)

Orderly == Alone /\ Position /\ Pauses /\ (\A r \in Requests : Got(r)) /\ Served

SingleInvariant == Single /\ TypeOK /\ Safe /\ Orderly

LEMMA InitOrderly == Init => Orderly
  <1> SUFFICES ASSUME Init PROVE Orderly
    OBVIOUS
  <1>1. /\ pending = <<>> /\ wire = <<>> /\ immediates = <<>> /\ stream = <<>> /\ rx = Idle
        /\ ~paused /\ socket = "open"
        /\ \A r \in Requests : /\ heads[r] = <<>> /\ body[r] = <<>> /\ client[r] = "none"
                               /\ ~blocked[r] /\ writable[r] = "retry"
    BY DEF Init
  <1>2. Unread = <<>> /\ Pending = {}
    BY <1>1, EmptyToSet DEF Unread, Pending
  <1>3. Alone /\ Position
    BY <1>1, <1>2 DEF Alone, Position, Idle
  <1>4. Pauses /\ Served
    BY <1>1, <1>2 DEF Pauses, PausedHeadBlocked, Served
  <1>5. \A r \in Requests : Got(r)
    BY <1>1, <1>2 DEF Got, Follows
  <1> QED
    BY <1>3, <1>4, <1>5 DEF Orderly

-----------------------------------------------------------------------------
(***************************************************************************)
(* What the invariant says of the only request in the pipeline.            *)
(***************************************************************************)
LEMMA OneElement ==
    ASSUME NEW S, NEW s \in Seq(S), s # <<>>, Len(s) <= 1
    PROVE  \E e \in S : s = <<e>>
  <1>0. Len(s) \in Nat \ {0}
    OBVIOUS
  <1>1. Len(s) = 1
    BY <1>0
  <1>2. s[1] \in S /\ s \in [1 .. 1 -> S]
    BY <1>1
  <1>3. s = [i \in 1 .. 1 |-> s[i]] /\ \A i \in 1 .. 1 : s[i] = s[1]
    BY <1>2
  <1>4. <<s[1]>> = [i \in 1 .. 1 |-> s[1]]
    OBVIOUS
  <1> QED
    BY <1>2, <1>3, <1>4

LEMMA OnlyOne ==
    ASSUME TypeOK, Single, pending # <<>>
    PROVE  \E r \in Requests : pending = <<r>>
  <1>1. pending \in Seq(Requests) /\ MaxRequests > 0 => Len(pending) <= MaxRequests
    BY DEF TypeOK
  <1>2. pending \in Seq(Requests) /\ Len(pending) <= 1
    BY <1>1 DEF TypeOK, Single
  <1> QED
    BY <1>2, OneElement

LEMMA OnlyElement ==
    ASSUME NEW S, NEW e \in S
    PROVE  /\ <<e>> \in Seq(S) /\ <<e>> # <<>> /\ Head(<<e>>) = e /\ Tail(<<e>>) = <<>>
           /\ ToSet(<<e>>) = {e}
  <1>1. <<e>> \in Seq(S) /\ <<e>> # <<>> /\ Head(<<e>>) = e /\ Tail(<<e>>) = <<>>
    OBVIOUS
  <1>2. ToSet(<<e>>) = {e}
    BY <1>1, TailToSet, EmptyToSet
  <1> QED
    BY <1>1, <1>2

LEMMA LastTail ==
    ASSUME NEW S, NEW s \in Seq(S), Len(s) = 1
    PROVE  Tail(s) = <<>>
  <1>1. s # <<>> /\ Len(s) <= 1
    OBVIOUS
  <1>2. PICK e \in S : s = <<e>>
    BY <1>1, OneElement
  <1> QED
    BY <1>2, OnlyElement

LEMMA OnlyOneIs ==
    ASSUME NEW r \in Requests, pending = <<r>>
    PROVE  /\ pending # <<>> /\ Head(pending) = r /\ Tail(pending) = <<>> /\ Pending = {r}
  BY OnlyElement DEF Pending

LEMMA NothingUnread ==
    ASSUME TypeOK, Unread = <<>>
    PROVE  wire = <<>> /\ immediates = <<>>
  <1>1. wire \in Seq(Requests) /\ immediates \in Seq(Requests)
    BY DEF TypeOK
  <1>2. Len(wire \o immediates) = Len(wire) + Len(immediates)
        /\ Len(wire) \in Nat /\ Len(immediates) \in Nat
    BY <1>1, ConcatParts
  <1>3. Len(wire) = 0 /\ Len(immediates) = 0
    BY <1>2 DEF Unread
  <1> QED
    BY <1>1, <1>3

\* The parser reads for it.
LEMMA ReadsForIt ==
    ASSUME TypeOK, Single, Alone, wire # <<>>
    PROVE  /\ socket # "closed" /\ Unread = pending /\ immediates = <<>> /\ Tail(wire) = <<>>
           /\ \E r \in Requests : pending = <<r>> /\ wire = <<r>>
  <1>1. wire \in Seq(Requests) /\ immediates \in Seq(Requests) /\ Unread = wire \o immediates
    BY DEF TypeOK, Unread
  <1>2. Len(wire) > 0 /\ Len(wire) \in Nat /\ Len(immediates) \in Nat
        /\ Len(Unread) = Len(wire) + Len(immediates)
    BY <1>1
  <1>3. socket # "closed" /\ Unread = pending /\ pending # <<>>
    BY <1>1, <1>2 DEF Alone
  <1>4. PICK r \in Requests : pending = <<r>>
    BY <1>3, OnlyOne
  <1>5. Len(Unread) = 1
    BY <1>3, <1>4
  <1>6. Len(wire) = 1 /\ Len(immediates) = 0
    BY <1>2, <1>5
  <1>7. immediates = <<>>
    BY <1>1, <1>6
  <1>9. Unread = wire
    BY <1>1, <1>7, ConcatEmpty
  <1>8. Tail(<<r>>) = <<>>
    OBVIOUS
  <1> QED
    BY <1>3, <1>4, <1>7, <1>8, <1>9

\* Its response has been read when the parser reads no more.
LEMMA AllRead ==
    ASSUME TypeOK, Single, Alone, Position, NEW r \in Pending, ~Early(r), wire = <<>>
    PROVE  Unread = <<>>
  <1>1. pending # <<>>
    BY EmptyToSet DEF Pending
  <1> QED
    BY <1>1 DEF Alone, Position, Early

\* What is left alone stays as the invariant wants it.
LEMMA KeepGot ==
    ASSUME NEW r \in Requests, Got(r),
           heads'[r] = heads[r], body'[r] = body[r], client'[r] = client[r],
           contentLength'[r] = contentLength[r], failures'[r] = failures[r],
           blocked'[r] = blocked[r], writable'[r] = writable[r],
           Early(r)' => Early(r),
           r \in Pending' /\ client[r] = "done" => Unread' = <<>>
    PROVE  Got(r)'
  BY DEF Got, Follows

LEMMA KeepServed ==
    ASSUME NEW r \in Requests, Serving(r),
           heads'[r] = heads[r], body'[r] = body[r], client'[r] = client[r],
           contentLength'[r] = contentLength[r],
           blocked'[r] = blocked[r], writable'[r] = writable[r],
           UNCHANGED <<buffer, stream, wire, rx>>
    PROVE  Serving(r)'
  <1>1. Retries(r)' = Retries(r) /\ Reached(r)' = Reached(r)
    BY DEF Retries, Reached
  <1>2. \A e : ReadTo(r, e)' = ReadTo(r, e)
    BY DEF ReadTo
  <1> QED
    BY <1>1, <1>2 DEF Serving

-----------------------------------------------------------------------------
(***************************************************************************)
(* Requests and their clients.                                             *)
(***************************************************************************)
LEMMA HandleRequestOrderly ==
    ASSUME Single, TypeOK, Safe, Orderly, NEW r \in Requests, HandleRequest(r)
    PROVE  Orderly'
  <1>1. /\ stage[r] = "new" /\ stage' = [stage EXCEPT ![r] = "connecting"]
        /\ client' = [client EXCEPT ![r] = "open"]
        /\ UNCHANGED <<pending, paused, stream, contentLength, buffer, heads, body, blocked,
                       writable, failures, immediates, socket, wire, rx>>
    BY DEF HandleRequest, queueVars, responseVars, serverVars
  <1>2. Pending' = Pending /\ r \notin Pending /\ Unread' = Unread
    BY <1>1 DEF Pending, Unread, Safe, Progress
  <1>3. /\ client'[r] = "open" /\ stage'[r] = "connecting"
        /\ \A q \in Requests \ {r} : client'[q] = client[q] /\ stage'[q] = stage[q]
    BY <1>1 DEF TypeOK
  <1>4. Early(r) /\ ~blocked[r] /\ Got(r)
    BY <1>1 DEF Early, Orderly, Got
  <1>5. Alone' /\ Position'
    BY <1>1, <1>2 DEF Orderly, Alone, Position
  <1>6. Pauses'
    <2>1. PausedHeadBlocked'
      <3> SUFFICES ASSUME paused' PROVE pending' # <<>> /\ client'[Head(pending')] = "open"
                                                        /\ blocked'[Head(pending')]
        BY DEF PausedHeadBlocked
      <3>1. paused /\ pending # <<>> /\ client[Head(pending)] = "open" /\ blocked[Head(pending)]
        BY <1>1 DEF Orderly, Pauses, PausedHeadBlocked
      <3>2. PICK q \in Requests : q = Head(pending) /\ q \in Pending
        BY <3>1, TailToSet DEF TypeOK, Pending
      <3> QED
        BY <1>1, <1>2, <1>3, <3>1, <3>2
    <2>2. \A q \in Requests : client'[q] = "open" /\ blocked'[q] => paused'
      BY <1>1, <1>3, <1>4 DEF Orderly, Pauses
    <2> QED
      BY <2>1, <2>2 DEF Pauses
  <1>7. ASSUME NEW q \in Requests \ {r} PROVE Early(q)' = Early(q)
    BY <1>1, <1>2, <1>3 DEF Early
  <1>8. ASSUME NEW q \in Requests PROVE Got(q)'
    <2>1. CASE q = r
      BY <1>1, <1>2, <1>3, <1>4, <2>1 DEF Got, Follows
    <2>2. CASE q # r
      <3>1. Got(q)
        BY DEF Orderly
      <3>2. q \in Pending' /\ client[q] = "done" => Unread' = <<>>
        BY <1>2, <3>1 DEF Got
      <3> QED
        BY <1>1, <1>3, <1>7, <2>2, <3>1, <3>2, KeepGot
    <2> QED
      BY <2>1, <2>2
  <1>9. ASSUME NEW q \in Pending', client'[q] = "open", ~Early(q)' PROVE Serving(q)'
    <2>1. q \in Pending /\ q \in Requests /\ q # r
      BY <1>2, PendingType
    <2>2. Serving(q)
      BY <1>3, <1>7, <1>9, <2>1 DEF Orderly, Served
    <2> QED
      BY <1>1, <1>3, <2>1, <2>2, KeepServed
  <1> QED
    BY <1>5, <1>6, <1>8, <1>9 DEF Orderly, Served

LEMMA RefuseOrderly ==
    ASSUME Single, TypeOK, Safe, Orderly, NEW r \in Requests, ScheduleSend(r), Refuse(r)
    PROVE  Orderly'
  <1>1. /\ stage[r] = "connecting" /\ stage' = [stage EXCEPT ![r] = "refused"]
        /\ client' = EndResponse(r) /\ failures' = [failures EXCEPT ![r] = @ + 1]
        /\ UNCHANGED <<pending, paused, stream, contentLength, buffer, heads, body, blocked,
                       writable, immediates, socket, wire, rx>>
    BY DEF ScheduleSend, Refuse, queueVars, responseVars, serverVars
  <1>2. Pending' = Pending /\ r \notin Pending /\ Unread' = Unread /\ failures[r] = 0
    BY <1>1 DEF Pending, Unread, Safe, Progress
  <1>3. /\ failures'[r] = 1 /\ stage'[r] = "refused" /\ client'[r] # "open"
        /\ \A q \in Requests \ {r} : /\ client'[q] = client[q] /\ stage'[q] = stage[q]
                                     /\ failures'[q] = failures[q]
    BY <1>1, <1>2 DEF TypeOK, EndResponse, Ended
  <1>4. Got(r)
    BY DEF Orderly
  <1>5. Alone' /\ Position'
    BY <1>1, <1>2 DEF Orderly, Alone, Position
  <1>6. Pauses'
    <2>1. PausedHeadBlocked'
      <3> SUFFICES ASSUME paused' PROVE pending' # <<>> /\ client'[Head(pending')] = "open"
                                                        /\ blocked'[Head(pending')]
        BY DEF PausedHeadBlocked
      <3>1. paused /\ pending # <<>> /\ client[Head(pending)] = "open" /\ blocked[Head(pending)]
        BY <1>1 DEF Orderly, Pauses, PausedHeadBlocked
      <3>2. PICK q \in Requests : q = Head(pending) /\ q \in Pending
        BY <3>1, TailToSet DEF TypeOK, Pending
      <3> QED
        BY <1>1, <1>2, <1>3, <3>1, <3>2
    <2>2. \A q \in Requests : client'[q] = "open" /\ blocked'[q] => paused'
      BY <1>1, <1>3 DEF Orderly, Pauses
    <2> QED
      BY <2>1, <2>2 DEF Pauses
  <1>7. ASSUME NEW q \in Requests \ {r} PROVE Early(q)' = Early(q)
    BY <1>1, <1>2, <1>3 DEF Early
  <1>8. ASSUME NEW q \in Requests PROVE Got(q)'
    <2>1. CASE q = r
      <3>1. ~Early(r)'
        BY <1>2, <1>3 DEF Early
      <3> QED
        BY <1>1, <1>2, <1>3, <1>4, <2>1, <3>1 DEF Got, Follows
    <2>2. CASE q # r
      <3>1. Got(q)
        BY DEF Orderly
      <3>2. q \in Pending' /\ client[q] = "done" => Unread' = <<>>
        BY <1>2, <3>1 DEF Got
      <3> QED
        BY <1>1, <1>3, <1>7, <2>2, <3>1, <3>2, KeepGot
    <2> QED
      BY <2>1, <2>2
  <1>9. ASSUME NEW q \in Pending', client'[q] = "open", ~Early(q)' PROVE Serving(q)'
    <2>1. q \in Pending /\ q \in Requests /\ q # r
      BY <1>2, PendingType
    <2>2. Serving(q)
      BY <1>3, <1>7, <1>9, <2>1 DEF Orderly, Served
    <2> QED
      BY <1>1, <1>3, <2>1, <2>2, KeepServed
  <1> QED
    BY <1>5, <1>6, <1>8, <1>9 DEF Orderly, Served

\* Whoever is not in the pipeline is left alone.
LEMMA KeepOthers ==
    ASSUME NEW q \in Requests, Got(q), q \notin Pending', stage'[q] = stage[q],
           heads'[q] = heads[q], body'[q] = body[q], client'[q] = client[q],
           contentLength'[q] = contentLength[q], failures'[q] = failures[q],
           blocked'[q] = blocked[q], writable'[q] = writable[q]
    PROVE  Got(q)'
  <1>1. Early(q)' => Early(q)
    BY DEF Early
  <1> QED
    BY <1>1, KeepGot

LEMMA EnqueueOrderly ==
    ASSUME Single, TypeOK, Safe, Orderly, NEW r \in Requests, ScheduleSend(r), ~Full,
           socket # "closed", Enqueue(r)
    PROVE  Orderly'
  <1>1. /\ stage[r] = "connecting" /\ stage' = [stage EXCEPT ![r] = "queued"]
        /\ pending' = Append(pending, r) /\ immediates' = Append(immediates, r)
        /\ UNCHANGED <<paused, stream, contentLength, buffer, heads, body, blocked,
                       writable, failures, client, socket, wire, rx>>
    BY DEF ScheduleSend, Enqueue, responseVars, serverVars
  <1>2. pending \in Seq(Requests) /\ wire \in Seq(Requests) /\ immediates \in Seq(Requests)
    BY DEF TypeOK
  <1>3. pending = <<>>
    <2>1. Len(pending) \in Nat /\ Len(pending) < 1
      BY <1>2 DEF Full, Single
    <2> QED
      BY <1>2, <2>1
  <1>4. Unread = <<>> /\ stream = <<>>
    BY <1>3 DEF Orderly, Alone
  <1>5. wire = <<>> /\ immediates = <<>>
    BY <1>4, NothingUnread
  <1>6. rx = Idle
    BY <1>5 DEF Orderly, Position
  <1>7. pending' = <<r>> /\ immediates' = <<r>> /\ wire' = <<>>
    BY <1>1, <1>3, <1>5
  <1>8. Unread' = pending' /\ rx' = Idle /\ stream' = <<>>
    <2>1. <<r>> \in Seq(Requests) /\ <<>> \o <<r>> = <<r>>
      OBVIOUS
    <2> QED
      BY <1>1, <1>4, <1>6, <1>7, <2>1 DEF Unread
  <1>9. ~paused
    BY <1>3 DEF Orderly, Pauses, PausedHeadBlocked
  <1>10. /\ stage'[r] = "queued"
         /\ \A q \in Requests \ {r} : stage'[q] = stage[q] /\ q \notin Pending'
    <2>1. ToSet(<<r>>) = {r}
      BY OnlyElement
    <2> QED
      BY <1>1, <1>7, <2>1 DEF TypeOK, Pending
  <1>11. r \in Pending' /\ Early(r)' /\ Early(r) /\ failures[r] = 0
    <2>1. r \in Pending'
      BY <1>7, OnlyElement DEF Pending
    <2> QED
      BY <1>1, <1>8, <2>1 DEF Early, Safe, Progress
  <1>12. Alone' /\ Position'
    BY <1>1, <1>5, <1>7, <1>8, <1>10, <1>11 DEF Alone, Position, Idle
  <1>13. Pauses'
    BY <1>1, <1>9 DEF Orderly, Pauses, PausedHeadBlocked
  <1>14. Got(r)'
    <2>1. Got(r) /\ ~(client[r] = "done")
      BY <1>11 DEF Orderly, Got
    <2> QED
      BY <1>1, <1>11, <2>1, KeepGot
  <1>15. ASSUME NEW q \in Requests \ {r} PROVE Got(q)'
    BY <1>1, <1>10, KeepOthers DEF Orderly
  <1>16. Served'
    <2>1. \A q \in Pending' : q = r
      BY <1>7, OnlyElement DEF Pending
    <2> QED
      BY <1>11, <2>1 DEF Served
  <1> QED
    BY <1>12, <1>13, <1>14, <1>15, <1>16 DEF Orderly

LEMMA AbortOrderly ==
    ASSUME Single, TypeOK, Safe, Safe', Orderly, NEW r \in Requests, Abort(r)
    PROVE  Orderly'
  <1>1. /\ client[r] = "open" /\ client' = [client EXCEPT ![r] = "aborted"]
        /\ UNCHANGED <<pending, stream, contentLength, buffer, heads, body, blocked,
                       writable, stage, failures, immediates, socket, wire, rx>>
    BY DEF Abort, requestVars, serverVars
  <1>2. /\ client'[r] = "aborted"
        /\ \A q \in Requests \ {r} : client'[q] = client[q]
    BY <1>1 DEF TypeOK
  <1>3. Pending' = Pending /\ Unread' = Unread /\ \A q \in Requests : Early(q)' = Early(q)
    BY <1>1 DEF Pending, Unread, Early
  <1>4. Alone' /\ Position'
    BY <1>1, <1>3 DEF Orderly, Alone, Position
  <1>5. Pauses'
    <2>1. CASE stage[r] = "connecting" /\ UNCHANGED paused
      <3>1. r \notin Pending
        BY <2>1 DEF Safe, Progress
      <3>2. ASSUME paused' PROVE pending' # <<>> /\ client'[Head(pending')] = "open"
                                                 /\ blocked'[Head(pending')]
        <4>1. paused /\ pending # <<>> /\ client[Head(pending)] = "open" /\ blocked[Head(pending)]
          BY <2>1, <3>2 DEF Orderly, Pauses, PausedHeadBlocked
        <4>2. Head(pending) \in Requests \ {r}
          <5>1. pending \in Seq(Requests)
            BY DEF TypeOK
          <5> QED
            BY <3>1, <4>1, <5>1, TailToSet DEF Pending
        <4> QED
          BY <1>1, <1>2, <4>1, <4>2
      <3>3. \A q \in Requests : client'[q] = "open" /\ blocked'[q] => paused'
        BY <1>1, <1>2, <2>1 DEF Orderly, Pauses
      <3> QED
        BY <3>2, <3>3 DEF Pauses, PausedHeadBlocked
    <2>2. CASE stage[r] = "queued" /\ ~paused'
      <3>1. r \in Pending
        BY <1>1, <2>2 DEF Safe, NoOrphan
      <3>2. pending # <<>>
        BY <3>1, EmptyToSet DEF Pending
      <3>3. PICK h \in Requests : pending = <<h>>
        BY <3>2, OnlyOne
      <3>4. h = r /\ Head(pending) = r
        BY <3>1, <3>3, OnlyOneIs
      <3>5. \A q \in Requests : ~(client'[q] = "open" /\ blocked'[q])
        BY <1>1, <1>2, <3>4 DEF Safe, BlockedIsHead
      <3> QED
        BY <2>2, <3>5 DEF Pauses, PausedHeadBlocked
    <2> QED
      BY <2>1, <2>2 DEF Abort
  <1>6. Got(r)'
    <2>1. Got(r)
      BY DEF Orderly
    <2> QED
      BY <1>1, <1>2, <1>3, <2>1 DEF Got, Follows
  <1>7. ASSUME NEW q \in Requests \ {r} PROVE Got(q)'
    <2>1. Got(q)
      BY DEF Orderly
    <2>2. q \in Pending' /\ client[q] = "done" => Unread' = <<>>
      BY <1>3, <2>1 DEF Got
    <2> QED
      BY <1>1, <1>2, <1>3, <2>1, <2>2, KeepGot
  <1>8. ASSUME NEW q \in Pending', client'[q] = "open", ~Early(q)' PROVE Serving(q)'
    <2>1. q \in Pending /\ q \in Requests /\ q # r
      BY <1>2, <1>3, <1>8, PendingType
    <2>2. Serving(q)
      BY <1>2, <1>3, <1>8, <2>1 DEF Orderly, Served
    <2> QED
      BY <1>1, <1>2, <2>1, <2>2, KeepServed
  <1> QED
    BY <1>4, <1>5, <1>6, <1>7, <1>8 DEF Orderly, Served

-----------------------------------------------------------------------------
(***************************************************************************)
(* The socket.                                                             *)
(***************************************************************************)

\* Pipeline.close leaves nothing to be served.
LEMMA CloseOrderly ==
    ASSUME Single, TypeOK, Safe, Safe', Orderly, CloseAll, stage' = stage, rx' = Idle,
           wire' = <<>>, Unread' = <<>> \/ socket' = "closed"
    PROVE  Orderly'
  <1>1. /\ pending' = <<>> /\ stream' = <<>> /\ ~paused'
        /\ UNCHANGED <<contentLength, buffer, heads, body, blocked, writable>>
    BY DEF CloseAll, responseVars
  <1>2. /\ \A q \in Requests : \/ failures'[q] = failures[q] /\ client'[q] = client[q]
                               \/ failures'[q] = failures[q] + 1
        /\ \A q \in Requests : failures[q] \in Nat
    <2>1. \A q \in Requests : failures[q] \in Nat
      BY DEF TypeOK
    <2>2. ASSUME NEW q \in Requests
          PROVE  \/ failures'[q] = failures[q] /\ client'[q] = client[q]
                 \/ failures'[q] = failures[q] + 1
      <3>1. CASE q \in Pending /\ ~stale[q]
        BY <3>1 DEF CloseAll
      <3>2. CASE ~(q \in Pending /\ ~stale[q])
        BY <2>1, <3>2 DEF CloseAll
      <3> QED
        BY <3>1, <3>2
    <2> QED
      BY <2>1, <2>2
  <1>3. Pending' = {}
    BY <1>1, EmptyToSet DEF Pending
  <1>4. Alone' /\ Position'
    BY <1>1 DEF Alone, Position, Idle
  <1>5. Pauses'
    BY <1>1 DEF Pauses, PausedHeadBlocked, Safe, BlockedIsHead
  <1>6. ASSUME NEW q \in Requests PROVE Got(q)'
    <2>1. Got(q)
      BY DEF Orderly
    <2>2. CASE failures'[q] = failures[q] /\ client'[q] = client[q]
      BY <1>1, <1>3, <2>1, <2>2, KeepOthers
    <2>3. CASE failures'[q] = failures[q] + 1
      <3>1. failures'[q] # 0
        BY <1>2, <2>3
      <3>2. Early(q)' => Early(q)
        BY <1>3 DEF Early
      <3> QED
        BY <1>1, <1>3, <2>1, <3>1, <3>2 DEF Got, Follows
    <2> QED
      BY <1>2, <2>2, <2>3
  <1>7. Served'
    BY <1>3 DEF Served
  <1> QED
    BY <1>4, <1>5, <1>6, <1>7 DEF Orderly

\* Nothing changes but where the only request is: still to be sent, or on the wire.
LEMMA SentOrderly ==
    ASSUME TypeOK, Safe, Orderly, Unread' = Unread, rx' = rx,
           wire' = wire \/ (wire' # <<>> /\ rx = Idle /\ stream = <<>> /\ Unread = pending),
           socket' # "closed",  socket # "closed",
           UNCHANGED <<pending, paused, stream, contentLength, buffer, client, heads, body,
                       blocked, writable, stage, failures>>
    PROVE  Orderly'
  <1>1. Pending' = Pending /\ \A q \in Requests : Early(q)' = Early(q)
    BY DEF Pending, Early
  <1>2. Alone' /\ Position' /\ Pauses'
    <2>1. Alone /\ Position /\ Pauses
      BY DEF Orderly
    <2>2. Alone'
      <3>1. CASE wire' = wire
        BY <2>1, <3>1 DEF Alone
      <3>2. CASE wire' # <<>> /\ rx = Idle /\ stream = <<>> /\ Unread = pending
        BY <2>1, <3>2 DEF Alone
      <3> QED
        BY <3>1, <3>2
    <2>3. Position' /\ Pauses'
      BY <2>1 DEF Position, Pauses, PausedHeadBlocked
    <2> QED
      BY <2>2, <2>3
  <1>3. ASSUME NEW q \in Requests PROVE Got(q)'
    <2>1. Got(q)
      BY DEF Orderly
    <2>2. q \in Pending' /\ client[q] = "done" => Unread' = <<>>
      BY <1>1, <2>1 DEF Got
    <2> QED
      BY <1>1, <2>1, <2>2, KeepGot
  <1>4. ASSUME NEW q \in Pending', client'[q] = "open", ~Early(q)' PROVE Serving(q)'
    <2>1. q \in Pending /\ q \in Requests /\ ~Early(q)
      BY <1>1, <1>4, PendingType
    <2>2. Serving(q)
      BY <1>4, <2>1 DEF Orderly, Served
    <2>3. wire' = wire
      BY <2>1 DEF Early
    <2> QED
      BY <2>1, <2>2, <2>3, KeepServed
  <1> QED
    BY <1>2, <1>3, <1>4 DEF Orderly, Served

LEMMA SendOrderly ==
    ASSUME Single, TypeOK, Safe, Safe', Orderly, Send
    PROVE  Orderly'
  <1>1. immediates # <<>> /\ immediates' = Tail(immediates) /\ stage' = stage
    BY DEF Send
  <1>2. wire \in Seq(Requests) /\ immediates \in Seq(Requests)
    BY DEF TypeOK
  <1>3. CASE socket = "open" /\ wire' = Append(wire, Head(immediates))
             /\ UNCHANGED <<queueVars, contentLength, stream, buffer, client,
                            responseVars, failures, socket, rx>>
    <2>1. Unread' = Unread
      BY <1>1, <1>2, <1>3, MoveHead DEF Unread
    <2>2. Len(Unread) = Len(wire) + Len(immediates) /\ Len(wire) \in Nat
          /\ Len(immediates) \in Nat \ {0}
      BY <1>1, <1>2, ConcatParts DEF Unread
    <2>3. Unread # <<>> /\ Unread = pending
      BY <1>3, <2>2 DEF Orderly, Alone
    <2>4. wire = <<>>
      <3>1. PICK r \in Requests : pending = <<r>>
        BY <2>3, OnlyOne
      <3>2. Len(Unread) = 1
        BY <2>3, <3>1
      <3> QED
        BY <1>2, <2>2, <3>2
    <2>5. rx = Idle /\ stream = <<>>
      BY <2>3, <2>4 DEF Orderly, Alone, Position
    <2>6. wire' # <<>>
      BY <1>1, <1>2, <1>3
    <2> QED
      BY <1>1, <1>3, <2>1, <2>3, <2>5, <2>6, SentOrderly DEF queueVars, responseVars
  <1>4. CASE CloseAll /\ socket' = "closed" /\ wire' = <<>> /\ rx' = Idle
    BY <1>1, <1>4, CloseOrderly
  <1>5. CASE socket = "closed"
             /\ UNCHANGED <<queueVars, contentLength, stream, buffer, client,
                            responseVars, failures, serverVars>>
    <2>1. UNCHANGED <<pending, paused, stream, contentLength, buffer, client, heads, body,
                      blocked, writable, failures, socket, wire, rx>>
      BY <1>5 DEF queueVars, responseVars, serverVars
    <2>2. pending = <<>> /\ wire = <<>> /\ stream = <<>> /\ Pending' = {}
      BY <1>5, <2>1, EmptyToSet DEF Orderly, Alone, Pending
    <2>3. Alone' /\ Position' /\ Pauses'
      BY <1>5, <2>1, <2>2
      DEF Orderly, Alone, Position, Pauses, PausedHeadBlocked
    <2>4. \A q \in Requests : Got(q)'
      BY <1>1, <2>1, <2>2, KeepOthers DEF Orderly
    <2> QED
      BY <2>2, <2>3, <2>4 DEF Orderly, Served
  <1> QED
    BY <1>3, <1>4, <1>5 DEF Send

LEMMA ConnectionOrderly ==
    ASSUME Single, TypeOK, Safe, Safe', Orderly, Send \/ ParserError \/ EndSocket \/ SocketClosed
    PROVE  Orderly'
  <1>1. CASE EndSocket
    <2>1. /\ UNCHANGED <<pending, paused, stream, contentLength, buffer, client, heads, body,
                         blocked, writable, stage, failures, immediates, wire, rx>>
          /\ socket = "open" /\ socket' = "ending"
      BY <1>1 DEF EndSocket, queueVars, responseVars, requestVars
    <2> QED
      BY <2>1, SentOrderly DEF Unread
  <1>2. CASE SocketClosed
    BY <1>2, CloseOrderly DEF SocketClosed
  <1>3. CASE ParserError
    BY <1>3 DEF ParserError, Single
  <1> QED
    BY <1>1, <1>2, <1>3, SendOrderly

-----------------------------------------------------------------------------
(***************************************************************************)
(* The headers of the response.                                            *)
(***************************************************************************)
LEMMA HeadersOrderly ==
    ASSUME Single, TypeOK, Safe, Safe', Orderly,
           NEW mode \in {"EMPTY", "FIXED", "CHUNKED", "UNTIL_CLOSE"}, NEW size \in 0 .. MaxBody,
           Headers(mode, size)
    PROVE  Orderly'
  <1>1. /\ wire # <<>> /\ rx = Idle /\ (size > 0 <=> mode = "FIXED")
        /\ UNCHANGED <<stream, buffer, body, blocked, writable, stage, failures, immediates,
                       socket>>
    BY DEF Headers, requestVars, Orderly, Position
  <1>2. /\ socket # "closed" /\ Unread = pending /\ immediates = <<>> /\ Tail(wire) = <<>>
    BY <1>1, ReadsForIt DEF Orderly
  <1>3. PICK r \in Requests : pending = <<r>> /\ wire = <<r>>
    BY <1>1, ReadsForIt DEF Orderly
  <1>4. /\ pending # <<>> /\ Head(pending) = r /\ Tail(pending) = <<>> /\ Pending = {r}
        /\ Head(wire) = r
    BY <1>3, OnlyOneIs
  <1>5. stream = <<>>
    BY <1>1, <1>2, <1>4 DEF Orderly, Alone
  <1>6. Early(r) /\ Got(r)
    BY <1>1, <1>2, <1>4 DEF Early, Orderly
  <1>7. /\ heads[r] = <<>> /\ body[r] = <<>> /\ ~blocked[r] /\ writable[r] = "retry"
        /\ client[r] # "done"
    BY <1>2, <1>4, <1>6 DEF Got
  <1>8. ~paused
    BY <1>4, <1>7 DEF Orderly, Pauses, PausedHeadBlocked
  <1>9. GiveHeaders(r, mode, size)
    BY <1>4 DEF Headers
  <1>10. /\ heads'[r] = IF client[r] = "open" THEN <<r>> ELSE <<>>
         /\ contentLength'[r] = size
         /\ \A q \in Requests \ {r} : heads'[q] = heads[q] /\ contentLength'[q] = contentLength[q]
    <2>1. Append(<<>>, r) = <<r>>
      OBVIOUS
    <2> QED
      BY <1>4, <1>7, <1>9, <2>1 DEF GiveHeaders, TypeOK
  <1>11. stage[r] \notin {"new", "connecting"}
    BY <1>4 DEF Safe, Progress
  <1>12. Follows(body'[r], r, 0)
    BY <1>1, <1>7 DEF Follows
  <1>13. CASE mode = "EMPTY"
    <2>1. /\ wire' = <<>> /\ rx' = Idle /\ pending' = <<>> /\ ~paused'
          /\ client' = EndResponse(r)
      <3>1. EndOfResponse(0)
        BY <1>13 DEF Headers
      <3>2. wire' = <<>> /\ rx' = Idle
        BY <1>2, <3>1, InStep DEF Orderly, Position
      <3> QED
        BY <1>4, <1>9, <1>13, <3>2 DEF GiveHeaders, TerminateRequest
    <2>2. Unread' = <<>> /\ Pending' = {}
      BY <1>1, <1>2, <2>1, EmptyToSet, ConcatEmpty DEF Unread, Pending
    <2>3. /\ client'[r] = Ended(client[r])
          /\ \A q \in Requests \ {r} : client'[q] = client[q]
      BY <2>1 DEF EndResponse, TypeOK
    <2>4. Alone' /\ Position'
      BY <1>1, <1>2, <1>5, <2>1, <2>2 DEF Alone, Position, Idle
    <2>5. Pauses'
      BY <2>1 DEF Pauses, PausedHeadBlocked, Safe, BlockedIsHead
    <2>6. Got(r)'
      <3>1. ~Early(r)'
        BY <1>1, <1>11, <2>2 DEF Early
      <3>2. client'[r] = "done" => client[r] = "open"
        BY <1>7, <2>3 DEF Ended
      <3>3. size = 0
        BY <1>1, <1>13
      <3> QED
        BY <1>10, <1>12, <2>2, <3>1, <3>2, <3>3 DEF Got
    <2>7. \A q \in Requests \ {r} : Got(q)'
      BY <1>1, <1>10, <2>2, <2>3, KeepOthers DEF Orderly
    <2> QED
      BY <2>2, <2>4, <2>5, <2>6, <2>7 DEF Orderly, Served
  <1>14. CASE mode # "EMPTY"
    <2>1. /\ wire' = wire /\ rx' = [rx EXCEPT !.mode = mode, !.size = size]
          /\ UNCHANGED <<pending, paused, client>>
      BY <1>9, <1>14 DEF Headers, GiveHeaders
    <2>2. /\ rx'.mode = mode /\ rx'.size = size /\ rx'.read = 0 /\ rx'.from = 0
          /\ rx' # Idle
      BY <1>1, <1>14, <2>1 DEF Idle
    <2>3. Unread' = Unread /\ Pending' = Pending
      BY <1>1, <2>1 DEF Unread, Pending
    <2>4. Alone' /\ Position'
      <3>1. size \in Nat /\ (mode # "FIXED" => size = 0)
        BY <1>1
      <3>2. Alone'
        BY <1>1, <1>2, <1>5, <2>1, <2>3 DEF Alone
      <3> QED
        BY <1>1, <1>14, <2>1, <2>2, <3>1, <3>2 DEF Position
    <2>5. Pauses'
      BY <1>1, <2>1 DEF Orderly, Pauses, PausedHeadBlocked
    <2>6. ~Early(r)'
      BY <1>1, <1>11, <2>2 DEF Early
    <2>7. Got(r)'
      BY <1>7, <1>10, <1>12, <2>1, <2>6 DEF Got
    <2>8. \A q \in Requests \ {r} : Got(q)'
      BY <1>1, <1>4, <1>10, <2>1, <2>3, KeepOthers DEF Orderly
    <2>9. ASSUME client'[r] = "open" PROVE Serving(r)'
      <3>1. heads'[r] = <<r>>
        BY <1>10, <2>1, <2>9
      <3>2. ~Retries(r)' /\ ~blocked'[r]
        BY <1>1, <1>7 DEF Retries
      <3>3. Reached(r)' = 0
        BY <1>1, <1>7, <3>2 DEF Reached
      <3>4. Chained(stream', r, Reached(r)', 0)
        BY <1>1, <1>5, <3>3, ChainEmpty
      <3>5. ReadTo(r, 0)'
        BY <1>1, <1>10, <2>1, <2>2 DEF ReadTo
      <3> QED
        BY <1>1, <1>5, <1>7, <3>1, <3>2, <3>4, <3>5 DEF Serving
    <2>10. Served'
      BY <1>4, <2>3, <2>9 DEF Served
    <2> QED
      BY <2>4, <2>5, <2>7, <2>8, <2>10 DEF Orderly
  <1> QED
    BY <1>13, <1>14

-----------------------------------------------------------------------------
(***************************************************************************)
(* A chunk of the body is handed on.                                       *)
(***************************************************************************)

\* The body of r grows by what follows it.
LEMMA BodyFollows ==
    ASSUME TypeOK, NEW r \in Requests, NEW s \in Seq(Units),
           Follows(body[r], r, 0), Follows(s, r, Len(body[r])),
           body' = [body EXCEPT ![r] = @ \o s]
    PROVE  /\ Follows(body'[r], r, 0)
           /\ Len(body'[r]) = Len(body[r]) + Len(s)
           /\ Len(body[r]) \in Nat /\ Len(s) \in Nat
           /\ \A q \in Requests \ {r} : body'[q] = body[q]
  <1>1. body \in [Requests -> Seq(Units)]
    BY DEF TypeOK
  <1>2. /\ body'[r] = body[r] \o s
        /\ \A q \in Requests \ {r} : body'[q] = body[q]
    BY <1>1
  <1>3. /\ Len(body'[r]) = Len(body[r]) + Len(s)
        /\ Len(body[r]) \in Nat /\ Len(s) \in Nat
        /\ \A i \in 1 .. Len(body[r]) : body'[r][i] = body[r][i]
        /\ \A i \in 1 .. Len(s) : body'[r][Len(body[r]) + i] = s[i]
    BY <1>1, <1>2, ConcatParts
  <1>4. ASSUME NEW i \in 1 .. Len(body'[r]) PROVE body'[r][i] = <<r, 0 + i>>
    <2>1. CASE i <= Len(body[r])
      <3>1. i \in 1 .. Len(body[r])
        BY <1>3, <2>1
      <3> QED
        BY <1>3, <3>1 DEF Follows
    <2>2. CASE i > Len(body[r])
      <3> DEFINE j == i - Len(body[r])
      <3>1. j \in 1 .. Len(s) /\ Len(body[r]) + j = i /\ 0 + i = i
        BY <1>3, <2>2
      <3> HIDE DEF j
      <3>2. body'[r][i] = s[j] /\ s[j] = <<r, Len(body[r]) + j>>
        BY <1>3, <3>1 DEF Follows
      <3> QED
        BY <3>1, <3>2
    <2> QED
      BY <1>3, <2>1, <2>2
  <1>5. Follows(body'[r], r, 0)
    BY <1>4 DEF Follows
  <1> QED
    BY <1>2, <1>3, <1>5

\* r goes on: its body and the pending buffer now reach to the end of data.
GoesOn(r, data, last) ==
    /\ pending' = pending /\ client' = client
    /\ paused' <=> blocked'[r]
    /\ Reached(r)' = Len(body[r]) + Len(data)
    /\ contentLength[r] > 0 => writable'[r] = "retry"
    /\ contentLength[r] = 0 /\ blocked'[r] => writable'[r] # "retry"
    /\ Retries(r)' => /\ buffer'.total = contentLength[r]
                      /\ Follows(buffer'.data, r, buffer'.offset)
                      /\ Len(body'[r]) < Reached(r)'
    /\ blocked'[r] /\ writable'[r] = "end" => last

\* The response to r ends with data.
EndsWith(r, data, last) ==
    /\ pending' = <<>> /\ ~paused' /\ client' = EndResponse(r)
    /\ IF contentLength[r] = 0
       THEN last
       ELSE contentLength[r] = Len(body'[r]) /\ contentLength[r] = Len(body[r]) + Len(data)

\* No response but that of r is touched.
TouchesOnly(r) ==
    \A q \in Requests \ {r} : /\ body'[q] = body[q] /\ client'[q] = client[q]
                              /\ blocked'[q] = blocked[q] /\ writable'[q] = writable[q]

LEMMA SendStreamChunkServes ==
    ASSUME TypeOK, NEW r \in Requests, pending = <<r>>, client[r] = "open",
           ~paused, ~blocked[r], contentLength[r] = 0, Follows(body[r], r, 0),
           NEW data \in Seq(Units), NEW last \in BOOLEAN, Follows(data, r, Len(body[r])),
           SendStreamChunk(r, data, last)
    PROVE  /\ Follows(body'[r], r, 0) /\ TouchesOnly(r)
           /\ GoesOn(r, data, last) \/ EndsWith(r, data, last)
  <1>1. body' = [body EXCEPT ![r] = @ \o data] /\ buffer' = buffer
    BY DEF SendStreamChunk
  <1>2. /\ Follows(body'[r], r, 0) /\ Len(body'[r]) = Len(body[r]) + Len(data)
        /\ \A q \in Requests \ {r} : body'[q] = body[q]
    BY <1>1, BodyFollows
  <1>3. CASE /\ IF last THEN TerminateRequest ELSE UNCHANGED queueVars
             /\ client' = IF last THEN EndResponse(r) ELSE client
             /\ UNCHANGED <<blocked, writable>>
    <2>1. CASE last
      <3>1. pending' = <<>> /\ ~paused' /\ client' = EndResponse(r)
        BY <1>3, <2>1, OnlyOneIs DEF TerminateRequest
      <3>2. TouchesOnly(r)
        BY <1>2, <1>3, <3>1 DEF TouchesOnly, EndResponse, TypeOK
      <3> QED
        BY <1>2, <2>1, <3>1, <3>2 DEF EndsWith
    <2>2. CASE ~last
      <3>1. UNCHANGED <<pending, paused, client, blocked, writable>>
        BY <1>3, <2>2 DEF queueVars
      <3>2. ~Retries(r)' /\ ~blocked'[r]
        BY <3>1 DEF Retries
      <3>3. Reached(r)' = Len(body[r]) + Len(data)
        BY <1>2, <3>2 DEF Reached
      <3>4. contentLength[r] > 0 => writable'[r] = "retry"
        OBVIOUS
      <3>5. GoesOn(r, data, last)
        BY <3>1, <3>2, <3>3, <3>4 DEF GoesOn
      <3> QED
        BY <1>2, <3>1, <3>5 DEF TouchesOnly
    <2> QED
      BY <2>1, <2>2
  <1>4. CASE /\ paused' = TRUE
             /\ blocked' = [blocked EXCEPT ![r] = TRUE]
             /\ writable' = [writable EXCEPT ![r] = IF last THEN "end" ELSE "resume"]
             /\ UNCHANGED <<pending, lock, client>>
    <2>1. /\ blocked'[r] = TRUE /\ writable'[r] = IF last THEN "end" ELSE "resume"
          /\ \A q \in Requests \ {r} : blocked'[q] = blocked[q] /\ writable'[q] = writable[q]
      BY <1>4 DEF TypeOK
    <2>2. ~Retries(r)'
      BY <2>1 DEF Retries
    <2>3. Reached(r)' = Len(body[r]) + Len(data)
      BY <1>2, <2>2 DEF Reached
    <2>4. contentLength[r] > 0 => writable'[r] = "retry"
      OBVIOUS
    <2>5. GoesOn(r, data, last)
      BY <1>4, <2>1, <2>2, <2>3, <2>4 DEF GoesOn
    <2> QED
      BY <1>2, <1>4, <2>1, <2>5 DEF TouchesOnly
  <1> QED
    BY <1>3, <1>4 DEF SendStreamChunk

LEMMA SendChunkServes ==
    ASSUME TypeOK, NEW r \in Requests, pending = <<r>>, client[r] = "open",
           ~paused, ~blocked[r], contentLength[r] > 0, writable[r] = "retry",
           Follows(body[r], r, 0),
           NEW data \in Seq(Units), NEW last \in BOOLEAN, Follows(data, r, Len(body[r])),
           Len(body[r]) + Len(data) <= contentLength[r],
           SendChunk(r, data, contentLength[r])
    PROVE  /\ Follows(body'[r], r, 0) /\ TouchesOnly(r)
           /\ GoesOn(r, data, last) \/ EndsWith(r, data, last)
  <1>1. PICK n \in Accepted(data) : SendChunk(r, data, contentLength[r])!(n)
    BY DEF SendChunk
  <1>2. n \in 0 .. Len(data) /\ Len(data) \in Nat /\ contentLength[r] \in Nat
    BY <1>1 DEF Accepted, TypeOK
  <1> DEFINE s == SubSeq(data, 1, n)
  <1>3. s \in Seq(Units) /\ Len(s) = n /\ \A i \in 1 .. n : s[i] = data[i]
    BY <1>2, FirstOf
  <1>4. body' = [body EXCEPT ![r] = @ \o s] /\ writable' = writable
    BY <1>1
  <1> HIDE DEF s
  <1>5. Follows(s, r, Len(body[r]))
    BY <1>2, <1>3 DEF Follows
  <1>6. /\ Follows(body'[r], r, 0) /\ Len(body'[r]) = Len(body[r]) + n
        /\ Len(body[r]) \in Nat
        /\ \A q \in Requests \ {r} : body'[q] = body[q]
    BY <1>3, <1>4, <1>5, BodyFollows
  <1>7. CASE Len(body[r]) + n = contentLength[r]
    <2>1. TerminateRequest /\ client' = EndResponse(r) /\ UNCHANGED <<blocked, buffer>>
      BY <1>1, <1>7
    <2>2. pending' = <<>> /\ ~paused'
      BY <2>1, OnlyOneIs DEF TerminateRequest
    <2>3. contentLength[r] = Len(body'[r]) /\ contentLength[r] = Len(body[r]) + Len(data)
      BY <1>2, <1>6, <1>7
    <2>4. contentLength[r] # 0
      BY <1>2
    <2>5. EndsWith(r, data, last)
      BY <2>1, <2>2, <2>3, <2>4 DEF EndsWith
    <2>6. TouchesOnly(r)
      BY <1>4, <1>6, <2>1 DEF TouchesOnly, EndResponse, TypeOK
    <2> QED
      BY <1>6, <2>5, <2>6
  <1>8. CASE Len(body[r]) + n # contentLength[r]
    <2>1. /\ blocked' = [blocked EXCEPT ![r] = @ \/ ~(n = Len(data))]
          /\ paused' = ~(n = Len(data))
          /\ UNCHANGED <<pending, client>>
      BY <1>1, <1>8
    <2>2. /\ blocked'[r] = ~(n = Len(data)) /\ writable'[r] = "retry"
          /\ \A q \in Requests \ {r} : blocked'[q] = blocked[q]
      <3>1. blocked \in [Requests -> BOOLEAN]
        BY DEF TypeOK
      <3>2. CASE n = Len(data)
        BY <1>4, <2>1, <3>1, <3>2
      <3>3. CASE n # Len(data)
        BY <1>4, <2>1, <3>1, <3>3
      <3> QED
        BY <3>2, <3>3
    <2>3. TouchesOnly(r)
      BY <1>4, <1>6, <2>1, <2>2 DEF TouchesOnly
    <2>4. contentLength[r] # 0
      BY <1>2
    <2>5. CASE n = Len(data)
      <3>1. ~Retries(r)' /\ ~blocked'[r]
        BY <2>2, <2>5 DEF Retries
      <3>2. Reached(r)' = Len(body[r]) + Len(data)
        BY <1>6, <2>5, <3>1 DEF Reached
      <3>3. GoesOn(r, data, last)
        BY <2>1, <2>2, <2>5, <3>1, <3>2 DEF GoesOn
      <3> QED
        BY <1>6, <2>3, <3>3
    <2>6. CASE n # Len(data)
      <3>1. buffer' = [data |-> data, offset |-> Len(body[r]), total |-> contentLength[r]]
        BY <1>1, <1>8, <2>6
      <3>2. /\ buffer'.data = data /\ buffer'.offset = Len(body[r])
            /\ buffer'.total = contentLength[r]
        BY <3>1
      <3>3. Retries(r)' /\ blocked'[r]
        BY <2>1, <2>2, <2>6 DEF Retries
      <3>4. Reached(r)' = Len(body[r]) + Len(data)
        BY <3>2, <3>3 DEF Reached
      <3>5. Len(body'[r]) < Reached(r)'
        BY <1>2, <1>6, <2>6, <3>4
      <3>6. paused' <=> blocked'[r]
        BY <2>1, <2>2
      <3>7. GoesOn(r, data, last)
        BY <2>1, <2>2, <2>4, <3>2, <3>4, <3>5, <3>6 DEF GoesOn
      <3> QED
        BY <1>6, <2>3, <3>7
    <2> QED
      BY <2>5, <2>6
  <1> QED
    BY <1>7, <1>8

\* Where the stream and the parser are once data has been handed on: what follows
\* is the rest of the response, and nothing follows the last chunk.
Continues(r, data, last) ==
    /\ last => wire' = <<>> /\ stream' = <<>>
    /\ \A k \in 1 .. Len(stream') :
          stream'[k].last => k = Len(stream') /\ wire' = <<>>
    /\ wire' # <<>> => wire' = wire /\ wire' = pending /\ rx' # Idle
    /\ client[r] = "open" =>
          /\ Follows(data, r, Len(body[r]))
          /\ contentLength[r] > 0 =>
                data # <<>> /\ \A k \in 1 .. Len(stream') : stream'[k].data # <<>>
          /\ \E e \in Nat : Chained(stream', r, Len(body[r]) + Len(data), e) /\ ReadTo(r, e)'

\* A response of known size does not go past its size, and is read when it gets there.
LEMMA SizeBounds ==
    ASSUME NEW w, NEW mode, NEW size \in Nat, NEW read \in Nat, NEW length \in Nat \ {0},
           NEW e \in Nat,
           IF mode = "FIXED" THEN read < size ELSE size = 0,
           w # <<>> => e = read /\ length = size,
           w = <<>> => e = length
    PROVE  e <= length /\ (e = length => w = <<>>)
  OBVIOUS

LEMMA PositionFixed ==
    ASSUME TypeOK, Position
    PROVE  /\ IF rx.mode = "FIXED" THEN rx.read < rx.size ELSE rx.size = 0
           /\ rx.size \in Nat /\ rx.read \in Nat
  BY DEF TypeOK, Readings, Position, Idle

LEMMA PositionFixedNext ==
    ASSUME TypeOK', Position'
    PROVE  /\ IF rx'.mode = "FIXED" THEN rx'.read < rx'.size ELSE rx'.size = 0
           /\ rx'.size \in Nat /\ rx'.read \in Nat
  BY DEF TypeOK, Readings, Position, Idle

LEMMA DeliverServes ==
    ASSUME TypeOK, TypeOK', Safe, Position', NEW r \in Requests, pending = <<r>>,
           client[r] = "open", ~paused, ~blocked[r], Got(r),
           contentLength[r] > 0 => writable[r] = "retry",
           NEW data \in Seq(Units), NEW last \in BOOLEAN, Deliver(data, last),
           Continues(r, data, last)
    PROVE  /\ Follows(body'[r], r, 0) /\ TouchesOnly(r)
           /\ GoesOn(r, data, last) \/ EndsWith(r, data, last)
  <1>1. Follows(body[r], r, 0) /\ Follows(data, r, Len(body[r]))
    BY DEF Got, Continues
  <1>2. pending # <<>> /\ Head(pending) = r
    BY OnlyOneIs
  <1>3. ~stale[r] /\ ~aborted[r]
    BY DEF Safe, Progress
  <1>4. contentLength' = contentLength /\ contentLength[r] \in Nat
    BY DEF Deliver, TypeOK
  <1>5. IF contentLength[r] = 0 THEN SendStreamChunk(r, data, last)
                                ELSE SendChunk(r, data, contentLength[r])
    BY <1>2, <1>3 DEF Deliver, IgnoreChunk
  <1>6. CASE contentLength[r] = 0
    BY <1>1, <1>5, <1>6, SendStreamChunkServes
  <1>7. CASE contentLength[r] # 0
    <2>1. contentLength[r] > 0 /\ contentLength'[r] \in Nat \ {0}
      BY <1>4, <1>7
    <2>2. PICK e \in Nat : Chained(stream', r, Len(body[r]) + Len(data), e) /\ ReadTo(r, e)'
      BY DEF Continues
    <2>3. Len(body[r]) + Len(data) \in Nat
      <3>1. body \in [Requests -> Seq(Units)]
        BY DEF TypeOK
      <3> QED
        BY <3>1
    <2>4. stream' \in Seq(Chunks)
      BY DEF TypeOK
    <2>5. Len(body[r]) + Len(data) <= e
      BY <2>2, <2>3, <2>4, ChainBound
    <2>6. e <= contentLength'[r]
      <3>1. /\ wire' # <<>> => e = rx'.read /\ contentLength'[r] = rx'.size
            /\ wire' = <<>> => e = contentLength'[r]
        BY <2>1, <2>2 DEF ReadTo
      <3> QED
        BY <2>1, <3>1, PositionFixedNext, SizeBounds
    <2>7. Len(body[r]) + Len(data) <= contentLength[r]
      BY <1>4, <2>3, <2>5, <2>6
    <2> QED
      BY <1>1, <1>5, <1>7, <2>1, <2>7, SendChunkServes
  <1> QED
    BY <1>6, <1>7

\* A client that has left gets nothing, and its request stays to the last chunk.
LEMMA DeliverSkips ==
    ASSUME TypeOK, Safe, NEW r \in Requests, pending = <<r>>, client[r] # "open", ~paused,
           NEW data, NEW last \in BOOLEAN, Deliver(data, last)
    PROVE  /\ UNCHANGED <<client, body, blocked, writable, buffer>> /\ ~paused'
           /\ pending' = pending \/ (pending' = <<>> /\ last)
  <1>1. pending # <<>> /\ Head(pending) = r /\ Tail(pending) = <<>> /\ r \in Pending
    BY OnlyOneIs
  <1>2. aborted[r] => stale[r]
    BY <1>1 DEF Safe, AbortedIsStale
  <1>3. CASE IgnoreChunk(r, last)
    <2>1. /\ UNCHANGED <<client, body, blocked, writable, buffer>>
          /\ IF last THEN TerminateRequest ELSE UNCHANGED queueVars
      BY <1>2, <1>3 DEF IgnoreChunk
    <2> QED
      BY <1>1, <2>1 DEF TerminateRequest, queueVars
  <1>4. CASE UNCHANGED <<queueVars, client, body, blocked, writable, buffer>>
    BY <1>4 DEF queueVars
  <1> QED
    BY <1>1, <1>3, <1>4 DEF Deliver

\* A response is over only when nothing of it is left.
LEMMA NothingLeft ==
    ASSUME TypeOK', Position', NEW r \in Requests, client[r] = "open",
           contentLength'[r] = contentLength[r],
           Len(body[r]) \in Nat, NEW data \in Seq(Units), NEW last,
           Continues(r, data, last), EndsWith(r, data, last)
    PROVE  wire' = <<>> /\ stream' = <<>>
  <1>1. CASE contentLength[r] = 0
    BY <1>1 DEF Continues, EndsWith
  <1>2. CASE contentLength[r] # 0
    <2>1. PICK e \in Nat : Chained(stream', r, Len(body[r]) + Len(data), e) /\ ReadTo(r, e)'
      BY DEF Continues
    <2>2. Len(body[r]) + Len(data) = contentLength[r] /\ contentLength[r] \in Nat \ {0}
      <3>1. contentLength'[r] \in Nat
        BY DEF TypeOK
      <3> QED
        BY <1>2, <3>1 DEF EndsWith
    <2>3. Chained(stream', r, contentLength[r], e)
      BY <2>1, <2>2
    <2>4. stream' \in Seq(Chunks)
      BY DEF TypeOK
    <2>5. contentLength[r] <= e
      BY <2>2, <2>3, <2>4, ChainBound
    <2>6. e <= contentLength[r] /\ (e = contentLength[r] => wire' = <<>>)
      <3>1. /\ wire' # <<>> => e = rx'.read /\ contentLength[r] = rx'.size
            /\ wire' = <<>> => e = contentLength[r]
        BY <2>1, <2>2 DEF ReadTo
      <3> QED
        BY <2>2, <3>1, PositionFixedNext, SizeBounds
    <2>7. e = contentLength[r]
      BY <2>2, <2>5, <2>6
    <2>8. stream' = <<>>
      <3> SUFFICES ASSUME stream' # <<>> PROVE FALSE
        OBVIOUS
      <3>1. contentLength[r] + Len(Head(stream').data) <= contentLength[r]
        BY <2>2, <2>3, <2>4, <2>7, ChainTail
      <3>2. Len(stream') \in Nat \ {0} /\ Head(stream') = stream'[1] /\ Head(stream') \in Chunks
        BY <2>4
      <3>3. 1 \in 1 .. Len(stream')
        BY <3>2
      <3>4. Head(stream').data # <<>> /\ Head(stream').data \in Seq(Units)
        BY <1>2, <2>2, <3>2, <3>3 DEF Continues, Chunks
      <3>5. Len(Head(stream').data) \in Nat \ {0}
        BY <3>4
      <3> QED
        BY <2>2, <3>1, <3>5
    <2> QED
      BY <2>6, <2>7, <2>8
  <1> QED
    BY <1>1, <1>2

LEMMA DeliverOrderly ==
    ASSUME Single, TypeOK, TypeOK', Safe, Safe', Orderly, Position',
           NEW r \in Requests, pending = <<r>>, ~paused, ~Early(r),
           NEW data \in Seq(Units), NEW last \in BOOLEAN, Deliver(data, last),
           Continues(r, data, last), immediates' = <<>>, socket' # "closed",
           UNCHANGED <<stage, failures>>
    PROVE  Orderly'
  <1>1. pending # <<>> /\ Head(pending) = r /\ Pending = {r} /\ r \in Pending
    BY OnlyOneIs
  <1>2. Unread' = wire'
    <2>1. wire' \in Seq(Requests)
      BY DEF TypeOK
    <2> QED
      BY <2>1, ConcatEmpty DEF Unread
  <1>3. UNCHANGED <<heads, contentLength>> /\ Got(r) /\ ~(client[r] = "open" /\ blocked[r])
    BY DEF Deliver, Orderly, Pauses
  <1>4. \A q \in Requests \ {r} : q \notin Pending'
    <2>1. CASE pending' = pending
      BY <1>1, <2>1 DEF Pending
    <2>2. CASE pending' = <<>>
      BY <2>2, EmptyToSet DEF Pending
    <2>3. CASE client[r] # "open"
      BY <2>1, <2>2, <2>3, DeliverSkips
    <2>4. CASE client[r] = "open"
      BY <1>1, <2>1, <2>2, <2>4, OnlyOneIs
      DEF Deliver, IgnoreChunk, SendStreamChunk, SendChunk, TerminateRequest, queueVars
    <2> QED
      BY <2>3, <2>4
  <1>5. ~Early(r)'
    <2>1. stage'[r] \notin {"new", "connecting"}
      BY <1>1 DEF Safe, Progress
    <2>2. r \in Pending' => pending' # <<>>
      BY EmptyToSet DEF Pending
    <2> QED
      BY <1>2, <2>1, <2>2 DEF Early, Continues
  <1>6. ASSUME pending' = pending PROVE Alone'
    BY <1>1, <1>2, <1>6 DEF Alone, Continues
  <1>7. ASSUME pending' = <<>>, wire' = <<>>, stream' = <<>> PROVE Alone'
    BY <1>2, <1>7 DEF Alone
  <1>8. ASSUME pending' = <<>>, ~paused' PROVE Pauses' /\ Served'
    BY <1>8, EmptyToSet DEF Pauses, PausedHeadBlocked, Safe, BlockedIsHead, Served, Pending
  <1>9. CASE client[r] # "open"
    <2>1. /\ UNCHANGED <<client, body, blocked, writable, buffer>> /\ ~paused'
          /\ pending' = pending \/ (pending' = <<>> /\ last)
      BY <1>9, DeliverSkips
    <2>2. Alone'
      BY <1>6, <1>7, <2>1 DEF Continues
    <2>3. Pauses' /\ Served'
      <3>1. CASE pending' = <<>>
        BY <1>8, <2>1, <3>1
      <3>2. CASE pending' = pending
        <4>1. Pauses'
          BY <2>1 DEF Orderly, Pauses, PausedHeadBlocked
        <4>2. Served'
          BY <1>1, <1>9, <2>1, <3>2 DEF Served, Pending
        <4> QED
          BY <4>1, <4>2
      <3> QED
        BY <2>1, <3>1, <3>2
    <2>4. Got(r)'
      <3>1. client[r] = "done" => Unread' = <<>>
        <4>1. client[r] = "done" => Unread = <<>>
          BY <1>1, <1>3 DEF Got
        <4>2. client[r] = "done" => wire = <<>>
          BY <4>1, NothingUnread
        <4> QED
          BY <1>2, <4>2 DEF Continues
      <3> QED
        BY <1>3, <1>5, <2>1, <3>1, KeepGot
    <2>5. \A q \in Requests \ {r} : Got(q)'
      BY <1>3, <1>4, <2>1, KeepOthers DEF Orderly
    <2> QED
      BY <2>2, <2>3, <2>4, <2>5 DEF Orderly
  <1>10. CASE client[r] = "open"
    <2>1. Serving(r)
      BY <1>1, <1>10 DEF Orderly, Served
    <2>2. contentLength[r] > 0 => writable[r] = "retry"
      BY <2>1 DEF Serving
    <2>3. /\ Follows(body'[r], r, 0) /\ TouchesOnly(r)
          /\ GoesOn(r, data, last) \/ EndsWith(r, data, last)
      BY <1>3, <1>10, <2>2, DeliverServes
    <2>4. \A q \in Requests \ {r} : Got(q)'
      BY <1>3, <1>4, <2>3, KeepOthers DEF Orderly, TouchesOnly
    <2>5. CASE GoesOn(r, data, last)
      <3>1. pending' = pending /\ client' = client /\ (paused' <=> blocked'[r])
        BY <2>5 DEF GoesOn
      <3>2. Pauses'
        <4>1. PausedHeadBlocked'
          BY <1>1, <1>10, <3>1 DEF PausedHeadBlocked
        <4>2. ASSUME NEW q \in Requests, client'[q] = "open", blocked'[q] PROVE paused'
          <5>1. CASE q = r
            BY <3>1, <4>2, <5>1
          <5>2. CASE q # r
            BY <2>3, <4>2, <5>2 DEF TouchesOnly, Orderly, Pauses
          <5> QED
            BY <5>1, <5>2
        <4> QED
          BY <4>1, <4>2 DEF Pauses
      <3>3. Got(r)'
        BY <1>3, <1>5, <1>10, <2>3, <3>1 DEF Got
      <3>4. Serving(r)'
        <4>1. \E e \in Nat : Chained(stream', r, Reached(r)', e) /\ ReadTo(r, e)'
          BY <1>10, <2>5 DEF Continues, GoesOn
        <4>2. heads'[r] = <<r>>
          BY <1>3, <2>1 DEF Serving
        <4>3. contentLength[r] > 0 => \A k \in 1 .. Len(stream') : stream'[k].data # <<>>
          BY <1>10 DEF Continues
        <4>4. blocked'[r] /\ writable'[r] = "end" => wire' = <<>> /\ stream' = <<>>
          BY <2>5 DEF Continues, GoesOn
        <4> QED
          BY <1>3, <2>5, <4>1, <4>2, <4>3, <4>4 DEF Serving, GoesOn
      <3>5. Served'
        BY <1>1, <3>1, <3>4 DEF Served, Pending
      <3> QED
        BY <1>6, <2>4, <3>1, <3>2, <3>3, <3>5 DEF Orderly
    <2>6. CASE EndsWith(r, data, last)
      <3>1. pending' = <<>> /\ ~paused' /\ r \notin Pending'
        BY <2>6, EmptyToSet DEF EndsWith, Pending
      <3>2. Len(body[r]) \in Nat
        <4>1. body \in [Requests -> Seq(Units)]
          BY DEF TypeOK
        <4> QED
          BY <4>1
      <3>3. wire' = <<>> /\ stream' = <<>>
        BY <1>3, <1>10, <2>6, <3>2, NothingLeft
      <3>4. Got(r)'
        <4>1. heads'[r] = <<r>> /\ <<r>> # <<>>
          BY <1>3, <2>1, OnlyElement DEF Serving
        <4>2. contentLength'[r] > 0 => Len(body'[r]) = contentLength'[r]
          BY <1>3, <2>6 DEF EndsWith
        <4> QED
          BY <1>5, <2>3, <3>1, <4>1, <4>2 DEF Got
      <3> QED
        BY <1>7, <1>8, <2>4, <3>1, <3>3, <3>4 DEF Orderly
    <2> QED
      BY <2>3, <2>5, <2>6
  <1> QED
    BY <1>9, <1>10

\* Once its last chunk is handed on, there is nothing after it in the stream.
LEMMA FlowOrderly ==
    ASSUME Single, TypeOK, TypeOK', Safe, Safe', Orderly, Flow
    PROVE  Orderly'
  <1>1. /\ ~paused /\ stream # <<>> /\ stream' = Tail(stream)
        /\ Deliver(Head(stream).data, Head(stream).last)
        /\ UNCHANGED <<stage, failures, immediates, socket, wire, rx, contentLength>>
    BY DEF Flow, Draining, Deliver, requestVars, serverVars
  <1>2. pending # <<>>
    BY <1>1 DEF Orderly, Alone
  <1>3. PICK r \in Requests : pending = <<r>>
    BY <1>2, OnlyOne
  <1>4. r \in Pending /\ socket # "closed"
    BY <1>2, <1>3, OnlyOneIs DEF Orderly, Alone
  <1>5. ~Early(r)
    <2>1. stage[r] \notin {"new", "connecting"}
      BY <1>4 DEF Safe, Progress
    <2> QED
      BY <1>1, <1>2, <2>1 DEF Early, Orderly, Alone
  <1>6. /\ immediates = <<>>
        /\ wire # <<>> => wire = pending /\ rx # Idle
    <2>1. CASE wire # <<>>
      BY <1>3, <1>4, <1>5, <2>1, ReadsForIt DEF Orderly, Early
    <2>2. CASE wire = <<>>
      BY <1>4, <1>5, <2>2, AllRead, NothingUnread DEF Orderly
    <2> QED
      BY <2>1, <2>2
  <1>7. /\ Len(stream) \in Nat \ {0} /\ Head(stream) = stream[1] /\ Head(stream) \in Chunks
        /\ Len(Tail(stream)) = Len(stream) - 1
        /\ \A k \in 1 .. Len(Tail(stream)) : Tail(stream)[k] = stream[k + 1]
    <2>1. stream \in Seq(Chunks)
      BY DEF TypeOK
    <2> QED
      BY <1>1, <2>1
  <1>8. Head(stream).data \in Seq(Units) /\ Head(stream).last \in BOOLEAN
    BY <1>7 DEF Chunks
  <1>9. Position'
    BY <1>1 DEF Orderly, Position
  <1>10. Continues(r, Head(stream).data, Head(stream).last)
    <2>1. ASSUME Head(stream).last PROVE wire' = <<>> /\ stream' = <<>>
      <3>1. 1 \in 1 .. Len(stream) /\ stream[1].last
        BY <1>7, <2>1
      <3>2. 1 = Len(stream) /\ wire = <<>>
        BY <3>1 DEF Orderly, Alone
      <3>3. stream' = <<>>
        <4>1. stream \in Seq(Chunks)
          BY DEF TypeOK
        <4>2. Tail(stream) = <<>>
          BY <3>2, <4>1, LastTail
        <4> QED
          BY <1>1, <4>2
      <3> QED
        BY <1>1, <3>2, <3>3
    <2>2. ASSUME NEW k \in 1 .. Len(stream'), stream'[k].last
          PROVE  k = Len(stream') /\ wire' = <<>>
      <3>1. k \in Nat /\ k + 1 \in 1 .. Len(stream) /\ stream[k + 1].last
        BY <1>1, <1>7, <2>2
      <3>2. k + 1 = Len(stream) /\ wire = <<>>
        BY <3>1 DEF Orderly, Alone
      <3>3. Len(stream') = Len(stream) - 1 /\ Len(stream) \in Nat
        BY <1>1, <1>7
      <3>4. k = Len(stream')
        BY <3>1, <3>2, <3>3
      <3> QED
        BY <1>1, <3>2, <3>4
    <2>3. wire' # <<>> => wire' = wire /\ wire' = pending /\ rx' # Idle
      BY <1>1, <1>6
    <2>4. ASSUME client[r] = "open"
          PROVE  /\ Follows(Head(stream).data, r, Len(body[r]))
                 /\ contentLength[r] > 0 =>
                       /\ Head(stream).data # <<>>
                       /\ \A k \in 1 .. Len(stream') : stream'[k].data # <<>>
                 /\ \E e \in Nat : /\ Chained(stream', r, Len(body[r]) + Len(Head(stream).data), e)
                                   /\ ReadTo(r, e)'
      <3>1. Serving(r)
        BY <1>4, <1>5, <2>4 DEF Orderly, Served
      <3>2. ~Retries(r)
        BY <1>1, <2>4 DEF Retries, Orderly, Pauses
      <3>3. PICK e \in Nat : Chained(stream, r, Len(body[r]), e) /\ ReadTo(r, e)
        BY <3>1, <3>2 DEF Serving, Reached
      <3>4. stream \in Seq(Chunks) /\ Len(body[r]) \in Nat
        <4>1. body \in [Requests -> Seq(Units)]
          BY DEF TypeOK
        <4> QED
          BY <4>1 DEF TypeOK
      <3>5. /\ Follows(Head(stream).data, r, Len(body[r]))
            /\ Chained(Tail(stream), r, Len(body[r]) + Len(Head(stream).data), e)
        BY <1>1, <3>3, <3>4, ChainTail
      <3>6. ReadTo(r, e)'
        BY <1>1, <3>3 DEF ReadTo
      <3>7. ASSUME contentLength[r] > 0
            PROVE  /\ Head(stream).data # <<>>
                   /\ \A k \in 1 .. Len(stream') : stream'[k].data # <<>>
        <4>1. \A k \in 1 .. Len(stream) : stream[k].data # <<>>
          BY <3>1, <3>7 DEF Serving
        <4>2. 1 \in 1 .. Len(stream)
          BY <1>7
        <4>3. \A k \in 1 .. Len(stream') : k + 1 \in 1 .. Len(stream)
          BY <1>1, <1>7
        <4> QED
          BY <1>1, <1>7, <4>1, <4>2, <4>3
      <3> QED
        BY <1>1, <3>5, <3>6, <3>7
    <2> QED
      BY <2>1, <2>2, <2>3, <2>4 DEF Continues
  <1> QED
    BY <1>1, <1>3, <1>4, <1>5, <1>6, <1>8, <1>9, <1>10, DeliverOrderly

\* What the parser reads goes on where it has read to.
LEMMA BodyChunkOrderly ==
    ASSUME Single, TypeOK, TypeOK', Safe, Safe', Orderly,
           NEW n \in 0 .. MaxBody, NEW last \in BOOLEAN, BodyChunk(n, last)
    PROVE  Orderly'
  <1>1. /\ wire # <<>> /\ IsChunk(n, last) /\ n \in Nat /\ rx.read \in Nat /\ rx.size \in Nat
        /\ UNCHANGED <<stage, failures, immediates, socket>>
    BY PipelineAssumption
    DEF BodyChunk, PipelineAssumption, TypeOK, Readings, requestVars
  <1>0. /\ rx.from = 0 /\ ReadSoFar = rx.read
        /\ EndOfResponse(n) => wire' = Tail(wire) /\ rx' = Idle
    BY InStep DEF Orderly, Position
  <1>2. /\ socket # "closed" /\ Unread = pending /\ immediates = <<>> /\ Tail(wire) = <<>>
    BY <1>1, ReadsForIt DEF Orderly
  <1>3. PICK r \in Requests : pending = <<r>> /\ wire = <<r>>
    BY <1>1, ReadsForIt DEF Orderly
  <1>4. /\ pending # <<>> /\ Head(pending) = r /\ Pending = {r} /\ r \in Pending
        /\ Head(wire) = r
    BY <1>3, OnlyOneIs
  <1>5. rx.mode \in {"FIXED", "CHUNKED", "UNTIL_CLOSE"} /\ rx # Idle
    BY <1>1 DEF IsChunk, Idle
  <1>6. ~Early(r) /\ stage[r] \notin {"new", "connecting"}
    BY <1>4, <1>5 DEF Early, Safe, Progress
  <1>7. IF last THEN wire' = <<>> /\ rx' = Idle
                ELSE wire' = wire /\ rx' = [rx EXCEPT !.read = @ + n]
    BY <1>0, <1>2 DEF BodyChunk
  <1>8. ~last => /\ rx'.mode = rx.mode /\ rx'.size = rx.size /\ rx'.read = rx.read + n
                 /\ rx'.from = 0 /\ rx' # Idle
    <2> SUFFICES ASSUME ~last
                 PROVE  /\ rx'.mode = rx.mode /\ rx'.size = rx.size
                        /\ rx'.read = rx.read + n /\ rx'.from = 0 /\ rx' # Idle
      OBVIOUS
    <2>1. rx' = [rx EXCEPT !.read = @ + n]
      BY <1>7
    <2>2. /\ rx'.mode = rx.mode /\ rx'.size = rx.size /\ rx'.read = rx.read + n
          /\ rx'.from = 0
      BY <1>0, <2>1 DEF TypeOK, Readings
    <2> QED
      BY <1>5, <2>2 DEF Idle
  <1>9. rx.mode = "FIXED" => n > 0 /\ (last <=> rx.read + n = rx.size) /\ rx.read + n <= rx.size
    BY <1>0, <1>1 DEF IsChunk
  <1>10. Position'
    <2>1. CASE last
      BY <1>7, <2>1 DEF Position, Idle
    <2>2. CASE ~last
      <3>1. rx.mode = "FIXED" => rx'.read < rx'.size
        BY <1>1, <1>8, <1>9, <2>2
      <3> QED
        BY <1>1, <1>5, <1>7, <1>8, <2>2, <3>1 DEF Orderly, Position
    <2> QED
      BY <2>1, <2>2
  <1>11. \A k \in 1 .. Len(stream) : ~stream[k].last
    BY <1>1 DEF Orderly, Alone
  <1> DEFINE data == [i \in 1 .. n |-> <<r, rx.read + i>>]
  <1>12. data \in Seq(Units) /\ Len(data) = n /\ Follows(data, r, rx.read)
    <2>1. \A i \in 1 .. n : <<r, rx.read + i>> \in Units
      BY <1>1 DEF Units
    <2> QED
      BY <1>1, <2>1 DEF Follows
  <1>13. Push(data, last)
    BY <1>4 DEF BodyChunk
  <1> HIDE DEF data
  <1>14. contentLength' = contentLength
    BY <1>13 DEF Push, Deliver
  <1>15. wire' # <<>> => wire' = wire /\ wire' = pending /\ rx' # Idle
    BY <1>3, <1>7, <1>8
  <1>16. PICK e \in Nat : e = rx.read + n
    BY <1>1
  <1>17. ASSUME client[r] = "open"
         PROVE  /\ Serving(r)
                /\ Chained(stream, r, Reached(r), rx.read)
                /\ ReadTo(r, e)'
                /\ contentLength[r] > 0 => data # <<>>
    <2>1. Serving(r)
      BY <1>4, <1>6, <1>17 DEF Orderly, Served
    <2>2. PICK d \in Nat : Chained(stream, r, Reached(r), d) /\ ReadTo(r, d)
      BY <2>1 DEF Serving
    <2>3. d = rx.read /\ contentLength[r] = rx.size
      BY <1>1, <2>2 DEF ReadTo
    <2>4. contentLength[r] > 0 => rx.mode = "FIXED"
      BY <1>5, <2>3 DEF Orderly, Position
    <2>5. contentLength[r] > 0 => data # <<>>
      <3>1. n > 0 => data # <<>>
        BY <1>1, <1>12
      <3> QED
        BY <1>9, <2>4, <3>1
    <2>6. ReadTo(r, e)'
      <3>1. CASE last
        <4>1. wire' = <<>>
          BY <1>7, <3>1
        <4>2. contentLength[r] > 0 => e = contentLength[r]
          BY <1>9, <1>16, <2>3, <2>4, <3>1
        <4> QED
          BY <1>14, <4>1, <4>2 DEF ReadTo
      <3>2. CASE ~last
        <4>1. wire' # <<>> /\ rx'.read = e /\ rx'.size = contentLength[r]
          BY <1>1, <1>7, <1>8, <1>16, <2>3, <3>2
        <4> QED
          BY <1>14, <4>1 DEF ReadTo
      <3> QED
        BY <3>1, <3>2
    <2> QED
      BY <2>1, <2>2, <2>3, <2>5, <2>6
  <1>18. CASE ~paused /\ stream = <<>> /\ Deliver(data, last) /\ UNCHANGED stream
    <2>1. ASSUME client[r] = "open"
          PROVE  /\ Follows(data, r, Len(body[r]))
                 /\ contentLength[r] > 0 => data # <<>>
                 /\ \E x \in Nat : Chained(stream', r, Len(body[r]) + Len(data), x) /\ ReadTo(r, x)'
      <3>1. ~Retries(r)
        BY <1>18, <2>1 DEF Retries, Orderly, Pauses
      <3>2. Len(body[r]) \in Nat
        <4>1. body \in [Requests -> Seq(Units)]
          BY DEF TypeOK
        <4> QED
          BY <4>1
      <3>3. Len(body[r]) = rx.read
        <4>1. Chained(<<>>, r, Len(body[r]), rx.read)
          BY <1>17, <1>18, <2>1, <3>1 DEF Reached
        <4> QED
          BY <1>1, <3>2, <4>1, ChainEmpty
      <3>4. Chained(stream', r, Len(body[r]) + Len(data), e)
        <4>1. Len(body[r]) + Len(data) = e
          BY <1>1, <1>12, <1>16, <3>3
        <4>2. stream' = <<>>
          BY <1>18
        <4> QED
          BY <4>1, <4>2, ChainEmpty
      <3> QED
        BY <1>12, <1>17, <2>1, <3>3, <3>4
    <2>2. \A k : k \notin 1 .. Len(stream')
      BY <1>18
    <2>3. last => wire' = <<>> /\ stream' = <<>>
      BY <1>7, <1>18
    <2>4. Continues(r, data, last)
      BY <1>15, <2>1, <2>2, <2>3 DEF Continues
    <2> QED
      BY <1>1, <1>2, <1>3, <1>6, <1>10, <1>12, <1>18, <2>4, DeliverOrderly
  <1>19. CASE /\ stream' = Append(stream, [data |-> data, last |-> last])
              /\ UNCHANGED <<queueVars, stale, contentLength, buffer, client, responseVars>>
    <2> DEFINE c == [data |-> data, last |-> last]
    <2>1. c \in Chunks /\ c.data = data /\ c.last = last
      BY <1>12 DEF Chunks
    <2>2. stream' = Append(stream, c)
      BY <1>19
    <2> HIDE DEF c
    <2>3. stream \in Seq(Chunks) /\ Len(stream) \in Nat
      BY DEF TypeOK
    <2>4. /\ Len(stream') = Len(stream) + 1 /\ stream'[Len(stream) + 1] = c
          /\ \A k \in 1 .. Len(stream) : stream'[k] = stream[k]
      BY <2>1, <2>2, <2>3
    <2>5. UNCHANGED <<pending, paused, buffer, client, heads, body, blocked, writable>>
      BY <1>19 DEF queueVars, responseVars
    <2>6. Unread' = wire' /\ Pending' = Pending
      <3>1. wire' \in Seq(Requests)
        BY DEF TypeOK
      <3> QED
        BY <1>1, <1>2, <2>5, <3>1, ConcatEmpty DEF Unread, Pending
    <2>7. ~Early(r)'
      BY <1>1, <1>4, <1>6, <1>15, <2>5, <2>6 DEF Early
    <2>8. Alone'
      <3>1. ASSUME NEW k \in 1 .. Len(stream'), stream'[k].last
            PROVE  k = Len(stream') /\ wire' = <<>>
        <4>1. CASE k \in 1 .. Len(stream)
          BY <1>11, <2>4, <3>1, <4>1
        <4>2. CASE k = Len(stream) + 1
          BY <1>7, <2>1, <2>4, <3>1, <4>2
        <4> QED
          BY <2>3, <2>4, <4>1, <4>2
      <3>2. socket' # "closed" /\ pending' # <<>>
        BY <1>1, <1>2, <1>4, <2>5
      <3>3. Unread' = <<>> \/ (Unread' = pending' /\ rx' # Idle)
        BY <1>15, <2>5, <2>6
      <3> QED
        BY <3>1, <3>2, <3>3 DEF Alone
    <2>9. Pauses'
      BY <2>5 DEF Orderly, Pauses, PausedHeadBlocked
    <2>10. ASSUME NEW q \in Requests PROVE Got(q)'
      <3>1. CASE q = r
        <4>1. Got(r)
          BY DEF Orderly
        <4>2. client[r] # "done"
          BY <1>2, <1>4, <4>1 DEF Got
        <4> QED
          BY <1>1, <1>14, <2>5, <2>7, <3>1, <4>1, <4>2, KeepGot
      <3>2. CASE q # r
        BY <1>1, <1>4, <1>14, <2>5, <2>6, <3>2, KeepOthers DEF Orderly
      <3> QED
        BY <3>1, <3>2
    <2>11. ASSUME client'[r] = "open" PROVE Serving(r)'
      <3>1. /\ Serving(r) /\ Chained(stream, r, Reached(r), rx.read)
            /\ ReadTo(r, e)' /\ (contentLength[r] > 0 => data # <<>>)
        BY <1>17, <2>5, <2>11
      <3>2. Retries(r)' = Retries(r) /\ Reached(r)' = Reached(r)
        BY <2>5 DEF Retries, Reached
      <3>3. Reached(r) \in Nat
        <4>1. body \in [Requests -> Seq(Units)]
          BY DEF TypeOK
        <4>2. buffer.data \in Seq(Units) /\ buffer.offset \in Nat
          BY DEF TypeOK
        <4>3. Len(body[r]) \in Nat /\ buffer.offset + Len(buffer.data) \in Nat
          BY <4>1, <4>2
        <4> QED
          BY <4>3 DEF Reached
      <3>4. Chained(stream', r, Reached(r)', e)
        BY <1>1, <1>12, <1>16, <2>1, <2>2, <2>3, <3>1, <3>2, <3>3, ChainAppend
      <3>5. contentLength'[r] > 0 => \A k \in 1 .. Len(stream') : stream'[k].data # <<>>
        <4> SUFFICES ASSUME contentLength[r] > 0, NEW k \in 1 .. Len(stream')
                     PROVE  stream'[k].data # <<>>
          BY <1>14
        <4>1. CASE k \in 1 .. Len(stream)
          BY <2>4, <3>1, <4>1 DEF Serving
        <4>2. CASE k = Len(stream) + 1
          BY <2>1, <2>4, <3>1, <4>2
        <4> QED
          BY <2>3, <2>4, <4>1, <4>2
      <3>6. ~(blocked[r] /\ writable[r] = "end")
        BY <1>1, <3>1 DEF Serving
      <3>7. /\ heads'[r] = <<r>>
            /\ contentLength'[r] > 0 => writable'[r] = "retry"
            /\ contentLength'[r] = 0 /\ blocked'[r] => writable'[r] # "retry"
            /\ ~(blocked'[r] /\ writable'[r] = "end")
        BY <1>14, <2>5, <3>1, <3>6 DEF Serving
      <3>8. Retries(r)' => /\ buffer'.total = contentLength'[r]
                           /\ Follows(buffer'.data, r, buffer'.offset)
                           /\ Len(body'[r]) < Reached(r)'
        BY <1>14, <2>5, <3>1, <3>2 DEF Serving
      <3> QED
        BY <3>1, <3>4, <3>5, <3>7, <3>8 DEF Serving
    <2>12. Served'
      BY <1>4, <2>6, <2>11 DEF Served
    <2> QED
      BY <1>10, <2>8, <2>9, <2>10, <2>12 DEF Orderly
  <1> QED
    BY <1>13, <1>18, <1>19 DEF Push

-----------------------------------------------------------------------------
(***************************************************************************)
(* A client that was behind reads on.                                      *)
(***************************************************************************)

\* The pending buffer is sent from where the body has stopped.
LEMMA RetryServes ==
    ASSUME TypeOK, Safe, NEW r \in Requests, Retries(r), Serving(r), Got(r), RetryBuffer(r)
    PROVE  \E n \in Nat :
              /\ body' = [body EXCEPT ![r] = body'[r]] /\ Follows(body'[r], r, 0)
              /\ Len(body'[r]) = Len(body[r]) + n /\ Len(body'[r]) <= Reached(r)
              /\ client' = IF Len(body'[r]) = contentLength[r] THEN EndResponse(r) ELSE client
              /\ IF Len(body'[r]) = Reached(r)
                 THEN ~paused' /\ blocked' = [blocked EXCEPT ![r] = FALSE]
                 ELSE /\ paused' = paused /\ blocked' = [blocked EXCEPT ![r] = TRUE]
                      /\ buffer' = buffer
  <1> DEFINE start == Len(body[r]) - buffer.offset
             rest  == SubSeq(buffer.data, start + 1, Len(buffer.data))
  <1>1. /\ body[r] \in Seq(Units) /\ Len(body[r]) \in Nat /\ buffer.offset \in Nat
        /\ buffer.data \in Seq(Units) /\ Len(buffer.data) \in Nat
    BY DEF TypeOK
  <1>2. buffer.offset <= Len(body[r])
    BY DEF Retries, Safe, RetryWithinBuffer
  <1>3. /\ buffer.total = contentLength[r] /\ Follows(buffer.data, r, buffer.offset)
        /\ Reached(r) = buffer.offset + Len(buffer.data) /\ Len(body[r]) < Reached(r)
    BY DEF Serving, Reached
  <1>4. start \in Nat /\ start < Len(buffer.data)
    BY <1>1, <1>2, <1>3
  <1>5. /\ rest \in Seq(Units) /\ Len(rest) = Len(buffer.data) - start
        /\ \A i \in 1 .. Len(rest) :
              start + i \in 1 .. Len(buffer.data) /\ rest[i] = buffer.data[start + i]
    <2> HIDE DEF start
    <2>1. /\ rest \in Seq(Units) /\ Len(rest) \in Nat
          /\ \A i \in 1 .. Len(rest) :
                start + i \in 1 .. Len(buffer.data) /\ rest[i] = buffer.data[start + i]
      BY <1>1, <1>4, RestOf
    <2>2. Len(rest) = Len(buffer.data) - start
      BY <1>1, <1>4
    <2> QED
      BY <2>1, <2>2
  <1>6. buffer # NoBuffer
    <2>1. CASE buffer = NoBuffer
      <3>1. buffer.data = <<>>
        BY <2>1 DEF NoBuffer
      <3> QED
        BY <1>4, <3>1
    <2> QED
      BY <2>1
  <1>7. PICK n \in Accepted(rest) :
           /\ body' = [body EXCEPT ![r] = @ \o SubSeq(rest, 1, n)]
           /\ client' = IF Len(body[r]) + n = buffer.total THEN EndResponse(r) ELSE client
           /\ paused' = (paused /\ ~(n = Len(rest)))
           /\ buffer' = IF n = Len(rest) THEN NoBuffer ELSE buffer
           /\ blocked' = [blocked EXCEPT ![r] = ~(n = Len(rest))]
    BY <1>6 DEF RetryBuffer
  <1> HIDE DEF rest
  <1>8. n \in 0 .. Len(rest) /\ Len(rest) \in Nat
    BY <1>5, <1>7 DEF Accepted
  <1> DEFINE s == SubSeq(rest, 1, n)
  <1>9. s \in Seq(Units) /\ Len(s) = n /\ \A i \in 1 .. n : s[i] = rest[i]
    BY <1>5, <1>8, FirstOf
  <1>10. body' = [body EXCEPT ![r] = @ \o s]
    BY <1>7
  <1> HIDE DEF s
  <1>11. Follows(s, r, Len(body[r]))
    <2> SUFFICES ASSUME NEW i \in 1 .. n PROVE s[i] = <<r, Len(body[r]) + i>>
      BY <1>9 DEF Follows
    <2>1. i \in 1 .. Len(rest)
      BY <1>8
    <2>2. s[i] = buffer.data[start + i] /\ start + i \in 1 .. Len(buffer.data)
      BY <1>5, <1>9, <2>1
    <2>3. s[i] = <<r, buffer.offset + (start + i)>>
      BY <1>3, <2>2 DEF Follows
    <2>4. buffer.offset + (start + i) = Len(body[r]) + i
      BY <1>1, <2>1
    <2> QED
      BY <2>3, <2>4
  <1>12. /\ Follows(body'[r], r, 0) /\ Len(body'[r]) = Len(body[r]) + n
    BY <1>9, <1>10, <1>11, BodyFollows DEF Got
  <1>13. body' = [body EXCEPT ![r] = body'[r]]
    BY <1>10 DEF TypeOK
  <1>14. /\ Len(body'[r]) <= Reached(r)
         /\ Len(body'[r]) = Reached(r) <=> n = Len(rest)
    <2>1. Reached(r) = Len(body[r]) + Len(rest)
      BY <1>1, <1>3, <1>5
    <2>2. Len(body'[r]) = Len(body[r]) + n /\ Len(body[r]) \in Nat
      BY <1>1, <1>12
    <2> QED
      BY <1>8, <2>1, <2>2
  <1>15. client' = IF Len(body'[r]) = contentLength[r] THEN EndResponse(r) ELSE client
    BY <1>3, <1>7, <1>12
  <1>16. CASE n = Len(rest)
    <2>1. ~paused' /\ blocked' = [blocked EXCEPT ![r] = FALSE]
      BY <1>7, <1>16
    <2> QED
      BY <1>8, <1>12, <1>13, <1>14, <1>15, <1>16, <2>1
  <1>17. CASE n # Len(rest)
    <2>1. /\ paused' = paused /\ blocked' = [blocked EXCEPT ![r] = TRUE]
          /\ buffer' = buffer
      BY <1>7, <1>17 DEF TypeOK
    <2> QED
      BY <1>8, <1>12, <1>13, <1>14, <1>15, <1>17, <2>1
  <1> QED
    BY <1>16, <1>17

LEMMA OnWritableOrderly ==
    ASSUME Single, TypeOK, Safe, Safe', Orderly, NEW r \in Requests, OnWritable(r)
    PROVE  Orderly'
  <1>1. /\ client[r] = "open" /\ blocked[r]
        /\ UNCHANGED <<contentLength, stream, heads, writable, stage, failures, immediates,
                       socket, wire, rx>>
    BY DEF OnWritable, requestVars, serverVars
  <1>2. pending # <<>> /\ r = Head(pending)
    BY <1>1 DEF Safe, BlockedIsHead
  <1>3. PICK h \in Requests : pending = <<h>>
    BY <1>2, OnlyOne
  <1>4. pending = <<r>> /\ Tail(pending) = <<>> /\ Pending = {r} /\ r \in Pending
    BY <1>2, <1>3, OnlyOneIs
  <1>5. Got(r)
    BY DEF Orderly
  <1>6. ~Early(r) /\ stage[r] \notin {"new", "connecting"}
    BY <1>1, <1>4, <1>5 DEF Got, Safe, Progress
  <1>7. Serving(r)
    BY <1>1, <1>4, <1>6 DEF Orderly, Served
  <1>8. Unread' = Unread /\ Position'
    BY <1>1 DEF Unread, Orderly, Position
  <1>9. contentLength[r] \in Nat /\ body[r] \in Seq(Units) /\ Len(body[r]) \in Nat
        /\ stream \in Seq(Chunks)
    BY DEF TypeOK
  <1>10. PICK e \in Nat : Chained(stream, r, Reached(r), e) /\ ReadTo(r, e)
    BY <1>7 DEF Serving
  <1>11. ReadTo(r, e)'
    BY <1>1, <1>10 DEF ReadTo
  <1>12. CASE writable[r] = "retry" /\ RetryBuffer(r)
    <2>1. Retries(r) /\ pending' = pending
      BY <1>1, <1>12 DEF Retries, RetryBuffer, queueVars
    <2>2. PICK n \in Nat :
             /\ body' = [body EXCEPT ![r] = body'[r]] /\ Follows(body'[r], r, 0)
             /\ Len(body'[r]) = Len(body[r]) + n /\ Len(body'[r]) <= Reached(r)
             /\ client' = IF Len(body'[r]) = contentLength[r] THEN EndResponse(r) ELSE client
             /\ IF Len(body'[r]) = Reached(r)
                THEN ~paused' /\ blocked' = [blocked EXCEPT ![r] = FALSE]
                ELSE /\ paused' = paused /\ blocked' = [blocked EXCEPT ![r] = TRUE]
                     /\ buffer' = buffer
      BY <1>5, <1>7, <1>12, <2>1, RetryServes
    <2>3. contentLength[r] \in Nat \ {0}
      BY <1>1, <1>7, <1>9, <1>12 DEF Serving
    <2>4. Reached(r) \in Nat /\ Reached(r) = buffer.offset + Len(buffer.data)
      <3>1. buffer.offset \in Nat /\ buffer.data \in Seq(Units)
        BY DEF TypeOK
      <3> QED
        BY <2>1, <3>1 DEF Reached
    <2>5. Reached(r) <= e /\ e <= contentLength[r] /\ (e = contentLength[r] => wire = <<>>)
      <3>1. Reached(r) <= e
        BY <1>9, <1>10, <2>4, ChainBound
      <3>2. /\ wire # <<>> => e = rx.read /\ contentLength[r] = rx.size
            /\ wire = <<>> => e = contentLength[r]
        BY <1>10, <2>3 DEF ReadTo
      <3> QED
        BY <2>3, <3>1, <3>2, PositionFixed, SizeBounds DEF Orderly
    <2>6. Len(body'[r]) \in Nat
      BY <1>9, <2>2
    <2>7. Len(body'[r]) = contentLength[r] =>
             Len(body'[r]) = Reached(r) /\ Unread = <<>>
      <3>1. Len(body'[r]) = contentLength[r] =>
               Len(body'[r]) = Reached(r) /\ e = contentLength[r]
        BY <2>2, <2>3, <2>4, <2>5, <2>6
      <3>2. wire = <<>> => Unread = <<>>
        BY <1>4, <1>6, AllRead DEF Orderly
      <3> QED
        BY <2>5, <3>1, <3>2
    <2>8. /\ \A q \in Requests \ {r} : /\ body'[q] = body[q] /\ client'[q] = client[q]
                                       /\ blocked'[q] = blocked[q]
          /\ client'[r] = IF Len(body'[r]) = contentLength[r] THEN "done" ELSE "open"
      <3>1. \A q \in Requests \ {r} : body'[q] = body[q]
        BY <2>2 DEF TypeOK
      <3>2. \A q \in Requests \ {r} : blocked'[q] = blocked[q]
        <4>1. blocked' = [blocked EXCEPT ![r] = FALSE] \/ blocked' = [blocked EXCEPT ![r] = TRUE]
          BY <2>2
        <4> QED
          BY <4>1 DEF TypeOK
      <3>3. /\ EndResponse(r)[r] = "done"
            /\ \A q \in Requests \ {r} : EndResponse(r)[q] = client[q]
        BY <1>1 DEF EndResponse, Ended, TypeOK
      <3> QED
        BY <1>1, <2>2, <3>1, <3>2, <3>3
    <2>9. Pending' = Pending
      BY <2>1 DEF Pending
    <2>10. ~Early(r)'
      BY <1>1, <1>4, <1>6, <1>8, <2>1, <2>9 DEF Early
    <2>11. Alone'
      BY <1>1, <1>8, <2>1 DEF Orderly, Alone
    <2>12. \A q \in Requests \ {r} : ~(client[q] = "open" /\ blocked[q])
      BY <1>2 DEF Safe, BlockedIsHead
    <2>13. Pauses'
      <3>1. CASE Len(body'[r]) = Reached(r)
        <4>1. ~paused' /\ blocked' = [blocked EXCEPT ![r] = FALSE]
          BY <2>2, <3>1
        <4>2. ~blocked'[r]
          BY <4>1 DEF TypeOK
        <4> QED
          BY <2>8, <2>12, <4>1, <4>2 DEF Pauses, PausedHeadBlocked
      <3>2. CASE Len(body'[r]) # Reached(r)
        <4>1. paused' /\ blocked'[r] /\ client'[r] = "open"
          BY <1>1, <2>2, <2>7, <2>8, <3>2 DEF TypeOK, Orderly, Pauses
        <4>2. pending' # <<>> /\ Head(pending') = r
          BY <1>2, <2>1
        <4> QED
          BY <4>1, <4>2 DEF Pauses, PausedHeadBlocked
      <3> QED
        BY <3>1, <3>2
    <2>14. Got(r)'
      <3>1. heads[r] = <<r>> /\ <<r>> # <<>>
        BY <1>7, OnlyElement DEF Serving
      <3> QED
        BY <1>1, <1>8, <2>2, <2>7, <2>8, <2>10, <3>1 DEF Got
    <2>15. \A q \in Requests \ {r} : Got(q)'
      BY <1>1, <1>4, <2>8, <2>9, KeepOthers DEF Orderly
    <2>16. ASSUME client'[r] = "open" PROVE Serving(r)'
      <3>1. Reached(r)' = Reached(r) /\ (Retries(r)' => buffer' = buffer /\ Len(body'[r]) < Reached(r))
        <4>1. CASE Len(body'[r]) = Reached(r)
          <5>1. blocked' = [blocked EXCEPT ![r] = FALSE]
            BY <2>2, <4>1
          <5>2. ~Retries(r)'
            BY <5>1 DEF Retries, TypeOK
          <5> QED
            BY <4>1, <5>2 DEF Reached
        <4>2. CASE Len(body'[r]) # Reached(r)
          <5>1. blocked' = [blocked EXCEPT ![r] = TRUE] /\ buffer' = buffer
            BY <2>2, <4>2
          <5>2. Retries(r)'
            <6>1. blocked'[r]
              BY <5>1 DEF TypeOK
            <6> QED
              BY <1>1, <1>12, <2>16, <6>1 DEF Retries
          <5>3. Len(body'[r]) < Reached(r)
            BY <2>2, <2>4, <2>6, <4>2
          <5> QED
            BY <2>4, <5>1, <5>2, <5>3 DEF Reached
        <4> QED
          BY <4>1, <4>2
      <3>2. Chained(stream', r, Reached(r)', e)
        BY <1>1, <1>10, <3>1
      <3>3. /\ heads'[r] = <<r>>
            /\ contentLength'[r] > 0 =>
                  writable'[r] = "retry" /\ \A k \in 1 .. Len(stream') : stream'[k].data # <<>>
            /\ contentLength'[r] # 0 /\ writable'[r] # "end"
        BY <1>1, <1>7, <1>12, <2>3 DEF Serving
      <3>4. Retries(r)' => /\ buffer'.total = contentLength'[r]
                           /\ Follows(buffer'.data, r, buffer'.offset)
                           /\ Len(body'[r]) < Reached(r)'
        BY <1>1, <1>7, <2>1, <3>1 DEF Serving
      <3> QED
        BY <1>11, <3>2, <3>3, <3>4 DEF Serving
    <2>17. Served'
      BY <1>4, <2>9, <2>16 DEF Served
    <2> QED
      BY <1>8, <2>11, <2>13, <2>14, <2>15, <2>17 DEF Orderly
  <1>13. ASSUME writable[r] # "retry", UNCHANGED <<buffer, body>>,
                blocked' = [blocked EXCEPT ![r] = FALSE]
         PROVE  /\ contentLength[r] = 0 /\ ~blocked'[r]
                /\ Reached(r)' = Reached(r) /\ ~Retries(r)'
                /\ \A q \in Requests \ {r} : blocked'[q] = blocked[q]
                /\ \A q \in Requests : ~(client[q] = "open" /\ blocked'[q])
    <2>1. ~blocked'[r] /\ \A q \in Requests \ {r} : blocked'[q] = blocked[q]
      BY <1>13 DEF TypeOK
    <2>2. contentLength[r] = 0
      BY <1>7, <1>9, <1>13 DEF Serving
    <2>3. ~Retries(r) /\ ~Retries(r)'
      BY <1>1, <1>13 DEF Retries
    <2>4. \A q \in Requests : ~(client[q] = "open" /\ blocked'[q])
      BY <1>2, <2>1 DEF Safe, BlockedIsHead
    <2> QED
      BY <1>13, <2>1, <2>2, <2>3, <2>4 DEF Reached
  <1>14. CASE /\ writable[r] = "resume" /\ ~paused'
              /\ blocked' = [blocked EXCEPT ![r] = FALSE]
              /\ UNCHANGED <<pending, buffer, client, body>>
    <2>1. Pending' = Pending /\ ~Early(r)'
      BY <1>1, <1>4, <1>6, <1>8, <1>14 DEF Early, Pending
    <2>2. Alone'
      BY <1>1, <1>8, <1>14 DEF Orderly, Alone
    <2>3. Pauses'
      BY <1>13, <1>14 DEF Pauses, PausedHeadBlocked
    <2>4. Got(r)'
      BY <1>1, <1>5, <1>14, <2>1 DEF Got
    <2>5. \A q \in Requests \ {r} : Got(q)'
      BY <1>1, <1>4, <1>13, <1>14, <2>1, KeepOthers DEF Orderly
    <2>6. Serving(r)'
      <3>1. Chained(stream', r, Reached(r)', e)
        BY <1>1, <1>10, <1>13, <1>14
      <3>2. heads'[r] = <<r>> /\ contentLength'[r] = 0
        BY <1>1, <1>7, <1>13, <1>14 DEF Serving
      <3> QED
        BY <1>11, <1>13, <1>14, <3>1, <3>2 DEF Serving
    <2> QED
      BY <1>4, <1>8, <2>1, <2>2, <2>3, <2>4, <2>5, <2>6 DEF Orderly, Served
  <1>15. CASE /\ writable[r] = "end" /\ client' = EndResponse(r)
              /\ pending' = <<>> /\ ~paused'
              /\ blocked' = [blocked EXCEPT ![r] = FALSE]
              /\ UNCHANGED <<buffer, body>>
    <2>1. stream = <<>> /\ wire = <<>>
      BY <1>1, <1>7, <1>15 DEF Serving
    <2>2. Unread' = <<>> /\ Pending' = {}
      BY <1>4, <1>6, <1>8, <1>15, <2>1, AllRead, EmptyToSet DEF Orderly, Pending
    <2>3. Alone'
      BY <1>1, <1>15, <2>1, <2>2 DEF Alone
    <2>4. Pauses'
      BY <1>15 DEF Pauses, PausedHeadBlocked, Safe, BlockedIsHead
    <2>5. Got(r)'
      <3>1. heads[r] = <<r>> /\ <<r>> # <<>>
        BY <1>7, OnlyElement DEF Serving
      <3>2. ~Early(r)'
        BY <1>1, <1>6, <2>2 DEF Early
      <3> QED
        BY <1>1, <1>5, <1>13, <1>15, <2>2, <3>1, <3>2 DEF Got
    <2>6. \A q \in Requests \ {r} : client'[q] = client[q]
      BY <1>15 DEF EndResponse, TypeOK
    <2>7. \A q \in Requests \ {r} : Got(q)'
      BY <1>1, <1>13, <1>15, <2>2, <2>6, KeepOthers DEF Orderly
    <2> QED
      BY <1>8, <2>2, <2>3, <2>4, <2>5, <2>7 DEF Orderly, Served
  <1> QED
    BY <1>2, <1>4, <1>12, <1>14, <1>15 DEF OnWritable

LEMMA NextOrderly ==
    ASSUME Single, TypeOK, TypeOK', Safe, Safe', Orderly, [Next]_vars
    PROVE  Orderly'
  <1>1. ASSUME NEW r \in Requests, ScheduleSend(r) PROVE Orderly'
    <2>1. CASE (socket = "closed" \/ Full) /\ Refuse(r)
      BY <1>1, <2>1, RefuseOrderly
    <2>2. CASE socket # "closed" /\ ~Full /\ Enqueue(r)
      BY <1>1, <2>2, EnqueueOrderly
    <2> QED
      BY <1>1, <2>1, <2>2 DEF ScheduleSend
  <1>2. ASSUME UNCHANGED vars PROVE Orderly'
    <2>1. UNCHANGED <<pending, paused, stream, contentLength, buffer, client, heads, body,
                      blocked, writable, stage, failures, immediates, socket, wire, rx>>
      BY <1>2 DEF vars, queueVars, responseVars, requestVars, serverVars
    <2>2. Pending' = Pending /\ Unread' = Unread /\ \A q \in Requests : Early(q)' = Early(q)
      BY <2>1 DEF Pending, Unread, Early
    <2>3. Alone' /\ Position' /\ Pauses'
      BY <2>1, <2>2 DEF Orderly, Alone, Position, Pauses, PausedHeadBlocked
    <2>4. ASSUME NEW q \in Requests PROVE Got(q)'
      <3>1. Got(q)
        BY DEF Orderly
      <3>2. q \in Pending' /\ client[q] = "done" => Unread' = <<>>
        BY <2>2, <3>1 DEF Got
      <3> QED
        BY <2>1, <2>2, <3>1, <3>2, KeepGot
    <2>5. ASSUME NEW q \in Pending', client'[q] = "open", ~Early(q)' PROVE Serving(q)'
      <3>1. q \in Requests /\ Serving(q)
        BY <2>1, <2>2, <2>5, PendingType DEF Orderly, Served
      <3> QED
        BY <2>1, <3>1, KeepServed
    <2> QED
      BY <2>3, <2>4, <2>5 DEF Orderly, Served
  <1> QED
    BY <1>1, <1>2, NextActions, HandleRequestOrderly, AbortOrderly, OnWritableOrderly,
       ConnectionOrderly, FlowOrderly, HeadersOrderly, BodyChunkOrderly

-----------------------------------------------------------------------------
(***************************************************************************)
(* The theorems.                                                           *)
(***************************************************************************)

\* The inductive invariant holds initially and is kept by every step.
THEOREM SingleIsOrderly == Single /\ Spec => []SingleInvariant
  <1>1. Single /\ Init => SingleInvariant
    BY InitType, InitSafe, InitOrderly DEF SingleInvariant
  <1>2. SingleInvariant /\ [Next]_vars => SingleInvariant'
    <2> SUFFICES ASSUME Single, TypeOK, Safe, Orderly, [Next]_vars
                 PROVE  Single' /\ TypeOK' /\ Safe' /\ Orderly'
      BY DEF SingleInvariant
    <2>1. TypeOK'
      BY NextType DEF Safe
    <2>2. Safe'
      BY NextSafe
    <2>3. Single'
      BY DEF Single
    <2> QED
      BY <2>1, <2>2, <2>3, NextOrderly
  <1> QED
    BY <1>1, <1>2, PTL DEF Spec

\* When requests are not pipelined, the response goes to the client that asked,
\* also when clients are slow, leave or are cut off by a closing connection.
THEOREM SingleHeadersGoHome == Single /\ Spec => []HeadersMatch
  <1>1. SingleInvariant => HeadersMatch
    BY DEF SingleInvariant, Orderly, Got, HeadersMatch
  <1> QED
    BY <1>1, SingleIsOrderly, PTL

\* Neither the pause of the stream nor the retries of the pending buffer lose,
\* repeat or reorder a unit of the body, as long as requests are not pipelined.
THEOREM SingleBodiesGoHome == Single /\ Spec => []BodyMatch
  <1>1. SingleInvariant => BodyMatch
    BY DEF SingleInvariant, Orderly, Got, Follows, BodyMatch
  <1> QED
    BY <1>1, SingleIsOrderly, PTL

\* The stream never stays paused for a client that is not behind or has left.
THEOREM SinglePauseHasAReason == Single /\ Spec => []PausedHeadBlocked
  <1>1. SingleInvariant => PausedHeadBlocked
    BY DEF SingleInvariant, Orderly, Pauses
  <1> QED
    BY <1>1, SingleIsOrderly, PTL

\* A response that ended without an error is a whole one, however often the
\* client was behind.
THEOREM SingleDoneIsComplete == Single /\ Spec => []DoneIsComplete
  <1>1. SingleInvariant => DoneIsComplete
    <2> SUFFICES ASSUME SingleInvariant, NEW r \in Requests,
                        client[r] = "done", failures[r] = 0
                 PROVE  /\ heads[r] # <<>> /\ r \notin ToSet(wire)
                        /\ contentLength[r] > 0 => Len(body[r]) = contentLength[r]
      BY DEF DoneIsComplete
    <2>1. Single /\ TypeOK /\ Alone /\ Got(r)
      BY DEF SingleInvariant, Orderly
    <2>2. r \notin ToSet(wire)
      <3>1. CASE wire = <<>>
        BY <3>1, EmptyToSet
      <3>2. CASE wire # <<>>
        <4>1. PICK q \in Requests : pending = <<q>> /\ wire = <<q>>
          BY <2>1, <3>2, ReadsForIt
        <4>2. Unread # <<>> /\ Pending = {q} /\ ToSet(wire) = {q}
          BY <2>1, <3>2, <4>1, ReadsForIt, OnlyOneIs DEF Pending
        <4> QED
          BY <2>1, <4>2 DEF Got
      <3> QED
        BY <3>1, <3>2
    <2> QED
      BY <2>1, <2>2 DEF Got
  <1> QED
    BY <1>1, SingleIsOrderly, PTL
=============================================================================
