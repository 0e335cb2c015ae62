---------------------------- MODULE SenderProofs ----------------------------
(***************************************************************************)
(* Theorems about Sender, for every set of requests, every length of their *)
(* bodies and every limit on the chunks kept under backpressure.           *)
(***************************************************************************)
EXTENDS Sender, SequenceFacts, TLAPS

\* A request whose head is still to be written is scheduled once.
Line ==
    /\ Distinct(immediates)
    /\ \A r \in ToSet(immediates) : stage[r] = "scheduled"

\* A listener is registered once and waits for what its request waits for.
Registered(l) == IF l.for = "head" THEN stage[l.of] = "waiting"
                 ELSE context[l.of].backpressure
Waiters ==
    /\ Distinct(listeners) /\ Distinct(emitting)
    /\ \A l \in ToSet(listeners) : l \notin ToSet(emitting)
    /\ \A l \in ToSet(listeners) \cup ToSet(emitting) : Registered(l)

\* The context of a body counts what was written, the chunk under backpressure
\* excepted, and keeps fewer chunks than the limit while the process lives.
Body(r) ==
    /\ stage[r] # "streaming" => upload[r] = <<>> /\ context[r] = Fresh
    /\ stage[r] = "streaming" => framing[r] # "plain"
    /\ context[r].written + (IF context[r].backpressure THEN 1 ELSE 0) = Len(upload[r])
    /\ ~crashed => Len(context[r].stacked) < MaxStacked
    /\ ~context[r].backpressure /\ context[r].stacked # <<>> => r \in stranded
Bodies == \A r \in Requests : Body(r)

\* Only the body of a client that left is ended in its place.
Ends == \A r \in Requests : ending[r].by # "client" => client[r] = "aborted"

\* What BodyIsWhole says of the chunks of one request, when n have arrived.
AreWhole(chunks, r, n, strand) ==
    /\ Len(chunks) = n - lost[r]
    /\ ToSet(chunks) = (lost[r] + 1) .. n
    /\ r \notin strand => \A i \in DOMAIN chunks : chunks[i] = lost[r] + i

\* The inductive invariant.
Inv == TypeOK /\ Line /\ Waiters /\ Bodies /\ BodyIsWhole /\ Ends

Stages == {"new", "connecting", "scheduled", "waiting", "streaming", "sent"}
Contexts == [backpressure : BOOLEAN, written : 0 .. Size, stacked : Seq(1 .. Size)]
Endings == [by : {"client", "terminator", "zeros", "nothing"}, zeros : 0 .. Size]

-----------------------------------------------------------------------------
(***************************************************************************)
(* Contexts and listeners.                                                 *)
(***************************************************************************)

LEMMA StackType ==
    ASSUME NEW c \in Contexts, NEW chunk \in 1 .. Size
    PROVE  /\ Stack(c, chunk) \in Contexts
           /\ Stack(c, chunk).backpressure = c.backpressure
           /\ Stack(c, chunk).written = c.written
           /\ Stack(c, chunk).stacked = Append(c.stacked, chunk)
  <1>1. Append(c.stacked, chunk) \in Seq(1 .. Size)
    BY DEF Contexts
  <1> QED
    BY <1>1 DEF Stack, Contexts

LEMMA CountType ==
    ASSUME NEW c \in Contexts, NEW ok \in BOOLEAN, c.written < Size
    PROVE  /\ Count(c, ok) \in Contexts
           /\ Count(c, ok).backpressure = ~ok
           /\ ok => Count(c, ok).written = c.written + 1
           /\ ~ok => Count(c, ok).written = c.written
           /\ Count(c, ok).stacked = c.stacked
  <1>1. Size \in Nat /\ c.written + 1 \in 0 .. Size
    BY SenderAssumption DEF Contexts
  <1> QED
    BY <1>1 DEF Count, Contexts

LEMMA UnstackType ==
    ASSUME NEW c \in Contexts, c.written < Size, c.stacked # <<>>
    PROVE  /\ Unstack(c) \in Contexts
           /\ Unstack(c).backpressure = FALSE
           /\ Unstack(c).written = c.written + 1
           /\ Unstack(c).stacked = Tail(c.stacked)
  <1>1. Size \in Nat /\ c.written + 1 \in 0 .. Size
    BY SenderAssumption DEF Contexts
  <1>2. Tail(c.stacked) \in Seq(1 .. Size)
    BY DEF Contexts
  <1> QED
    BY <1>1, <1>2 DEF Unstack, Contexts

\* With the context c of r, a chunk is stacked, or written and then counted or
\* under backpressure; d is the context afterwards and v what was written.
Sent(r, c, chunk, d, v) ==
    /\ context' = [context EXCEPT ![r] = d]
    /\ upload' = [upload EXCEPT ![r] = v]
    /\ d.written + (IF d.backpressure THEN 1 ELSE 0) = Len(v)
    /\ \/ /\ c.backpressure /\ d.backpressure
          /\ d.stacked = Append(c.stacked, chunk) /\ v = upload[r]
          /\ listeners' = listeners
       \/ /\ ~c.backpressure /\ d.stacked = c.stacked
          /\ v = Append(upload[r], chunk)
          /\ \/ ~d.backpressure /\ listeners' = listeners
             \/ /\ d.backpressure
                /\ listeners' = Append(listeners, [of |-> r, for |-> "chunk"])

LEMMA TrySendChunkType ==
    ASSUME NEW r \in Requests, NEW c \in Contexts, NEW chunk \in 1 .. Size,
           NEW ok \in BOOLEAN, TrySendChunk(r, c, chunk, ok),
           context \in [Requests -> Contexts], upload \in [Requests -> Seq(1 .. Size)],
           c.written + (IF c.backpressure THEN 1 ELSE 0) = Len(upload[r]),
           Len(upload[r]) < Size
    PROVE  \E d \in Contexts, v \in Seq(1 .. Size) : Sent(r, c, chunk, d, v)
  <1>1. CASE c.backpressure
    <2>1. /\ context' = [context EXCEPT ![r] = Stack(c, chunk)]
          /\ upload' = upload /\ listeners' = listeners
      BY <1>1 DEF TrySendChunk
    <2>2. upload' = [upload EXCEPT ![r] = upload[r]] /\ upload[r] \in Seq(1 .. Size)
      BY <2>1
    <2> QED
      BY <1>1, <2>1, <2>2, StackType DEF Sent
  <1>2. CASE ~c.backpressure
    <2>1. /\ context' = [context EXCEPT ![r] = Count(c, ok)]
          /\ upload' = [upload EXCEPT ![r] = Append(upload[r], chunk)]
          /\ listeners' = IF ok THEN listeners
                          ELSE Append(listeners, [of |-> r, for |-> "chunk"])
      BY <1>2 DEF TrySendChunk
    <2>2. c.written = Len(upload[r]) /\ c.written < Size
      BY <1>2 DEF Contexts
    <2>3. /\ Append(upload[r], chunk) \in Seq(1 .. Size)
          /\ Len(Append(upload[r], chunk)) = Len(upload[r]) + 1
          /\ Len(upload[r]) \in Nat
      OBVIOUS
    <2> DEFINE d == Count(c, ok)
    <2>4. /\ d \in Contexts /\ d.backpressure = ~ok /\ d.stacked = c.stacked
          /\ ok => d.written = c.written + 1
          /\ ~ok => d.written = c.written
      BY <2>2, CountType
    <2> HIDE DEF d
    <2>5. d.written + (IF d.backpressure THEN 1 ELSE 0) = Len(Append(upload[r], chunk))
      <3>1. c.written \in Nat
        BY DEF Contexts
      <3>2. CASE ok
        <4>1. ~d.backpressure
          BY <2>4, <3>2, Zenon
        <4>2. d.written = c.written + 1 /\ Len(Append(upload[r], chunk)) = c.written + 1
          BY <2>2, <2>3, <2>4, <3>2
        <4> QED
          BY <3>1, <4>1, <4>2
      <3>3. CASE ~ok
        BY <2>2, <2>3, <2>4, <3>1, <3>3
      <3> QED
        BY <3>2, <3>3
    <2> QED
      BY <1>2, <2>1, <2>3, <2>4, <2>5 DEF d, Sent
  <1> QED
    BY <1>1, <1>2

LEMMA ListenerType ==
    ASSUME NEW r \in Requests, NEW what \in {"head", "chunk"}
    PROVE  LET l == [of |-> r, for |-> what]
           IN  l \in Listeners /\ l.of = r /\ l.for = what
  BY DEF Listeners

LEMMA ListenersType ==
    ASSUME Inv
    PROVE  /\ ToSet(listeners) \subseteq Listeners /\ ToSet(emitting) \subseteq Listeners
           /\ \A l \in Listeners : l.of \in Requests /\ l.for \in {"head", "chunk"}
  <1>1. listeners \in Seq(Listeners) /\ emitting \in Seq(Listeners)
    BY DEF Inv, TypeOK
  <1>2. ToSet(listeners) \subseteq Listeners /\ ToSet(emitting) \subseteq Listeners
    BY <1>1 DEF ToSet
  <1> QED
    BY <1>2 DEF Listeners

-----------------------------------------------------------------------------
(***************************************************************************)
(* Steps that send no chunk.                                               *)
(***************************************************************************)

\* A step that leaves the chunks alone keeps what is said of the bodies.
LEMMA BodiesKept ==
    ASSUME Inv, UNCHANGED <<framing, arrived, lost, context, upload, stranded>>,
           \A r \in Requests : stage'[r] = "streaming" <=> stage[r] = "streaming",
           ~crashed
    PROVE  Bodies' /\ BodyIsWhole'
  BY DEF Inv, Bodies, Body, BodyIsWhole

\* So does one by which the body of r can be streamed.
LEMMA BodiesStart ==
    ASSUME Inv, UNCHANGED <<framing, arrived, lost, context, upload, stranded>>,
           NEW r \in Requests,
           \A q \in Requests \ {r} : stage'[q] = stage[q],
           stage[r] # "streaming", stage'[r] = "streaming" => framing[r] # "plain",
           ~crashed
    PROVE  Bodies' /\ BodyIsWhole'
  BY DEF Inv, Bodies, Body, BodyIsWhole

LEMMA TypeParts ==
    ASSUME Inv
    PROVE  /\ TypeOK
           /\ framing \in [Requests -> Framings] /\ stage \in [Requests -> Stages]
           /\ client \in [Requests -> {"open", "aborted"}]
           /\ arrived \in [Requests -> 0 .. Size] /\ lost \in [Requests -> 0 .. Size]
           /\ context \in [Requests -> Contexts]
           /\ upload \in [Requests -> Seq(1 .. Size)]
           /\ ending \in [Requests -> Endings]
           /\ listeners \in Seq(Listeners) /\ emitting \in Seq(Listeners)
           /\ stranded \subseteq Requests /\ crashed \in BOOLEAN
  BY DEF Inv, TypeOK, Stages, Contexts, Endings

LEMMA TypeKept ==
    ASSUME TypeOK, UNCHANGED <<framing, arrived, lost, context, upload, stranded>>,
           stage' \in [Requests -> Stages], client' \in [Requests -> {"open", "aborted"}],
           immediates' \in Seq(Requests),
           ending' \in [Requests -> Endings], listeners' \in Seq(Listeners),
           emitting' \in Seq(Listeners), crashed' \in BOOLEAN
    PROVE  TypeOK'
  BY DEF TypeOK, Stages, Endings

\* A step that leaves the listeners alone, and what they wait for.
LEMMA WaitersKept ==
    ASSUME Inv, UNCHANGED <<listeners, emitting, context>>,
           \A r \in Requests : stage[r] = "waiting" => stage'[r] = "waiting"
    PROVE  Waiters'
  <1>1. \A l \in ToSet(listeners) \cup ToSet(emitting) : Registered(l) /\ l \in Listeners
    BY ListenersType DEF Inv, Waiters
  <1>2. \A l \in ToSet(listeners) \cup ToSet(emitting) : Registered(l)'
    BY <1>1 DEF Registered, Listeners
  <1> QED
    BY <1>2 DEF Inv, Waiters

LEMMA QueueType ==
    ASSUME Inv
    PROVE  immediates \in Seq(Requests) /\ ToSet(immediates) \subseteq Requests
  <1>1. immediates \in Seq(Requests)
    BY DEF Inv, TypeOK
  <1> QED
    BY <1>1 DEF ToSet

LEMMA HandleRequestStep ==
    ASSUME Inv, NEW r \in Requests, HandleRequest(r) PROVE Inv'
  <1>1. stage[r] = "new" /\ stage' = [stage EXCEPT ![r] = "connecting"]
    BY DEF HandleRequest
  <1>2. TypeOK'
    BY DEF HandleRequest, Inv, TypeOK, clientVars, socketVars
  <1>3. r \notin ToSet(immediates)
    BY <1>1 DEF Inv, Line
  <1>4. Line'
    <2>1. stage' \in [Requests -> Stages] /\ \A q \in Requests \ {r} : stage'[q] = stage[q]
      BY <1>1 DEF Inv, TypeOK, Stages
    <2> QED
      BY <1>3, <2>1, QueueType
      DEF HandleRequest, Inv, Line
  <1>5. Waiters'
    BY <1>1, WaitersKept DEF HandleRequest, Inv, TypeOK, socketVars
  <1>6. Bodies' /\ BodyIsWhole'
    BY <1>1, BodiesKept DEF HandleRequest, CallbackMayRun, Inv, TypeOK, clientVars, socketVars
  <1>7. Ends'
    BY DEF HandleRequest, Inv, Ends, socketVars
  <1> QED
    BY <1>2, <1>4, <1>5, <1>6, <1>7 DEF Inv

LEMMA ScheduleStep ==
    ASSUME Inv, NEW r \in Requests, Schedule(r) PROVE Inv'
  <1>1. /\ stage[r] = "connecting" /\ stage' = [stage EXCEPT ![r] = "scheduled"]
        /\ immediates' = Append(immediates, r) /\ immediates \in Seq(Requests)
    BY DEF Schedule, Inv, TypeOK, socketVars
  <1>2. r \notin ToSet(immediates)
    BY <1>1 DEF Inv, Line
  <1>3. /\ ToSet(immediates') = ToSet(immediates) \cup {r} /\ Distinct(immediates')
        /\ immediates' \in Seq(Requests)
    BY <1>1, <1>2, AppendToSet, AppendDistinct DEF Inv, Line
  <1>4. TypeOK'
    <2>1. stage' \in [Requests -> Stages]
      BY <1>1, TypeParts DEF Schedule, Stages
    <2>2. UNCHANGED <<framing, client, arrived, lost, context, upload, ending,
                      listeners, emitting, stranded, crashed>>
      BY DEF Schedule, clientVars, socketVars
    <2> QED
      BY <1>1, <1>3, <2>1, <2>2, TypeParts, TypeKept
  <1>6. Line'
    <2>1. stage'[r] = "scheduled" /\ \A q \in Requests \ {r} : stage'[q] = stage[q]
      BY <1>1 DEF Inv, TypeOK
    <2>2. \A q \in ToSet(immediates) : q \in Requests /\ stage[q] = "scheduled"
      BY QueueType DEF Inv, Line
    <2> QED
      BY <1>3, <2>1, <2>2 DEF Line
  <1>7. Waiters'
    BY <1>1, WaitersKept DEF Schedule, Inv, TypeOK, socketVars
  <1>8. Bodies' /\ BodyIsWhole'
    BY <1>1, BodiesKept DEF Schedule, CallbackMayRun, Inv, TypeOK, clientVars, socketVars
  <1>9. Ends'
    BY DEF Schedule, Inv, Ends, socketVars
  <1> QED
    BY <1>4, <1>6, <1>7, <1>8, <1>9 DEF Inv

\* What becomes of a request whose body may be streamed.
LEMMA StreamType ==
    ASSUME Inv, NEW r \in Requests, Stream(r)
    PROVE  /\ stage' \in [Requests -> Stages] /\ crashed' \in BOOLEAN
           /\ \A q \in Requests \ {r} : stage'[q] = stage[q]
           /\ stage'[r] \in {stage[r], "streaming", "sent"}
           /\ stage'[r] = "streaming" => stage[r] = "streaming" \/ framing[r] # "plain"
  <1>1. stage \in [Requests -> Stages] /\ crashed \in BOOLEAN
    BY DEF Inv, TypeOK, Stages
  <1>2. CASE framing[r] = "plain"
    BY <1>1, <1>2 DEF Stream, Stages
  <1>3. CASE framing[r] # "plain" /\ client[r] = "open"
    BY <1>1, <1>3 DEF Stream, Stages
  <1>4. CASE framing[r] # "plain" /\ client[r] # "open"
    BY <1>1, <1>4 DEF Stream, Stages
  <1> QED
    BY <1>2, <1>3, <1>4

LEMMA SendStep == ASSUME Inv, Send PROVE Inv'
  <1>1. immediates \in Seq(Requests) /\ immediates # <<>> /\ Distinct(immediates)
        /\ ~crashed
    BY DEF Send, CallbackMayRun, Inv, TypeOK, Line
  <1>0. PICK r \in Requests : r = Head(immediates)
    BY <1>1, TailToSet
  <1> DEFINE l == [of |-> r, for |-> "head"]
  <1>2. /\ r \in Requests /\ r \in ToSet(immediates) /\ stage[r] = "scheduled"
        /\ immediates' = Tail(immediates) /\ Tail(immediates) \in Seq(Requests)
        /\ ToSet(immediates') = ToSet(immediates) \ {r} /\ Distinct(immediates')
    BY <1>0, <1>1, TailToSet, TailDistinct DEF Send, Inv, Line
  <1>3. PICK ok \in BOOLEAN :
           /\ WriteHead(r, ok)
           /\ IF ok THEN Stream(r)
              ELSE stage' = [stage EXCEPT ![r] = "waiting"] /\ crashed' = crashed
    BY <1>0 DEF Send
  <1>4. /\ stage' \in [Requests -> Stages] /\ crashed' \in BOOLEAN
        /\ \A q \in Requests \ {r} : stage'[q] = stage[q]
        /\ stage'[r] \in {"scheduled", "streaming", "sent", "waiting"}
        /\ stage'[r] = "streaming" => framing[r] # "plain"
        /\ ~ok => stage'[r] = "waiting"
    <2>1. CASE ok
      BY <1>2, <1>3, <2>1, StreamType
    <2>2. CASE ~ok
      BY <1>2, <1>3, <2>2 DEF Inv, TypeOK, Stages
    <2> QED
      BY <2>1, <2>2
  <1>5. UNCHANGED <<framing, client, arrived, lost, context, upload, ending,
                    emitting, stranded>>
    BY DEF Send, clientVars
  <1>8. Line'
    <2>1. \A q \in ToSet(immediates) : q \in Requests /\ stage[q] = "scheduled"
      BY QueueType DEF Inv, Line
    <2> QED
      BY <1>2, <1>4, <2>1 DEF Line
  <1>9. /\ listeners \in Seq(Listeners) /\ emitting \in Seq(Listeners)
        /\ l \in Listeners /\ l.of = r /\ l.for = "head"
    BY <1>2, ListenerType DEF Inv, TypeOK
  <1>10. l \notin ToSet(listeners) /\ l \notin ToSet(emitting)
    BY <1>2, <1>9 DEF Inv, Waiters, Registered
  <1>11. /\ listeners' \in Seq(Listeners) /\ Distinct(listeners')
         /\ ToSet(listeners') = ToSet(listeners) \cup (IF ok THEN {} ELSE {l})
    <2>1. CASE ok
      BY <1>3, <1>9, <2>1 DEF WriteHead, Inv, Waiters
    <2>2. CASE ~ok
      <3>1. listeners' = Append(listeners, l)
        BY <1>3, <2>2 DEF WriteHead
      <3> HIDE DEF l
      <3>2. Append(listeners, l) \in Seq(Listeners)
        BY <1>9
      <3> QED
        BY <1>9, <1>10, <2>2, <3>1, <3>2, AppendToSet, AppendDistinct DEF Inv, Waiters
    <2> QED
      BY <2>1, <2>2
  <1>12. Waiters'
    <2>1. ASSUME NEW k \in ToSet(listeners) \cup ToSet(emitting) PROVE Registered(k)'
      <3>1. k \in Listeners /\ Registered(k)
        BY ListenersType DEF Inv, Waiters
      <3> QED
        BY <1>2, <1>4, <1>5, <3>1 DEF Registered, Listeners
    <2> HIDE DEF l
    <2>2. ~ok => Registered(l)'
      BY <1>4, <1>9 DEF Registered
    <2> QED
      BY <1>5, <1>10, <1>11, <2>1, <2>2 DEF Inv, Waiters
  <1>13. TypeOK'
    BY <1>1, <1>2, <1>4, <1>5, <1>11, TypeParts, TypeKept
  <1>14. Bodies' /\ BodyIsWhole'
    <2>1. stage[r] # "streaming"
      BY <1>2
    <2> QED
      BY <1>1, <1>2, <1>4, <1>5, <2>1, BodiesStart
  <1>15. Ends'
    BY <1>5 DEF Inv, Ends
  <1> QED
    BY <1>8, <1>12, <1>13, <1>14, <1>15 DEF Inv

LEMMA DataLostStep ==
    ASSUME Inv, NEW r \in Requests, Data(r), stage[r] # "streaming" PROVE Inv'
  <1>1. /\ arrived[r] < Size /\ ~crashed
        /\ arrived' = [arrived EXCEPT ![r] = @ + 1] /\ lost' = [lost EXCEPT ![r] = @ + 1]
        /\ UNCHANGED <<framing, stage, client, immediates, context,
                       upload, ending, listeners, emitting, stranded, crashed>>
    BY DEF Data, CallbackMayRun, requestVars
  <1>2. /\ upload[r] = <<>> /\ context[r].stacked = <<>>
        /\ Len(upload[r] \o context[r].stacked) = arrived[r] - lost[r]
    <2>1. upload[r] = <<>> /\ context[r] = Fresh
      BY DEF Inv, Bodies, Body
    <2>2. Len(upload[r] \o context[r].stacked) = arrived[r] - lost[r]
      BY DEF Inv, BodyIsWhole
    <2> QED
      BY <2>1, <2>2 DEF Fresh
  <1>3. arrived[r] \in 0 .. Size /\ lost[r] \in 0 .. Size /\ Size \in Nat
    BY SenderAssumption, TypeParts
  <1>4. arrived[r] = lost[r]
    BY <1>2, <1>3
  <1>5. /\ arrived'[r] = arrived[r] + 1 /\ lost'[r] = lost[r] + 1
        /\ \A q \in Requests \ {r} : arrived'[q] = arrived[q] /\ lost'[q] = lost[q]
        /\ arrived' \in [Requests -> 0 .. Size] /\ lost' \in [Requests -> 0 .. Size]
    <2>1. arrived[r] + 1 \in 0 .. Size /\ lost[r] + 1 \in 0 .. Size
      BY <1>1, <1>3, <1>4
    <2> QED
      BY <1>1, <2>1, TypeParts
  <1>6. TypeOK'
    <2>1. TypeOK
      BY DEF Inv
    <2> QED
      BY <1>1, <1>5, <2>1 DEF TypeOK
  <1>7. Line' /\ Ends' /\ Bodies'
    BY <1>1 DEF Inv, Line, Ends, Bodies, Body
  <1>8. Waiters'
    BY <1>1, WaitersKept
  <1>9. BodyIsWhole'
    <2>1. (lost'[r] + 1) .. arrived'[r] = {} /\ arrived'[r] - lost'[r] = 0
      BY <1>3, <1>4, <1>5
    <2>2. upload[r] \o context[r].stacked = <<>> /\ Len(<<>>) = 0 /\ ToSet(<<>>) = {}
      BY <1>2, EmptyToSet
    <2>3. DOMAIN <<>> = {}
      OBVIOUS
    <2>4. ASSUME NEW q \in Requests, q # r
          PROVE  LET chunks == upload'[q] \o context'[q].stacked IN
                 /\ Len(chunks) = arrived'[q] - lost'[q]
                 /\ ToSet(chunks) = (lost'[q] + 1) .. arrived'[q]
                 /\ q \notin stranded' => \A k \in DOMAIN chunks : chunks[k] = lost'[q] + k
      BY <1>1, <1>5, <2>4 DEF Inv, BodyIsWhole
    <2> QED
      BY <1>1, <2>1, <2>2, <2>3, <2>4 DEF BodyIsWhole
  <1> QED
    BY <1>6, <1>7, <1>8, <1>9 DEF Inv

LEMMA EndingField ==
    ASSUME NEW e, NEW how, NEW zeros, e = [by |-> how, zeros |-> zeros]
    PROVE  e.by = how
  OBVIOUS

\* Zeros complete what was counted of the body, which a refused chunk is not.
LEMMA EndOfBodyType ==
    ASSUME Inv, NEW r \in Requests
    PROVE  /\ EndOfBody(r) \in Endings
           /\ EndOfBody(r).by = "zeros" =>
                 Len(upload[r]) + EndOfBody(r).zeros
                    = Size + (IF context[r].backpressure THEN 1 ELSE 0)
  <1>1. Size \in Nat /\ context[r].written \in 0 .. Size /\ Len(upload[r]) \in Nat
    <2>1. context[r] \in Contexts /\ upload[r] \in Seq(1 .. Size)
      BY TypeParts
    <2> QED
      BY <2>1, SenderAssumption DEF Contexts
  <1>2. /\ Padding(r) \in 0 .. Size
        /\ Len(upload[r]) + Padding(r) = Size + (IF context[r].backpressure THEN 1 ELSE 0)
    <2>1. context[r].written + (IF context[r].backpressure THEN 1 ELSE 0) = Len(upload[r])
      BY DEF Inv, Bodies, Body
    <2>2. Padding(r) = Size - context[r].written
      BY DEF Padding
    <2>3. Padding(r) \in 0 .. Size
      BY <1>1, <2>2
    <2>4. CASE context[r].backpressure
      BY <1>1, <2>1, <2>2, <2>4
    <2>5. CASE ~context[r].backpressure
      BY <1>1, <2>1, <2>2, <2>5
    <2> QED
      BY <2>3, <2>4, <2>5
  <1>3. CASE framing[r] = "both"
    <2>1. EndOfBody(r) = [by |-> "zeros", zeros |-> Padding(r)]
      BY <1>3 DEF EndOfBody
    <2>2. EndOfBody(r) \in Endings /\ EndOfBody(r).zeros = Padding(r)
      BY <1>2, <2>1 DEF Endings
    <2> QED
      BY <1>2, <2>2, Zenon
  <1>4. CASE framing[r] = "chunked"
    <2>1. EndOfBody(r) = [by |-> "terminator", zeros |-> 0]
      BY <1>4 DEF EndOfBody
    <2>2. [by |-> "terminator", zeros |-> 0] \in Endings
      BY <1>1 DEF Endings
    <2> QED
      BY <2>1, <2>2, EndingField
  <1>5. CASE framing[r] \notin {"both", "chunked"}
    <2>1. EndOfBody(r) = [by |-> "nothing", zeros |-> 0]
      BY <1>5 DEF EndOfBody
    <2>2. [by |-> "nothing", zeros |-> 0] \in Endings
      BY <1>1 DEF Endings
    <2> QED
      BY <2>1, <2>2, EndingField
  <1> QED
    BY <1>3, <1>4, <1>5

LEMMA AbortStep ==
    ASSUME Inv, NEW r \in Requests, Abort(r) PROVE Inv'
  <1>1. /\ stage[r] # "new" /\ client' = [client EXCEPT ![r] = "aborted"] /\ ~crashed
        /\ ending' = IF stage[r] = "streaming"
                     THEN [ending EXCEPT ![r] = EndOfBody(r)] ELSE ending
        /\ UNCHANGED <<framing, stage, arrived, lost, immediates, context,
                       upload, listeners, emitting, stranded, crashed>>
    BY DEF Abort, CallbackMayRun, clientVars
  <1>5. /\ ending' \in [Requests -> Endings]
        /\ ending'[r] = IF stage[r] = "streaming" THEN EndOfBody(r) ELSE ending[r]
        /\ \A q \in Requests \ {r} : ending'[q] = ending[q]
    BY <1>1, EndOfBodyType, TypeParts
  <1>6. TypeOK'
    <2>1. client' \in [Requests -> {"open", "aborted"}]
      BY <1>1, TypeParts
    <2> QED
      BY <1>1, <1>5, <2>1, TypeParts, QueueType, TypeKept
  <1>7. Line'
    BY <1>1 DEF Inv, Line
  <1>8. Waiters' /\ Bodies' /\ BodyIsWhole'
    BY <1>1, WaitersKept, BodiesKept
  <1>9. Ends'
    <2>1. \A q \in Requests \ {r} : client'[q] = client[q] /\ client'[r] = "aborted"
      BY <1>1, TypeParts
    <2> QED
      BY <1>1, <1>5, <2>1, TypeParts DEF Inv, Ends
  <1> QED
    BY <1>6, <1>7, <1>8, <1>9 DEF Inv

LEMMA DrainStep == ASSUME Inv, Drain PROVE Inv'
  <1>1. /\ emitting = <<>> /\ emitting' = listeners /\ listeners' = <<>> /\ ~crashed
        /\ UNCHANGED <<framing, stage, client, arrived, lost, immediates,
                       context, upload, ending, stranded, crashed>>
    BY DEF Drain, CallbackMayRun, requestVars, clientVars
  <1>2. TypeOK'
    <2>1. <<>> \in Seq(Listeners)
      OBVIOUS
    <2> QED
      BY <1>1, <2>1, TypeParts, QueueType, TypeKept
  <1>3. Line' /\ Ends'
    BY <1>1 DEF Inv, Line, Ends
  <1>4. Bodies' /\ BodyIsWhole'
    BY <1>1, BodiesKept
  <1>5. Waiters'
    <2>1. ToSet(listeners') = {} /\ Distinct(listeners')
      BY <1>1, EmptyToSet, EmptyDistinct
    <2>2. \A l \in ToSet(listeners) : Registered(l)'
      BY <1>1 DEF Inv, Waiters, Registered
    <2> QED
      BY <1>1, <2>1, <2>2 DEF Inv, Waiters
  <1> QED
    BY <1>2, <1>3, <1>4, <1>5 DEF Inv

\* The next listener is taken out of those that are to be called.
LEMMA EmitsType ==
    ASSUME Inv, NEW r \in Requests, NEW what \in {"head", "chunk"}, Emits(r, what),
           emitting' = Tail(emitting)
    PROVE  LET l == [of |-> r, for |-> what]
           IN  /\ emitting' \in Seq(Listeners) /\ Distinct(emitting')
               /\ l \in ToSet(emitting) /\ ToSet(emitting') = ToSet(emitting) \ {l}
               /\ l \notin ToSet(listeners) /\ Registered(l)
  BY TailToSet, TailDistinct, TypeParts DEF Emits, Inv, Waiters

LEMMA HeadDrainedStep ==
    ASSUME Inv, NEW r \in Requests, HeadDrained(r) PROVE Inv'
  <1> DEFINE l == [of |-> r, for |-> "head"]
  <1>1. /\ ~crashed /\ Emits(r, "head") /\ emitting' = Tail(emitting) /\ Stream(r)
        /\ UNCHANGED <<framing, client, arrived, lost, immediates,
                       context, upload, ending, listeners, stranded>>
    BY DEF HeadDrained, clientVars
  <1>2. /\ emitting' \in Seq(Listeners) /\ Distinct(emitting')
        /\ ToSet(emitting') = ToSet(emitting) \ {l}
        /\ l \notin ToSet(listeners) /\ Registered(l)
    BY <1>1, EmitsType
  <1>3. stage[r] = "waiting"
    BY <1>2, ListenerType DEF Registered
  <1>4. /\ stage' \in [Requests -> Stages] /\ crashed' \in BOOLEAN
        /\ \A q \in Requests \ {r} : stage'[q] = stage[q]
        /\ stage'[r] \in {"waiting", "streaming", "sent"}
        /\ stage'[r] = "streaming" => framing[r] # "plain"
    BY <1>1, <1>3, StreamType
  <1>5. TypeOK'
    BY <1>1, <1>2, <1>4, TypeParts, QueueType, TypeKept
  <1>6. Line'
    <2>1. \A q \in ToSet(immediates) : q \in Requests /\ stage[q] = "scheduled"
      BY QueueType DEF Inv, Line
    <2> QED
      BY <1>1, <1>3, <1>4, <2>1 DEF Inv, Line
  <1>7. Waiters'
    <2>1. ASSUME NEW k \in ToSet(listeners) \cup ToSet(emitting'), k # l PROVE Registered(k)'
      <3>1. k \in Listeners /\ Registered(k)
        BY <1>2, <2>1, ListenersType DEF Inv, Waiters
      <3>2. k.for = "head" => k.of # r
        BY <2>1, <3>1 DEF Listeners
      <3> QED
        BY <1>1, <1>4, <3>1, <3>2 DEF Registered, Listeners
    <2> HIDE DEF l
    <2> QED
      BY <1>1, <1>2, <2>1 DEF Inv, Waiters
  <1>8. Bodies' /\ BodyIsWhole'
    <2>1. stage[r] # "streaming"
      BY <1>3
    <2> QED
      BY <1>1, <1>4, <2>1, BodiesStart
  <1>9. Ends'
    BY <1>1 DEF Inv, Ends
  <1> QED
    BY <1>5, <1>6, <1>7, <1>8, <1>9 DEF Inv

-----------------------------------------------------------------------------
(***************************************************************************)
(* Steps that write or stack a chunk.                                      *)
(***************************************************************************)

\* The listeners after a step by which r registers one more, or one is called.
LEMMA ChunkWaiters ==
    ASSUME Inv, NEW r \in Requests, NEW d \in Contexts, NEW l \in Listeners,
           l = [of |-> r, for |-> "chunk"],
           context' = [context EXCEPT ![r] = d], stage' = stage,
           emitting' \in Seq(Listeners), Distinct(emitting'),
           ToSet(emitting') \subseteq ToSet(emitting),
           \/ listeners' = listeners
           \/ /\ listeners' = Append(listeners, l) /\ d.backpressure
              /\ l \notin ToSet(listeners) /\ l \notin ToSet(emitting'),
           d.backpressure \/ (l \notin ToSet(listeners) /\ l \notin ToSet(emitting'))
    PROVE  Waiters' /\ listeners' \in Seq(Listeners)
  <1>1. /\ listeners \in Seq(Listeners) /\ Distinct(listeners)
        /\ l.of = r /\ l.for = "chunk" /\ context \in [Requests -> Contexts]
        /\ \A k \in ToSet(listeners) : k \notin ToSet(emitting)
        /\ \A k \in ToSet(listeners) \cup ToSet(emitting) : Registered(k) /\ k \in Listeners
    BY TypeParts, ListenersType DEF Inv, Waiters
  <1>2. /\ listeners' \in Seq(Listeners) /\ Distinct(listeners')
        /\ ToSet(listeners') \subseteq ToSet(listeners) \cup {l}
        /\ \A k \in ToSet(listeners') : k \notin ToSet(emitting')
        /\ l \in ToSet(listeners') \cup ToSet(emitting') => d.backpressure
    <2>1. CASE listeners' = listeners
      BY <1>1, <2>1
    <2>2. CASE /\ listeners' = Append(listeners, l) /\ d.backpressure
               /\ l \notin ToSet(listeners) /\ l \notin ToSet(emitting')
      <3>1. Append(listeners, l) \in Seq(Listeners)
        BY <1>1
      <3> QED
        BY <1>1, <2>2, <3>1, AppendToSet, AppendDistinct
    <2> QED
      BY <2>1, <2>2
  <1>3. ASSUME NEW k \in ToSet(listeners') \cup ToSet(emitting') PROVE Registered(k)'
    <2>1. CASE k = l
      BY <1>1, <1>2, <1>3, <2>1 DEF Registered
    <2>2. CASE k # l
      <3>1. k \in Listeners /\ Registered(k)
        BY <1>1, <1>2, <1>3, <2>2
      <3>2. k.for # "head" => k.of # r /\ k.of \in Requests
        BY <2>2, <3>1 DEF Listeners
      <3> QED
        BY <1>1, <3>1, <3>2 DEF Registered
    <2> QED
      BY <2>1, <2>2
  <1> QED
    BY <1>2, <1>3 DEF Waiters

\* A step by which only what was written and stacked for r changes.
LEMMA ChunkStep ==
    ASSUME Inv, ~crashed, NEW r \in Requests, NEW d \in Contexts, NEW v \in Seq(1 .. Size),
           stage[r] = "streaming",
           context' = [context EXCEPT ![r] = d], upload' = [upload EXCEPT ![r] = v],
           d.written + (IF d.backpressure THEN 1 ELSE 0) = Len(v),
           Len(d.stacked) <= MaxStacked, ~crashed' => Len(d.stacked) < MaxStacked,
           ~d.backpressure /\ d.stacked # <<>> => r \in stranded',
           stranded' \subseteq Requests, stranded \subseteq stranded',
           arrived' \in [Requests -> 0 .. Size],
           \A q \in Requests \ {r} : arrived'[q] = arrived[q],
           AreWhole(v \o d.stacked, r, arrived'[r], stranded'),
           crashed' \in BOOLEAN, Waiters', listeners' \in Seq(Listeners),
           emitting' \in Seq(Listeners),
           UNCHANGED <<framing, stage, client, lost, immediates, ending>>
    PROVE  Inv'
  <1>1. /\ context \in [Requests -> Contexts] /\ upload \in [Requests -> Seq(1 .. Size)]
        /\ context' \in [Requests -> Contexts] /\ upload' \in [Requests -> Seq(1 .. Size)]
        /\ context'[r] = d /\ upload'[r] = v
        /\ \A q \in Requests \ {r} : context'[q] = context[q] /\ upload'[q] = upload[q]
    BY TypeParts
  <1>2. TypeOK'
    <2>1. TypeOK /\ \A q \in Requests : Len(context'[q].stacked) <= MaxStacked
      BY <1>1 DEF Inv, TypeOK
    <2>2. context' \in [Requests -> [backpressure : BOOLEAN, written : 0 .. Size,
                                     stacked : Seq(1 .. Size)]]
      BY <1>1 DEF Contexts
    <2> QED
      BY <1>1, <2>1, <2>2 DEF TypeOK
  <1>3. Line' /\ Ends'
    BY DEF Inv, Line, Ends
  <1>4. Bodies'
    <2>1. Body(r)'
      BY <1>1 DEF Body, Inv, Bodies
    <2>2. ASSUME NEW q \in Requests, q # r PROVE Body(q)'
      <3>1. Body(q)
        BY DEF Inv, Bodies
      <3> QED
        BY <1>1, <2>2, <3>1 DEF Body
    <2> QED
      BY <2>1, <2>2 DEF Bodies
  <1>5. BodyIsWhole'
    <2>1. ASSUME NEW q \in Requests, q # r
          PROVE  LET chunks == upload'[q] \o context'[q].stacked IN
                 /\ Len(chunks) = arrived'[q] - lost[q]
                 /\ ToSet(chunks) = (lost[q] + 1) .. arrived'[q]
                 /\ q \notin stranded' => \A k \in DOMAIN chunks : chunks[k] = lost[q] + k
      BY <1>1, <2>1, ZenonT(60) DEF Inv, BodyIsWhole
    <2>2. AreWhole(upload'[r] \o context'[r].stacked, r, arrived'[r], stranded')
      BY <1>1
    <2> QED
      BY <2>1, <2>2, ZenonT(60) DEF BodyIsWhole, AreWhole
  <1> QED
    BY <1>2, <1>3, <1>4, <1>5 DEF Inv

\* What BodyIsWhole and Bodies say of the chunks of r.
LEMMA ChunksType ==
    ASSUME Inv, NEW r \in Requests
    PROVE  LET u == upload[r]
               t == context[r].stacked
           IN  /\ u \in Seq(1 .. Size) /\ t \in Seq(1 .. Size)
               /\ u \o t \in Seq(1 .. Size) /\ Len(u \o t) = Len(u) + Len(t)
               /\ Len(u) \in Nat /\ Len(t) \in Nat /\ Len(t) <= MaxStacked
               /\ Len(u) + Len(t) = arrived[r] - lost[r]
               /\ ToSet(u) \cup ToSet(t) = (lost[r] + 1) .. arrived[r]
               /\ r \notin stranded => \A k \in DOMAIN (u \o t) : (u \o t)[k] = lost[r] + k
               /\ arrived[r] \in 0 .. Size /\ lost[r] \in 0 .. Size
               /\ Size \in Nat /\ MaxStacked \in Nat \ {0}
  <1> DEFINE u == upload[r]
             t == context[r].stacked
  <1>1. u \in Seq(1 .. Size) /\ t \in Seq(1 .. Size) /\ Len(t) <= MaxStacked
    BY TypeParts DEF Contexts, TypeOK
  <1>2. u \o t \in Seq(1 .. Size) /\ Len(u \o t) = Len(u) + Len(t)
        /\ Len(u) \in Nat /\ Len(t) \in Nat /\ ToSet(u \o t) = ToSet(u) \cup ToSet(t)
    BY <1>1, ConcatToSet
  <1>3. /\ Len(u \o t) = arrived[r] - lost[r]
        /\ ToSet(u \o t) = (lost[r] + 1) .. arrived[r]
        /\ r \notin stranded => \A k \in DOMAIN (u \o t) : (u \o t)[k] = lost[r] + k
    BY DEF Inv, BodyIsWhole
  <1> HIDE DEF u, t
  <1>4. arrived[r] \in 0 .. Size /\ lost[r] \in 0 .. Size
        /\ Size \in Nat /\ MaxStacked \in Nat \ {0}
    BY TypeParts, SenderAssumption
  <1> QED
    BY <1>1, <1>2, <1>3, <1>4 DEF u, t

LEMMA Remaining ==
    ASSUME NEW a \in Nat, NEW b \in Nat, NEW s \in Nat, NEW m \in 0 .. s, NEW n \in 0 .. s,
           a + b = m - n
    PROVE  /\ n \in Nat /\ m \in Nat /\ n <= m
           /\ m < s => a < s /\ m + 1 \in 1 .. s
  OBVIOUS

LEMMA IntervalMore ==
    ASSUME NEW n \in Nat, NEW m \in Nat, n <= m
    PROVE  ((n + 1) .. m) \cup {m + 1} = (n + 1) .. (m + 1)
  OBVIOUS

\* How much of a body has been written and waits.
LEMMA ChunkCount ==
    ASSUME Inv, NEW r \in Requests
    PROVE  /\ Len(upload[r]) \in Nat /\ Len(context[r].stacked) \in Nat
           /\ Len(upload[r]) + Len(context[r].stacked) = arrived[r] - lost[r]
           /\ arrived[r] \in Nat /\ lost[r] \in Nat /\ lost[r] <= arrived[r]
           /\ arrived[r] < Size => Len(upload[r]) < Size /\ arrived[r] + 1 \in 1 .. Size
  <1>1. /\ Len(upload[r]) \in Nat /\ Len(context[r].stacked) \in Nat
        /\ Len(upload[r]) + Len(context[r].stacked) = arrived[r] - lost[r]
        /\ arrived[r] \in 0 .. Size /\ lost[r] \in 0 .. Size /\ Size \in Nat
    BY ChunksType
  <1> QED
    BY <1>1, Remaining

\* q is p with one more element e, which comes last if so said.
IsLonger(p, q, e, last) ==
    /\ Len(q) = Len(p) + 1 /\ Len(p) \in Nat
    /\ ToSet(q) = ToSet(p) \cup {e}
    /\ last => q[Len(p) + 1] = e /\ \A k \in 1 .. Len(p) : q[k] = p[k]

\* One more element, behind all others or in front of t.
LEMMA ConcatMore ==
    ASSUME NEW S, NEW u \in Seq(S), NEW t \in Seq(S), NEW e \in S,
           NEW v \in Seq(S), NEW w \in Seq(S),
           \/ v = u /\ w = Append(t, e)
           \/ v = Append(u, e) /\ w = t
    PROVE  IsLonger(u \o t, v \o w, e, w = Append(t, e) \/ t = <<>>)
  <1>1. ToSet(v \o w) = ToSet(v) \cup ToSet(w) /\ ToSet(u \o t) = ToSet(u) \cup ToSet(t)
    BY ConcatToSet
  <1>2. /\ ToSet(Append(u, e)) = ToSet(u) \cup {e}
        /\ ToSet(Append(t, e)) = ToSet(t) \cup {e}
    BY AppendToSet
  <1>3. ToSet(v \o w) = ToSet(u \o t) \cup {e}
    BY <1>1, <1>2, Zenon
  <1>4. Len(v \o w) = Len(u \o t) + 1 /\ Len(u \o t) \in Nat
    <2>1. /\ Len(v \o w) = Len(v) + Len(w) /\ Len(u \o t) = Len(u) + Len(t)
          /\ Len(Append(u, e)) = Len(u) + 1 /\ Len(Append(t, e)) = Len(t) + 1
          /\ Len(u) \in Nat /\ Len(t) \in Nat
      OBVIOUS
    <2>2. \/ Len(v) = Len(u) /\ Len(w) = Len(t) + 1
          \/ Len(v) = Len(u) + 1 /\ Len(w) = Len(t)
      BY <2>1, Zenon
    <2>3. \A a, b \in Nat : a + (b + 1) = a + b + 1 /\ (a + 1) + b = a + b + 1 /\ a + b \in Nat
      OBVIOUS
    <2>4. /\ Len(u) + (Len(t) + 1) = Len(u) + Len(t) + 1
          /\ (Len(u) + 1) + Len(t) = Len(u) + Len(t) + 1
          /\ Len(u) + Len(t) \in Nat
      BY <2>1, <2>3, ZenonT(60)
    <2>5. Len(v) + Len(w) = Len(u) + Len(t) + 1
      BY <2>2, <2>4, ZenonT(60)
    <2> QED
      BY <2>1, <2>4, <2>5, ZenonT(60)
  <1>5. CASE w = Append(t, e)
    <2>1. v = u
      <3>1. w # t
        <4>1. Len(Append(t, e)) = Len(t) + 1 /\ Len(t) \in Nat
          OBVIOUS
        <4> QED
          BY <1>5, <4>1
      <3> QED
        BY <3>1
    <2>2. v \o w = Append(u \o t, e) /\ u \o t \in Seq(S)
      BY <1>5, <2>1, ConcatAppend
    <2> QED
      BY <1>3, <1>4, <2>2 DEF IsLonger
  <1>6. CASE v = Append(u, e) /\ w = t /\ t = <<>>
    <2>1. v \o w = Append(u \o t, e) /\ u \o t \in Seq(S)
      BY <1>6, ConcatEmpty
    <2> QED
      BY <1>3, <1>4, <2>1 DEF IsLonger
  <1> QED
    BY <1>3, <1>4, <1>5, <1>6 DEF IsLonger

\* The next chunk of the client comes last, or after those written if some are
\* stranded.
LEMMA ChunkArrives ==
    ASSUME Inv, NEW r \in Requests, NEW chunk \in 1 .. Size, chunk = arrived[r] + 1,
           NEW v \in Seq(1 .. Size), NEW w \in Seq(1 .. Size),
           \/ v = upload[r] /\ w = Append(context[r].stacked, chunk)
           \/ /\ v = Append(upload[r], chunk) /\ w = context[r].stacked
              /\ w # <<>> => r \in stranded
    PROVE  AreWhole(v \o w, r, chunk, stranded)
  <1>1. PICK u \in Seq(1 .. Size) : u = upload[r]
    BY ChunksType
  <1>2. PICK t \in Seq(1 .. Size) : t = context[r].stacked
    BY ChunksType
  <1>3. PICK n \in Nat : n = lost[r]
    BY ChunkCount
  <1>4. PICK m \in Nat : m = arrived[r]
    BY ChunkCount
  <1>5. /\ Len(u \o t) = m - n /\ n <= m /\ chunk = m + 1
        /\ ToSet(u \o t) = (n + 1) .. m
    BY <1>1, <1>2, <1>3, <1>4, ChunkCount, Zenon DEF Inv, BodyIsWhole
  <1>6. r \notin stranded => \A k \in DOMAIN (u \o t) : (u \o t)[k] = n + k
    BY <1>1, <1>2, <1>3 DEF Inv, BodyIsWhole
  <1>7. \/ v = u /\ w = Append(t, chunk)
        \/ v = Append(u, chunk) /\ w = t /\ (w # <<>> => r \in stranded)
    BY <1>1, <1>2
  <1>8. /\ Len(v \o w) = Len(u \o t) + 1 /\ Len(u \o t) \in Nat
        /\ ToSet(v \o w) = ToSet(u \o t) \cup {chunk}
        /\ w = Append(t, chunk) \/ t = <<>> =>
              /\ (v \o w)[Len(u \o t) + 1] = chunk
              /\ \A k \in 1 .. Len(u \o t) : (v \o w)[k] = (u \o t)[k]
    <2>1. IsLonger(u \o t, v \o w, chunk, w = Append(t, chunk) \/ t = <<>>)
      BY <1>7, ConcatMore, ZenonT(60)
    <2> QED
      BY <2>1, Zenon DEF IsLonger
  <1>9. Len(v \o w) = chunk - n /\ ToSet(v \o w) = (n + 1) .. chunk
    <2>1. (m + 1) - n = (m - n) + 1
      OBVIOUS
    <2>2. n <= m => ((n + 1) .. m) \cup {m + 1} = (n + 1) .. (m + 1)
      BY IntervalMore
    <2>3. Len(v \o w) = (m - n) + 1
      BY <1>5, <1>8, Zenon
    <2>4. ToSet(v \o w) = ((n + 1) .. m) \cup {m + 1}
      BY <1>5, <1>8, Zenon
    <2>5. Len(v \o w) = (m + 1) - n /\ chunk = m + 1
      BY <1>5, <2>1, <2>3, Zenon
    <2>6. ToSet(v \o w) = (n + 1) .. (m + 1)
      BY <1>5, <2>2, <2>4, Zenon
    <2> QED
      BY <2>5, <2>6, Zenon
  <1>10. ASSUME r \notin stranded, NEW k \in DOMAIN (v \o w) PROVE (v \o w)[k] = n + k
    <2>1. /\ (v \o w)[Len(u \o t) + 1] = chunk
          /\ \A i \in 1 .. Len(u \o t) : (v \o w)[i] = (u \o t)[i]
      BY <1>7, <1>8, <1>10
    <2>2. k \in 1 .. Len(u \o t) + 1 /\ DOMAIN (u \o t) = 1 .. Len(u \o t)
      BY <1>8, <1>10
    <2>3. CASE k \in 1 .. Len(u \o t)
      BY <1>6, <1>10, <2>1, <2>2, <2>3, Zenon
    <2>4. CASE k = Len(u \o t) + 1
      <3>1. n + (m - n + 1) = m + 1
        OBVIOUS
      <3> QED
        BY <1>5, <2>1, <2>4, <3>1, Zenon
    <2>5. Len(u \o t) \in Nat
      BY <1>8, Zenon
    <2>6. \A a \in Nat : k \in 1 .. a + 1 => k \in 1 .. a \/ k = a + 1
      OBVIOUS
    <2> QED
      BY <2>2, <2>3, <2>4, <2>5, <2>6, Zenon
  <1> QED
    BY <1>3, <1>9, <1>10 DEF AreWhole

\* The listeners once a chunk was written or stacked.
LEMMA SentWaiters ==
    ASSUME Inv, NEW r \in Requests, NEW c \in Contexts, NEW chunk,
           NEW d \in Contexts, NEW v, Sent(r, c, chunk, d, v), stage' = stage,
           emitting' \in Seq(Listeners), Distinct(emitting'),
           ToSet(emitting') \subseteq ToSet(emitting),
           NEW l \in Listeners, l = [of |-> r, for |-> "chunk"],
           ~c.backpressure => l \notin ToSet(listeners) /\ l \notin ToSet(emitting')
    PROVE  Waiters' /\ listeners' \in Seq(Listeners)
  <1>1. /\ context' = [context EXCEPT ![r] = d]
        /\ (c.backpressure /\ d.backpressure) \/ ~c.backpressure
        /\ \/ listeners' = listeners
           \/ listeners' = Append(listeners, l) /\ d.backpressure /\ ~c.backpressure
    BY DEF Sent
  <1> QED
    BY <1>1, ChunkWaiters

\* The client sends a chunk of a body that is streamed.
LEMMA DataSentStep ==
    ASSUME Inv, NEW r \in Requests, Data(r), stage[r] = "streaming" PROVE Inv'
  <1>1. /\ ~crashed /\ emitting = <<>> /\ arrived[r] < Size
        /\ arrived' = [arrived EXCEPT ![r] = arrived[r] + 1]
        /\ crashed' = (context'[r].backpressure /\ IsFull(context'[r]))
        /\ UNCHANGED <<framing, stage, client, lost, immediates,
                       ending, emitting, stranded>>
    BY DEF Data, CallbackMayRun, requestVars
  <1>2. /\ context \in [Requests -> Contexts] /\ upload \in [Requests -> Seq(1 .. Size)]
        /\ arrived \in [Requests -> 0 .. Size] /\ lost \in [Requests -> 0 .. Size]
        /\ stranded \subseteq Requests /\ emitting \in Seq(Listeners)
        /\ Size \in Nat /\ MaxStacked \in Nat
    BY TypeParts, SenderAssumption
  <1>3. Len(upload[r]) < Size
    BY <1>1, ChunkCount
  <1>4. PICK c \in Contexts : c = context[r]
    BY <1>2
  <1>5. PICK chunk \in 1 .. Size : chunk = arrived[r] + 1
    BY <1>1, <1>2
  <1>6. /\ arrived' \in [Requests -> 0 .. Size] /\ arrived'[r] = chunk
        /\ \A q \in Requests \ {r} : arrived'[q] = arrived[q]
    BY <1>1, <1>2, <1>5
  <1>7. /\ c.written + (IF c.backpressure THEN 1 ELSE 0) = Len(upload[r])
        /\ Len(c.stacked) < MaxStacked
        /\ ~c.backpressure /\ c.stacked # <<>> => r \in stranded
    BY <1>1, <1>4 DEF Inv, Bodies, Body
  <1>8. PICK ok \in BOOLEAN : TrySendChunk(r, c, chunk, ok)
    BY <1>4, <1>5, <1>6 DEF Data
  <1>9. PICK d \in Contexts, v \in Seq(1 .. Size) : Sent(r, c, chunk, d, v)
    BY <1>2, <1>3, <1>7, <1>8, TrySendChunkType
  <1>10. /\ context' = [context EXCEPT ![r] = d] /\ upload' = [upload EXCEPT ![r] = v]
         /\ d.written + (IF d.backpressure THEN 1 ELSE 0) = Len(v)
         /\ \/ d.backpressure /\ d.stacked = Append(c.stacked, chunk) /\ v = upload[r]
            \/ /\ ~c.backpressure /\ d.stacked = c.stacked
               /\ v = Append(upload[r], chunk)
    BY <1>9 DEF Sent
  <1>11. Waiters' /\ listeners' \in Seq(Listeners)
    <2>1. PICK l \in Listeners : l = [of |-> r, for |-> "chunk"] /\ l.of = r /\ l.for = "chunk"
      BY ListenerType
    <2>2. ~c.backpressure => l \notin ToSet(listeners) /\ l \notin ToSet(emitting)
      BY <1>4, <2>1 DEF Inv, Waiters, Registered
    <2>3. Distinct(emitting') /\ ToSet(emitting') \subseteq ToSet(emitting)
      BY <1>1 DEF Inv, Waiters
    <2> QED
      BY <1>1, <1>2, <1>9, <2>1, <2>2, <2>3, SentWaiters
  <1>12. d.stacked \in Seq(1 .. Size) /\ c.stacked \in Seq(1 .. Size)
    BY DEF Contexts
  <1>13. /\ Len(d.stacked) <= MaxStacked
         /\ ~crashed' => Len(d.stacked) < MaxStacked
         /\ ~d.backpressure /\ d.stacked # <<>> => r \in stranded
    <2>1. crashed' = (d.backpressure /\ Len(d.stacked) >= MaxStacked)
      BY <1>1, <1>2, <1>10 DEF IsFull
    <2>2. CASE d.backpressure /\ d.stacked = Append(c.stacked, chunk) /\ v = upload[r]
      <3>1. Len(d.stacked) = Len(c.stacked) + 1 /\ Len(c.stacked) \in Nat
        BY <1>12, <2>2
      <3>2. ~crashed' => ~(Len(d.stacked) >= MaxStacked)
        BY <2>1, <2>2, Zenon
      <3>3. /\ Len(d.stacked) \in Nat /\ Len(d.stacked) <= MaxStacked
            /\ ~(Len(d.stacked) >= MaxStacked) => Len(d.stacked) < MaxStacked
        <4>1. \A a, b \in Nat : a < b => a + 1 <= b /\ (~(a + 1 >= b) => a + 1 < b)
                                        /\ a + 1 \in Nat
          OBVIOUS
        <4> QED
          BY <1>2, <1>7, <3>1, <4>1, Zenon
      <3> QED
        BY <2>2, <3>2, <3>3, Zenon
    <2>3. CASE ~c.backpressure /\ d.stacked = c.stacked /\ v = Append(upload[r], chunk)
      <3>1. Len(c.stacked) \in Nat
        BY <1>12
      <3>2. \A a, b \in Nat : a < b => a <= b
        OBVIOUS
      <3> QED
        BY <1>2, <1>7, <2>3, <3>1, <3>2, Zenon
    <2> QED
      BY <1>10, <2>2, <2>3
  <1>14. AreWhole(v \o d.stacked, r, arrived'[r], stranded')
    <2>1. \/ v = upload[r] /\ d.stacked = Append(context[r].stacked, chunk)
          \/ /\ v = Append(upload[r], chunk) /\ d.stacked = context[r].stacked
             /\ d.stacked # <<>> => r \in stranded
      BY <1>4, <1>7, <1>10
    <2>2. AreWhole(v \o d.stacked, r, chunk, stranded)
      BY <1>5, <1>12, <2>1, ChunkArrives
    <2> QED
      BY <1>1, <1>6, <2>2
  <1>15. /\ crashed' \in BOOLEAN /\ emitting' \in Seq(Listeners)
         /\ stranded' \subseteq Requests /\ stranded \subseteq stranded'
         /\ stage' = stage /\ UNCHANGED <<framing, client, lost, immediates, ending>>
    BY <1>1, <1>2
  <1>16. ~d.backpressure /\ d.stacked # <<>> => r \in stranded'
    BY <1>1, <1>13
  <1> QED
    BY <1>1, <1>6, <1>10, <1>11, <1>13, <1>14, <1>15, <1>16, ChunkStep

LEMMA DataStep == ASSUME Inv, NEW r \in Requests, Data(r) PROVE Inv'
  BY DataLostStep, DataSentStep

\* The listener of the chunk of r that is under backpressure is called.
LEMMA ChunkDrains ==
    ASSUME Inv, ~crashed, NEW r \in Requests, Emits(r, "chunk"), emitting' = Tail(emitting),
           NEW c \in Contexts, c = context[r]
    PROVE  /\ stage[r] = "streaming" /\ c.backpressure /\ c.written + 1 = Len(upload[r])
           /\ c.written < Size /\ Len(c.stacked) < MaxStacked
           /\ emitting' \in Seq(Listeners) /\ Distinct(emitting')
           /\ ToSet(emitting') \subseteq ToSet(emitting)
           /\ \E l \in Listeners : /\ l = [of |-> r, for |-> "chunk"]
                                   /\ l \notin ToSet(listeners)
                                   /\ l \notin ToSet(emitting')
  <1>1. PICK l \in Listeners : l = [of |-> r, for |-> "chunk"] /\ l.of = r /\ l.for = "chunk"
    BY ListenerType
  <1>2. /\ emitting' \in Seq(Listeners) /\ Distinct(emitting')
        /\ ToSet(emitting') = ToSet(emitting) \ {l}
        /\ l \notin ToSet(listeners) /\ Registered(l)
    BY <1>1, EmitsType
  <1>3. c.backpressure
    BY <1>1, <1>2 DEF Registered
  <1>4. stage[r] = "streaming"
    <2>1. stage[r] # "streaming" => c = Fresh
      BY DEF Inv, Bodies, Body
    <2>2. ~Fresh.backpressure
      BY DEF Fresh
    <2> QED
      BY <1>3, <2>1, <2>2
  <1>5. c.written + 1 = Len(upload[r]) /\ Len(c.stacked) < MaxStacked
    BY <1>3 DEF Inv, Bodies, Body
  <1>6. c.written < Size
    <2>1. c.written \in Nat /\ Size \in Nat
      BY SenderAssumption DEF Contexts
    <2>2. \A a, b, m, n, s, w \in Nat : a + b = m - n /\ m <= s /\ w + 1 = a => w < s
      OBVIOUS
    <2>3. arrived[r] <= Size
      BY TypeParts, <2>1
    <2> QED
      BY <1>5, <2>1, <2>2, <2>3, ChunkCount, Zenon
  <1> QED
    BY <1>1, <1>2, <1>3, <1>4, <1>5, <1>6

\* The drained chunk is counted and the first that waits is sent.
LEMMA SendStackedStep ==
    ASSUME Inv, NEW r \in Requests, SendStacked(r) PROVE Inv'
  <1>1. /\ ~crashed /\ Emits(r, "chunk") /\ context[r].stacked # <<>>
        /\ emitting' = Tail(emitting)
        /\ stranded' = IF context'[r].backpressure \/ context'[r].stacked = <<>>
                       THEN stranded ELSE stranded \cup {r}
        /\ UNCHANGED <<framing, stage, client, arrived, lost, immediates,
                       ending, crashed>>
    BY DEF SendStacked, requestVars, clientVars
  <1>2. /\ context \in [Requests -> Contexts] /\ upload \in [Requests -> Seq(1 .. Size)]
        /\ arrived \in [Requests -> 0 .. Size] /\ stranded \subseteq Requests
        /\ Size \in Nat /\ MaxStacked \in Nat
    BY TypeParts, SenderAssumption
  <1>3. PICK c \in Contexts : c = context[r]
    BY <1>2
  <1>4. /\ stage[r] = "streaming" /\ c.backpressure /\ c.written + 1 = Len(upload[r])
        /\ c.written < Size /\ Len(c.stacked) < MaxStacked
        /\ emitting' \in Seq(Listeners) /\ Distinct(emitting')
        /\ ToSet(emitting') \subseteq ToSet(emitting)
    BY <1>1, <1>3, ChunkDrains
  <1>5. PICK l \in Listeners : /\ l = [of |-> r, for |-> "chunk"]
                               /\ l \notin ToSet(listeners) /\ l \notin ToSet(emitting')
    BY <1>1, <1>3, ChunkDrains
  <1>6. PICK e \in Contexts : /\ e = Unstack(c) /\ ~e.backpressure
                              /\ e.written = c.written + 1 /\ e.stacked = Tail(c.stacked)
    BY <1>1, <1>3, <1>4, UnstackType
  <1>7. PICK chunk \in 1 .. Size : chunk = Head(c.stacked)
    <2>1. c.stacked \in Seq(1 .. Size) /\ c.stacked # <<>>
      BY <1>1, <1>3 DEF Contexts
    <2> QED
      BY <2>1, TailToSet
  <1>8. PICK ok \in BOOLEAN : TrySendChunk(r, e, chunk, ok)
    BY <1>3, <1>6, <1>7 DEF SendStacked
  <1>9. /\ e.written + (IF e.backpressure THEN 1 ELSE 0) = Len(upload[r])
        /\ Len(upload[r]) < Size
    <2>1. Len(context[r].stacked) # 0
      BY <1>1, ChunksType
    <2>2. \A a, b, m, n, s \in Nat : a + b = m - n /\ m <= s /\ b # 0 => a < s
      OBVIOUS
    <2>3. arrived[r] <= Size
      BY <1>2
    <2>4. Len(upload[r]) < Size
      BY <1>2, <2>1, <2>2, <2>3, ChunkCount, Zenon
    <2>5. c.written + 1 = Len(upload[r]) /\ e.written \in Nat
      BY <1>4 DEF Contexts
    <2> QED
      BY <1>4, <1>6, <2>4, <2>5
  <1>10. PICK d \in Contexts, v \in Seq(1 .. Size) : Sent(r, e, chunk, d, v)
    BY <1>2, <1>8, <1>9, TrySendChunkType
  <1>11. /\ context' = [context EXCEPT ![r] = d] /\ upload' = [upload EXCEPT ![r] = v]
         /\ d.written + (IF d.backpressure THEN 1 ELSE 0) = Len(v)
         /\ d.stacked = Tail(c.stacked) /\ v = Append(upload[r], Head(c.stacked))
    BY <1>6, <1>7, <1>10, Zenon DEF Sent
  <1>12. Waiters' /\ listeners' \in Seq(Listeners)
    BY <1>1, <1>4, <1>5, <1>10, SentWaiters
  <1>13. /\ c.stacked \in Seq(1 .. Size) /\ c.stacked # <<>> /\ upload[r] \in Seq(1 .. Size)
         /\ context'[r] = d
    BY <1>1, <1>2, <1>3, <1>11 DEF Contexts
  <1>14. Len(d.stacked) <= MaxStacked /\ Len(d.stacked) < MaxStacked
    <2>1. /\ Len(Tail(c.stacked)) = Len(c.stacked) - 1 /\ Len(c.stacked) \in Nat
      BY <1>13, TailToSet
    <2>2. \A a, b \in Nat : a < b => a - 1 <= b /\ a - 1 < b
      OBVIOUS
    <2> QED
      BY <1>2, <1>4, <1>11, <2>1, <2>2, Zenon
  <1>15. /\ ~d.backpressure /\ d.stacked # <<>> => r \in stranded'
         /\ stranded' \subseteq Requests /\ stranded \subseteq stranded'
    BY <1>1, <1>2, <1>13
  <1>16. AreWhole(v \o d.stacked, r, arrived'[r], stranded')
    <2>1. v \o d.stacked = upload[r] \o context[r].stacked
      <3>1. Append(upload[r], Head(c.stacked)) \o Tail(c.stacked) = upload[r] \o c.stacked
        BY <1>13, MoveHead
      <3> QED
        BY <1>3, <1>11, <3>1, Zenon
    <2>2. AreWhole(upload[r] \o context[r].stacked, r, arrived[r], stranded)
      BY DEF Inv, BodyIsWhole, AreWhole
    <2> QED
      BY <1>1, <1>15, <2>1, <2>2 DEF AreWhole
  <1>17. /\ arrived' \in [Requests -> 0 .. Size]
         /\ \A q \in Requests \ {r} : arrived'[q] = arrived[q]
         /\ crashed' \in BOOLEAN
         /\ UNCHANGED <<framing, stage, client, lost, immediates, ending>>
    BY <1>1, <1>2, TypeParts
  <1> QED
    BY <1>1, <1>4, <1>11, <1>12, <1>14, <1>15, <1>16, <1>17, ChunkStep

\* None waits: the drained chunk is counted, and the process ends.
LEMMA SendUndefinedStep ==
    ASSUME Inv, NEW r \in Requests, SendUndefined(r) PROVE Inv'
  <1>1. /\ ~crashed /\ Emits(r, "chunk") /\ context[r].stacked = <<>>
        /\ emitting' = Tail(emitting) /\ crashed' = TRUE
        /\ context' = [context EXCEPT ![r].written = @ + 1, ![r].backpressure = FALSE]
        /\ UNCHANGED <<framing, stage, client, arrived, lost, immediates,
                       upload, ending, listeners, stranded>>
    BY DEF SendUndefined, requestVars, clientVars
  <1>2. /\ context \in [Requests -> Contexts] /\ upload \in [Requests -> Seq(1 .. Size)]
        /\ arrived \in [Requests -> 0 .. Size] /\ stranded \subseteq Requests
        /\ Size \in Nat /\ MaxStacked \in Nat \ {0} /\ listeners \in Seq(Listeners)
    BY TypeParts, SenderAssumption
  <1>3. PICK c \in Contexts : c = context[r]
    BY <1>2
  <1>4. /\ stage[r] = "streaming" /\ c.written + 1 = Len(upload[r]) /\ c.written < Size
        /\ emitting' \in Seq(Listeners) /\ Distinct(emitting')
        /\ ToSet(emitting') \subseteq ToSet(emitting)
    BY <1>1, <1>3, ChunkDrains
  <1>5. PICK l \in Listeners : /\ l = [of |-> r, for |-> "chunk"]
                               /\ l \notin ToSet(listeners) /\ l \notin ToSet(emitting')
    BY <1>1, <1>3, ChunkDrains
  <1>6. PICK v \in Seq(1 .. Size) : v = upload[r]
    BY <1>2
  <1>7. PICK d \in Contexts : /\ context' = [context EXCEPT ![r] = d]
                              /\ d.written = c.written + 1 /\ ~d.backpressure
                              /\ d.stacked = <<>>
    <2> DEFINE d == [c EXCEPT !.written = @ + 1, !.backpressure = FALSE]
    <2>1. c.written + 1 \in 0 .. Size
      BY <1>2, <1>4 DEF Contexts
    <2>2. d \in Contexts /\ d.written = c.written + 1 /\ ~d.backpressure /\ d.stacked = <<>>
      BY <1>1, <1>3, <2>1 DEF Contexts
    <2>3. context' = [context EXCEPT ![r] = d]
      BY <1>1, <1>2, <1>3
    <2> QED
      BY <2>2, <2>3
  <1>8. Waiters' /\ listeners' \in Seq(Listeners)
    BY <1>1, <1>2, <1>4, <1>5, <1>7, ChunkWaiters
  <1>9. d.written + (IF d.backpressure THEN 1 ELSE 0) = Len(v)
    <2>1. d.written \in Nat
      BY DEF Contexts
    <2> QED
      BY <1>4, <1>6, <1>7, <2>1
  <1>10. upload' = [upload EXCEPT ![r] = v]
    BY <1>1, <1>2, <1>6
  <1>11. /\ Len(d.stacked) <= MaxStacked
         /\ ~crashed' => Len(d.stacked) < MaxStacked
         /\ ~d.backpressure /\ d.stacked # <<>> => r \in stranded'
    BY <1>1, <1>2, <1>7
  <1>12. AreWhole(v \o d.stacked, r, arrived'[r], stranded')
    <2>1. v \o d.stacked = upload[r] \o context[r].stacked
      BY <1>1, <1>6, <1>7
    <2>2. AreWhole(upload[r] \o context[r].stacked, r, arrived[r], stranded)
      BY DEF Inv, BodyIsWhole, AreWhole
    <2> QED
      BY <1>1, <2>1, <2>2 DEF AreWhole
  <1>13. /\ arrived' \in [Requests -> 0 .. Size] /\ arrived' = arrived
         /\ \A q \in Requests \ {r} : arrived'[q] = arrived[q]
         /\ crashed' \in BOOLEAN /\ stranded' \subseteq Requests /\ stranded \subseteq stranded'
         /\ UNCHANGED <<framing, stage, client, lost, immediates, ending>>
    BY <1>1, <1>2
  <1> QED
    BY <1>1, <1>4, <1>7, <1>8, <1>9, <1>10, <1>11, <1>12, <1>13, ChunkStep

-----------------------------------------------------------------------------
(***************************************************************************)
(* The theorems.                                                           *)
(***************************************************************************)

LEMMA SenderInit == Init => Inv
  <1> SUFFICES ASSUME Init PROVE Inv
    OBVIOUS
  <1>1. Size \in Nat /\ MaxStacked \in Nat \ {0}
    BY SenderAssumption
  <1>2. \A r \in Requests : /\ stage[r] = "new" /\ client[r] = "open"
                            /\ arrived[r] = 0 /\ lost[r] = 0 /\ context[r] = Fresh
                            /\ upload[r] = <<>> /\ ending[r] = Whole
    BY DEF Init
  <1>3. /\ Fresh \in Contexts /\ Fresh.stacked = <<>> /\ Fresh.written = 0
        /\ ~Fresh.backpressure
    <2>1. <<>> \in Seq(1 .. Size) /\ 0 \in 0 .. Size
      BY <1>1
    <2> QED
      BY <2>1 DEF Fresh, Contexts
  <1>4. Whole \in Endings /\ Whole.by = "client"
    BY <1>1 DEF Whole, Endings
  <1>5. ToSet(<<>>) = {} /\ Distinct(<<>>) /\ <<>> \o <<>> = <<>> /\ Len(<<>>) = 0
    BY EmptyToSet, EmptyDistinct
  <1>6. TypeOK
    <2>1. \A r \in Requests : Len(context[r].stacked) <= MaxStacked
      BY <1>1, <1>2, <1>3, <1>5
    <2>2. /\ context \in [Requests -> Contexts] /\ upload \in [Requests -> Seq(1 .. Size)]
          /\ ending \in [Requests -> Endings] /\ arrived \in [Requests -> 0 .. Size]
          /\ lost \in [Requests -> 0 .. Size]
      BY <1>1, <1>3, <1>4 DEF Init
    <2>3. /\ immediates \in Seq(Requests)
          /\ listeners \in Seq(Listeners) /\ emitting \in Seq(Listeners)
      BY DEF Init
    <2>4. context \in [Requests -> [backpressure : BOOLEAN, written : 0 .. Size,
                                    stacked : Seq(1 .. Size)]]
      BY <2>2 DEF Contexts
    <2>5. ending \in [Requests -> [by : {"client", "terminator", "zeros", "nothing"},
                                   zeros : 0 .. Size]]
      BY <2>2 DEF Endings
    <2>6. /\ framing \in [Requests -> Framings]
          /\ stage \in [Requests -> {"new", "connecting", "scheduled", "waiting",
                                     "streaming", "sent"}]
          /\ client \in [Requests -> {"open", "aborted"}]
          /\ stranded \subseteq Requests /\ crashed \in BOOLEAN
      BY DEF Init
    <2> QED
      BY <2>1, <2>2, <2>3, <2>4, <2>5, <2>6 DEF TypeOK
  <1>7. Line /\ Waiters
    BY <1>5 DEF Init, Line, Waiters
  <1>8. Bodies
    <2>1. 0 + 0 = 0 /\ 0 < MaxStacked
      BY <1>1
    <2>2. \A r \in Requests : Body(r)
      BY <1>2, <1>3, <1>5, <2>1 DEF Body
    <2> QED
      BY <2>2 DEF Bodies
  <1>9. BodyIsWhole
    <2>1. ASSUME NEW r \in Requests
          PROVE  /\ upload[r] \o context[r].stacked = <<>>
                 /\ arrived[r] = 0 /\ lost[r] = 0
      BY <1>2, <1>3, <1>5
    <2>2. 0 = 0 - 0 /\ (0 + 1) .. 0 = {} /\ DOMAIN <<>> = {}
      OBVIOUS
    <2> QED
      BY <1>5, <2>1, <2>2, Zenon DEF BodyIsWhole
  <1>10. Ends
    BY <1>2, <1>4 DEF Ends
  <1> QED
    BY <1>6, <1>7, <1>8, <1>9, <1>10 DEF Inv

LEMMA Stutter == ASSUME Inv, UNCHANGED vars PROVE Inv'
  <1>1. UNCHANGED <<framing, stage, client, arrived, lost, immediates,
                    context, upload, ending, listeners, emitting, stranded, crashed>>
    BY DEF vars, requestVars, clientVars, socketVars
  <1>2. TypeOK' /\ Line' /\ Waiters'
    BY <1>1 DEF Inv, TypeOK, Line, Waiters, Registered
  <1>3. Bodies' /\ BodyIsWhole' /\ Ends'
    BY <1>1 DEF Inv, Bodies, Body, BodyIsWhole, Ends
  <1> QED
    BY <1>2, <1>3 DEF Inv

LEMMA SenderNext == Inv /\ [Next]_vars => Inv'
  <1> SUFFICES ASSUME Inv, [Next]_vars PROVE Inv'
    OBVIOUS
  <1>1. CASE UNCHANGED vars
    BY <1>1, Stutter
  <1>2. CASE \E r \in Requests : HandleRequest(r) \/ Schedule(r) \/ Data(r) \/ Abort(r)
    BY <1>2, HandleRequestStep, ScheduleStep, DataStep, AbortStep
  <1>3. CASE Send \/ Drain
    BY <1>3, SendStep, DrainStep
  <1>4. CASE Handler
    BY <1>4, HeadDrainedStep, SendStackedStep, SendUndefinedStep DEF Handler
  <1> QED
    BY <1>1, <1>2, <1>3, <1>4 DEF Next

\* The invariant holds in every reachable state.
THEOREM SenderInvariant == Spec => []Inv
  BY SenderInit, SenderNext, PTL DEF Spec

\* Every variable keeps its type; no body ever has more chunks waiting than
\* maxStackedBuffers, the one that ends the process included.
THEOREM SenderTypes == Spec => []TypeOK
  <1>1. Inv => TypeOK
    BY DEF Inv
  <1> QED
    BY <1>1, SenderInvariant, PTL

\* No chunk given to onData is lost or written twice by stacking and draining,
\* and they keep their order unless a drain strands some.
THEOREM BodiesAreWhole == Spec => []BodyIsWhole
  <1>1. Inv => BodyIsWhole
    BY DEF Inv
  <1> QED
    BY <1>1, SenderInvariant, PTL


-----------------------------------------------------------------------------
(***************************************************************************)
(* What is written in place of the rest of a body.                         *)
(***************************************************************************)

\* A step that ends no body, and writes nothing more for one ended with zeros.
LEMMA NoneEnded ==
    ASSUME NEW r \in Requests, ending' = ending,
           ending[r].by = "zeros" => context[r].backpressure \/ upload'[r] = upload[r]
    PROVE  CompletesBody(r)
  BY DEF CompletesBody, Written

LEMMA AbortCompletes ==
    ASSUME Inv, NEW q \in Requests, Abort(q), NEW r \in Requests
    PROVE  CompletesBody(r)
  <1>1. /\ client[q] = "open" /\ upload' = upload
        /\ ending' = IF stage[q] = "streaming"
                     THEN [ending EXCEPT ![q] = EndOfBody(q)] ELSE ending
    BY DEF Abort
  <1>2. CASE stage[q] = "streaming" /\ r = q
    <2>1. ending'[r] = EndOfBody(r)
      BY <1>1, <1>2, TypeParts
    <2>2. ending[r].by = "client"
      BY <1>1, <1>2 DEF Inv, Ends
    <2> QED
      BY <1>1, <2>1, <2>2, EndOfBodyType DEF CompletesBody, Written
  <1>3. CASE stage[q] # "streaming" \/ r # q
    <2>1. ending'[r] = ending[r]
      BY <1>1, <1>3, TypeParts
    <2> QED
      BY <1>1, <2>1 DEF CompletesBody, Written
  <1> QED
    BY <1>2, <1>3

\* A client that sends a chunk has not left.
LEMMA DataCompletes ==
    ASSUME Inv, NEW q \in Requests, Data(q), NEW r \in Requests
    PROVE  CompletesBody(r)
  <1>1. ending' = ending /\ client[q] = "open"
    BY DEF Data
  <1>2. ending[q].by # "zeros"
    BY <1>1 DEF Inv, Ends
  <1>3. r # q => upload'[r] = upload[r]
    BY TypeParts DEF Data, TrySendChunk
  <1> QED
    BY <1>1, <1>2, <1>3, NoneEnded

\* A chunk that was stacked is sent only once the refused one has drained.
LEMMA SendStackedCompletes ==
    ASSUME Inv, NEW q \in Requests, SendStacked(q), NEW r \in Requests
    PROVE  CompletesBody(r)
  <1>1. /\ ~crashed /\ Emits(q, "chunk") /\ emitting' = Tail(emitting)
        /\ ending' = ending
    BY DEF SendStacked
  <1>2. PICK c \in Contexts : c = context[q]
    BY TypeParts
  <1>3. context[q].backpressure
    BY <1>1, <1>2, ChunkDrains
  <1>4. r # q => upload'[r] = upload[r]
    BY TypeParts DEF SendStacked, TrySendChunk
  <1> QED
    BY <1>1, <1>3, <1>4, NoneEnded

LEMMA StepCompletes ==
    ASSUME Inv, Next, NEW r \in Requests
    PROVE  CompletesBody(r)
  <1>1. CASE \E q \in Requests : HandleRequest(q) \/ Schedule(q)
    BY <1>1, NoneEnded DEF HandleRequest, Schedule, socketVars
  <1>2. CASE \E q \in Requests : Data(q) \/ Abort(q)
    BY <1>2, DataCompletes, AbortCompletes
  <1>3. CASE Send \/ Drain
    BY <1>3, NoneEnded DEF Send, Drain
  <1>4. CASE Handler
    <2>1. ASSUME NEW q \in Requests, HeadDrained(q) \/ SendUndefined(q)
          PROVE  CompletesBody(r)
      BY <2>1, NoneEnded DEF HeadDrained, SendUndefined
    <2> QED
      BY <1>4, <2>1, SendStackedCompletes DEF Handler
  <1> QED
    BY <1>1, <1>2, <1>3, <1>4 DEF Next

\* The zeros written for a client that left bring what was written for its body
\* to exactly the announced length and are the last of it; but for one that
\* leaves under backpressure, to the length and the refused chunk, after which
\* only the chunks that are stacked behind it follow.
THEOREM PaddingMeetsLength == Spec => PaddingIsExact
  <1>1. Inv /\ [Next]_vars => [\A r \in Requests : CompletesBody(r)]_vars
    BY StepCompletes
  <1> QED
    BY <1>1, SenderInvariant, PTL DEF Spec, PaddingIsExact
=============================================================================
