------------------------ MODULE ErrorHandlingProofs ------------------------
(***************************************************************************)
(* Theorems about ErrorHandling, for every set of requests, every handler  *)
(* and every order of the events that close the pipeline.                  *)
(***************************************************************************)
EXTENDS ErrorHandling, SequenceFacts, TLAPS

\* A request is in the pipeline once, and never before it was scheduled.
PendingOnce ==
    /\ Distinct(pending)
    /\ \A r \in ToSet(pending) : stage[r] = "queued"

\* A request cannot fail before it is scheduled or refused.
NotFailedYet ==
    \A r \in Requests : stage[r] \in {"new", "connecting"} => failure[r] = None

\* A response that ended has a status.
EndedHasStatus ==
    \A r \in Requests : response[r].state = "ended" => response[r].status # "none"

\* What a failed client that had got nothing can have got since: nothing while
\* its response is open.
StillUntouched ==
    \A r \in Requests :
       Failed(r) /\ failure[r].untouched /\ response[r].state = "open" =>
          response[r].status = "none"

\* The inductive invariant.
Inv == TypeOK /\ PendingOnce /\ NotFailedYet /\ EndedHasStatus /\ StillUntouched
          /\ ErrorIsSeen

Responses ==
    [state : {"open", "ended", "aborted"},
     status : {"none", "200", "502", "503", "504", "own"},
     body : SUBSET {"data", "error"}]

\* What is known of one request's failure and response.
Told(r, f, w) ==
    /\ w.state = "ended" => w.status # "none"
    /\ f.code # "none" /\ f.untouched /\ w.state = "open" => w.status = "none"
    /\ f.code # "none" /\ f.untouched /\ w.state = "ended" =>
          \/ w.status \in {StatusOf(f.code), "own"}
          \/ handler = "promises" /\ stage[r] = "queued"

Failures == [code : Codes \cup {"none"}, untouched : BOOLEAN]

-----------------------------------------------------------------------------
(***************************************************************************)
(* Writing into one response.                                              *)
(***************************************************************************)

LEMMA StatusTypes ==
    ASSUME NEW code
    PROVE  /\ StatusOf(code) \in {"502", "503", "504"}
           /\ Statuses(code) \subseteq {StatusOf(code), "own"}
           /\ Statuses(code) \subseteq {"502", "503", "504", "own"}
  BY DEF StatusOf, Statuses

LEMMA WriteHeadersType ==
    ASSUME NEW w \in Responses, NEW status \in {"200", "502", "503", "504", "own"}
    PROVE  /\ WriteHeaders(w, status) \in Responses
           /\ WriteHeaders(w, status).state = w.state
           /\ w.state # "open" \/ w.status # "none" => WriteHeaders(w, status) = w
           /\ w.state = "open" /\ w.status = "none" =>
                 WriteHeaders(w, status).status = status
           /\ w.state = "open" => WriteHeaders(w, status).status # "none"
  BY DEF WriteHeaders, Responses

LEMMA EndType ==
    ASSUME NEW w \in Responses, NEW text \in SUBSET {"data", "error"}
    PROVE  /\ End(w, text) \in Responses
           /\ End(w, text).state # "open"
           /\ w.state # "open" => End(w, text) = w
           /\ w.state = "open" => /\ End(w, text).state = "ended"
                                  /\ End(w, text).status # "none"
           /\ w.state = "open" /\ w.status # "none" => End(w, text).status = w.status
  <1>1. WriteHeaders(w, "200") \in Responses
    BY WriteHeadersType
  <1>2. WriteHeaders(w, "200").body \cup text \in SUBSET {"data", "error"}
    BY <1>1 DEF Responses
  <1> QED
    BY <1>1, <1>2, WriteHeadersType, ZenonT(60) DEF End, Responses

\* An error response ends the response; its status is seen if none was written.
LEMMA ErrorResponseType ==
    ASSUME NEW w \in Responses, NEW status \in {"502", "503", "504", "own"}
    PROVE  LET v == TryToSendErrorResponse(w, status)
           IN  /\ v \in Responses
               /\ v.state # "open"
               /\ w.state # "open" => v = w
               /\ w.state = "open" => v.state = "ended" /\ v.status # "none"
               /\ w.state = "open" /\ w.status = "none" => v.status = status
               /\ w.state = "open" /\ w.status # "none" => v.status = w.status
  <1>1. WriteHeaders(w, status) \in Responses
    BY WriteHeadersType
  <1>2. {"error"} \in SUBSET {"data", "error"}
    OBVIOUS
  <1> QED
    BY <1>1, <1>2, WriteHeadersType, EndType DEF TryToSendErrorResponse

LEMMA RespondType ==
    ASSUME NEW w \in Responses, NEW status \in {"502", "503", "504", "own"}
    PROVE  /\ Respond(w, status) \in Responses
           /\ w.state # "open" => Respond(w, status) = w
           /\ handler \notin {"none", "answers"} => Respond(w, status) = w
           /\ handler \in {"none", "answers"} =>
                 Respond(w, status) = TryToSendErrorResponse(w, status)
  BY ErrorResponseType DEF Respond

-----------------------------------------------------------------------------
(***************************************************************************)
(* The steps.                                                              *)
(***************************************************************************)

\* The invariant says for each request what is told to it.
LEMMA InvSplit ==
    ASSUME Inv
    PROVE  /\ response \in [Requests -> Responses]
           /\ failure \in [Requests -> Failures]
           /\ \A r \in Requests : Told(r, failure[r], response[r])
  BY DEF Inv, TypeOK, Responses, Failures, Told, EndedHasStatus, StillUntouched,
         ErrorIsSeen, Failed

\* To show the invariant again it is enough to show its parts.
LEMMA InvJoin ==
    ASSUME TypeOK', PendingOnce', NotFailedYet',
           \A r \in Requests : Told(r, failure[r], response[r])'
    PROVE  Inv'
  BY DEF Inv, Told, EndedHasStatus, StillUntouched, ErrorIsSeen, Failed

\* One response is written to, whose request has not failed or will not be seen
\* otherwise than before.
LEMMA OneResponse ==
    ASSUME Inv, NEW r \in Requests, NEW w \in Responses,
           response' = [response EXCEPT ![r] = w],
           Told(r, failure[r], w),
           UNCHANGED <<handler, stage, failure>>, promised' \subseteq Requests,
           socket' \in {"open", "failed", "closed"},
           pending' \in Seq(Requests), Distinct(pending'),
           ToSet(pending') \subseteq ToSet(pending)
    PROVE  Inv'
  <1>1. TypeOK'
    BY DEF Inv, TypeOK, Responses
  <1>2. PendingOnce' /\ NotFailedYet'
    BY DEF Inv, PendingOnce, NotFailedYet
  <1>3. ASSUME NEW q \in Requests PROVE Told(q, failure[q], response[q])'
    <2>1. Told(q, failure[q], response'[q])
      BY InvSplit
    <2> QED
      BY <2>1 DEF Told
  <1> QED
    BY <1>1, <1>2, <1>3, InvJoin

LEMMA HandleRequestStep ==
    ASSUME Inv, NEW r \in Requests, HandleRequest(r) PROVE Inv'
  <1>1. TypeOK'
    BY DEF Inv, TypeOK, HandleRequest
  <1>2. PendingOnce' /\ NotFailedYet'
    BY DEF Inv, TypeOK, PendingOnce, NotFailedYet, HandleRequest
  <1>3. ASSUME NEW q \in Requests PROVE Told(q, failure[q], response[q])'
    <2>1. Told(q, failure[q], response[q])
      BY InvSplit
    <2>2. stage[q] = "queued" => stage'[q] = "queued"
      BY DEF Inv, TypeOK, HandleRequest
    <2> QED
      BY <2>1, <2>2 DEF Told, HandleRequest
  <1> QED
    BY <1>1, <1>2, <1>3, InvJoin

LEMMA ScheduleStep ==
    ASSUME Inv, NEW r \in Requests, Schedule(r) PROVE Inv'
  <1>1. pending \in Seq(Requests) /\ Distinct(pending) /\ stage[r] = "connecting"
    BY DEF Inv, TypeOK, PendingOnce, Schedule
  <1>2. r \notin ToSet(pending) /\ failure[r] = None
    BY <1>1 DEF Inv, PendingOnce, NotFailedYet
  <1>3. /\ pending' \in Seq(Requests) /\ ToSet(pending') = ToSet(pending) \cup {r}
        /\ Distinct(pending')
    BY <1>1, <1>2, AppendToSet, AppendDistinct DEF Schedule
  <1>4. TypeOK'
    BY <1>2, <1>3 DEF Inv, TypeOK, Schedule
  <1>5. PendingOnce' /\ NotFailedYet'
    BY <1>3 DEF Inv, TypeOK, PendingOnce, NotFailedYet, Schedule
  <1>6. ASSUME NEW q \in Requests PROVE Told(q, failure[q], response[q])'
    <2>1. Told(q, failure[q], response[q])
      BY InvSplit
    <2>2. stage[q] = "queued" => stage'[q] = "queued"
      BY DEF Inv, TypeOK, Schedule
    <2> QED
      BY <2>1, <2>2 DEF Told, Schedule
  <1> QED
    BY <1>4, <1>5, <1>6, InvJoin

LEMMA AbortStep ==
    ASSUME Inv, NEW r \in Requests, Abort(r) PROVE Inv'
  <1> DEFINE w == [response[r] EXCEPT !.state = "aborted"]
  <1>1. w \in Responses /\ response' = [response EXCEPT ![r] = w]
    BY InvSplit DEF Abort, Responses
  <1>2. Told(r, failure[r], w)
    BY InvSplit DEF Told, Responses
  <1> HIDE DEF w
  <1> QED
    BY <1>1, <1>2, OneResponse DEF Inv, TypeOK, PendingOnce, Abort

LEMMA SettleStep ==
    ASSUME Inv, NEW r \in Requests, Settle(r) PROVE Inv'
  <1>1. PICK status \in Statuses(failure[r].code) :
           response' = [response EXCEPT
                          ![r] = TryToSendErrorResponse(response[r], status)]
    BY InvSplit DEF Settle
  <1>2. status \in {StatusOf(failure[r].code), "own"} /\ status \in {"502", "503", "504", "own"}
    BY <1>1, StatusTypes
  <1> DEFINE w == TryToSendErrorResponse(response[r], status)
  <1>3. response[r] \in Responses /\ Told(r, failure[r], response[r])
    BY InvSplit
  <1>4. w \in Responses /\ Told(r, failure[r], w)
    BY <1>2, <1>3, ErrorResponseType DEF Told
  <1>5. response' = [response EXCEPT ![r] = w]
    BY <1>1
  <1> HIDE DEF w
  <1> QED
    BY <1>4, <1>5, OneResponse DEF Inv, TypeOK, PendingOnce, Settle

\* The oldest request has not failed.
LEMMA HeadOfPending ==
    ASSUME Inv, pending # <<>>
    PROVE  /\ Head(pending) \in Requests
           /\ failure[Head(pending)] = None
           /\ response[Head(pending)] \in Responses
  BY InvSplit, TailToSet DEF Inv, TypeOK

LEMMA ServerStep ==
    ASSUME Inv, Begin \/ Part \/ Finish PROVE Inv'
  <1> DEFINE h == Head(pending)
  <1>1. pending # <<>> /\ pending \in Seq(Requests) /\ Distinct(pending)
    BY DEF Begin, Part, Finish, Inv, TypeOK, PendingOnce
  <1>2. h \in Requests /\ failure[h].code = "none" /\ response[h] \in Responses
    BY <1>1, HeadOfPending DEF None
  <1>3. \A w \in Responses : (w.state = "ended" => w.status # "none") =>
           Told(h, failure[h], w)
    BY <1>2 DEF Told
  <1>4. response[h].state = "ended" => response[h].status # "none"
    BY <1>2, InvSplit DEF Told
  <1>5. CASE Begin
    <2>1. WriteHeaders(response[h], "200") \in Responses
      BY <1>2, WriteHeadersType
    <2>2. Told(h, failure[h], WriteHeaders(response[h], "200"))
      BY <1>2, <1>3, <1>4, <2>1, WriteHeadersType
    <2>3. response' = [response EXCEPT ![h] = WriteHeaders(response[h], "200")]
      BY <1>2, <1>5, InvSplit DEF Begin
    <2> HIDE DEF h
    <2> QED
      BY <1>1, <1>2, <1>5, <2>1, <2>2, <2>3, OneResponse DEF Begin, Inv, TypeOK
  <1>6. CASE Part
    <2> DEFINE w == [response[h] EXCEPT !.body = response[h].body \cup {"data"}]
    <2>1. w \in Responses /\ w.state = response[h].state /\ w.status = response[h].status
      BY <1>2 DEF Responses
    <2>2. response' = [response EXCEPT ![h] = w]
      BY <1>2, <1>6, InvSplit DEF Part
    <2>3. Told(h, failure[h], w)
      BY <1>3, <1>4, <2>1
    <2> HIDE DEF h, w
    <2> QED
      BY <1>1, <1>2, <1>6, <2>1, <2>2, <2>3, OneResponse DEF Part, Inv, TypeOK
  <1>7. CASE Finish
    <2>1. End(response[h], {}) \in Responses /\ Told(h, failure[h], End(response[h], {}))
      BY <1>2, <1>3, <1>4, EndType
    <2>2. response' = [response EXCEPT ![h] = End(response[h], {})]
      BY <1>2, <1>7, InvSplit DEF Finish
    <2>3. /\ pending' \in Seq(Requests) /\ Distinct(pending')
          /\ ToSet(pending') \subseteq ToSet(pending)
      BY <1>1, <1>7, TailToSet, TailDistinct DEF Finish
    <2> HIDE DEF h
    <2> QED
      BY <1>1, <1>2, <1>7, <2>1, <2>2, <2>3, OneResponse DEF Finish, Inv, TypeOK
  <1> QED
    BY <1>5, <1>6, <1>7

-----------------------------------------------------------------------------
(***************************************************************************)
(* Steps that report an error.                                             *)
(***************************************************************************)

\* What the callbacks called for rs leave: only the requests in rs, which had
\* not failed before, are failed, their responses as Respond and End leave them.
LEMMA ReportStep ==
    ASSUME Inv, NEW rs \in SUBSET Requests, NEW code \in Codes, Report(rs, code),
           handler' = handler, socket' \in {"open", "failed", "closed"},
           stage' \in [Requests -> {"new", "connecting", "queued", "refused"}],
           \A r \in Requests \ rs : stage'[r] = stage[r],
           \A r \in rs : stage'[r] \in {"queued", "refused"},
           \A r \in rs : failure[r] = None,
           pending' \in Seq(Requests), Distinct(pending'),
           ToSet(pending') \subseteq ToSet(pending) \ rs,
           response' \in [Requests -> Responses],
           \A r \in Requests \ rs : response'[r] = response[r],
           \A r \in rs :
              LET w == response'[r] IN
              /\ w.state = "ended" => w.status # "none"
              /\ response[r].status = "none" /\ w.state = "open" => w.status = "none"
              /\ response[r].status = "none" /\ w.state = "ended" =>
                    \/ w.status \in {StatusOf(code), "own"}
                    \/ handler = "promises" /\ stage'[r] = "queued"
    PROVE  Inv'
  <1>0. code # "none"
    BY DEF Codes, RefusalCodes, SocketCodes, ParserCodes, Aborted
  <1>1. /\ \A r \in rs : failure'[r] = [code |-> code,
                                       untouched |-> response[r].status = "none"]
        /\ \A r \in Requests \ rs : failure'[r] = failure[r]
        /\ failure' \in [Requests -> Failures]
    BY InvSplit DEF Report, Failures
  <1>2. promised' \subseteq Requests
    BY DEF Report, Inv, TypeOK
  <1>3. \A r \in ToSet(pending') : r \in ToSet(pending) /\ r \in Requests /\ r \notin rs
    BY DEF ToSet, Inv, TypeOK
  <1>4. TypeOK'
    <2>1. \A r \in ToSet(pending') : failure'[r] = None
      BY <1>1, <1>3 DEF Inv, TypeOK
    <2> QED
      BY <1>1, <1>2, <2>1 DEF Inv, TypeOK, Responses, Failures
  <1>5. PendingOnce'
    BY <1>3 DEF Inv, PendingOnce
  <1>6. NotFailedYet'
    BY <1>1 DEF Inv, NotFailedYet
  <1>7. ASSUME NEW r \in Requests PROVE Told(r, failure[r], response[r])'
    <2>1. CASE r \in rs
      <3>1. PICK u \in BOOLEAN : u = (response[r].status = "none")
        OBVIOUS
      <3>2. failure'[r] = [code |-> code, untouched |-> u]
        BY <1>1, <2>1, <3>1
      <3>3. failure'[r].code = code /\ failure'[r].untouched = u
        BY <3>2
      <3> QED
        BY <2>1, <3>1, <3>3 DEF Told
    <2>2. CASE r \notin rs
      <3>1. Told(r, failure[r], response[r])
        BY InvSplit
      <3>2. failure'[r] = failure[r] /\ response'[r] = response[r] /\ stage'[r] = stage[r]
        BY <1>1, <2>2
      <3> QED
        BY <3>1, <3>2 DEF Told
    <2> QED
      BY <2>1, <2>2
  <1> QED
    BY <1>4, <1>5, <1>6, <1>7, InvJoin

LEMMA RefuseStep ==
    ASSUME Inv, NEW r \in Requests, Refuse(r) PROVE Inv'
  <1>0. PICK code \in RefusalCodes :
           /\ Report({r}, code)
           /\ \E status \in Statuses(code) :
                 response' = [response EXCEPT ![r] = Respond(response[r], status)]
    BY InvSplit DEF Refuse
  <1>1. PICK status \in Statuses(code) :
           response' = [response EXCEPT ![r] = Respond(response[r], status)]
    BY <1>0
  <1>2. stage[r] = "connecting" /\ failure[r] = None /\ r \notin ToSet(pending)
    BY DEF Refuse, Inv, NotFailedYet, PendingOnce
  <1> DEFINE w == Respond(response[r], status)
  <1>3. response[r] \in Responses /\ Told(r, failure[r], response[r])
    BY InvSplit
  <1>4. status \in {StatusOf(code), "own"} /\ status \in {"502", "503", "504", "own"}
    BY <1>1, StatusTypes
  <1>5. /\ w \in Responses
        /\ w.state = "ended" => w.status # "none"
        /\ response[r].status = "none" /\ w.state = "open" => w.status = "none"
        /\ response[r].status = "none" /\ w.state = "ended" => w.status = status
    BY <1>3, <1>4, RespondType, ErrorResponseType DEF Told
  <1> HIDE DEF w
  <1>6. response' \in [Requests -> Responses] /\ response'[r] = w
        /\ \A q \in Requests \ {r} : response'[q] = response[q]
    BY <1>1, <1>5, InvSplit DEF w
  <1>7. /\ stage' \in [Requests -> {"new", "connecting", "queued", "refused"}]
        /\ stage'[r] = "refused" /\ \A q \in Requests \ {r} : stage'[q] = stage[q]
    BY DEF Refuse, Inv, TypeOK
  <1>8. code \in Codes /\ Report({r}, code)
    BY <1>0 DEF Codes
  <1>9. UNCHANGED <<handler, socket, pending>>
    BY DEF Refuse
  <1>10. /\ pending' \in Seq(Requests) /\ Distinct(pending')
         /\ ToSet(pending') \subseteq ToSet(pending) \ {r}
         /\ socket' \in {"open", "failed", "closed"}
    BY <1>2, <1>9 DEF Inv, TypeOK, PendingOnce
  <1>11. response[r].status = "none" /\ w.state = "ended" =>
            w.status \in {StatusOf(code), "own"}
    BY <1>4, <1>5
  <1>12. handler' = handler
    BY <1>9
  <1> QED
    BY <1>2, <1>5, <1>6, <1>7, <1>8, <1>10, <1>11, <1>12, ReportStep

\* A handler that does not throw: every request that is not stale is reported
\* and its response ended.
LEMMA CloseAllStep ==
    ASSUME Inv, NEW code \in Codes, CloseAll(code), handler # "throws",
           UNCHANGED <<handler, stage>>, socket' \in {"open", "failed", "closed"}
    PROVE  Inv'
  <1> DEFINE rs == {r \in ToSet(pending) : ~Stale(r)}
  <1>1. /\ rs \in SUBSET Requests
        /\ \A r \in rs : /\ stage[r] = "queued" /\ failure[r] = None
                         /\ response[r] \in Responses
                         /\ response[r].state # "aborted"
                         /\ Told(r, failure[r], response[r])
    BY InvSplit DEF Inv, TypeOK, PendingOnce, Stale, ToSet
  <1>2. pending' = <<>> /\ Report(rs, code)
    BY DEF CloseAll
  <1>3. PICK status \in [rs -> Statuses(code)] :
           response' = [r \in Requests |->
              IF r \in rs THEN End(Respond(response[r], status[r]), {})
              ELSE response[r]]
    BY DEF CloseAll
  <1> HIDE DEF rs
  <1>4. ASSUME NEW r \in rs
        PROVE  LET w == response'[r] IN
               /\ w \in Responses
               /\ w.state = "ended" => w.status # "none"
               /\ w.state # "open"
               /\ response[r].status = "none" /\ w.state = "ended" =>
                     \/ w.status \in {StatusOf(code), "own"}
                     \/ handler = "promises"
    <2> DEFINE w == response[r]
               v == Respond(w, status[r])
    <2>1. /\ status[r] \in {StatusOf(code), "own"}
          /\ status[r] \in {"502", "503", "504", "own"}
      BY <1>3, StatusTypes
    <2>2. w \in Responses /\ response'[r] = End(v, {}) /\ Told(r, failure[r], w)
      BY <1>1, <1>3
    <2>3. w.state = "open" \/ w.status # "none"
      BY <1>1, <2>2 DEF Told, Responses
    <2>4. v \in Responses
      BY <2>1, <2>2, RespondType
    <2>5. End(v, {}) \in Responses /\ End(v, {}).state # "open"
      BY <2>4, EndType
    <2>6. End(v, {}).state = "ended" => End(v, {}).status # "none"
      <3>1. CASE v.state = "open"
        BY <2>4, <3>1, EndType
      <3>2. CASE v.state # "open"
        BY <2>1, <2>2, <2>4, <3>2, EndType, RespondType, ErrorResponseType DEF Told
      <3> QED
        BY <3>1, <3>2
    <2>7. w.status = "none" /\ handler # "promises" => End(v, {}).status = status[r]
      <3> SUFFICES ASSUME w.status = "none", handler # "promises"
                   PROVE  End(v, {}).status = status[r]
        OBVIOUS
      <3>1. handler \in {"none", "answers"} /\ w.state = "open"
        BY <2>3 DEF Inv, TypeOK
      <3>2. v.status = status[r] /\ v.state # "open"
        BY <2>1, <2>2, <3>1, RespondType, ErrorResponseType
      <3> QED
        BY <2>4, <3>2, EndType
    <2> HIDE DEF w, v
    <2> QED
      BY <2>1, <2>2, <2>5, <2>6, <2>7 DEF w
  <1>5. response' \in [Requests -> Responses]
    <2>1. \A r \in Requests : response'[r] \in Responses
      BY <1>1, <1>3, <1>4, InvSplit
    <2> QED
      BY <1>3, <2>1
  <1>6. pending' \in Seq(Requests) /\ ToSet(pending') = {} /\ Distinct(pending')
    BY <1>2, EmptyToSet, EmptyDistinct
  <1>7. \A r \in Requests \ rs : response'[r] = response[r]
    BY <1>3
  <1>8. stage \in [Requests -> {"new", "connecting", "queued", "refused"}]
    BY DEF Inv, TypeOK
  <1> QED
    BY <1>1, <1>2, <1>4, <1>5, <1>6, <1>7, <1>8, ReportStep

\* A handler that throws: the first such request is reported and has left the
\* pipeline, those behind it stay.
LEMMA CloseOneStep ==
    ASSUME Inv, NEW code \in Codes, CloseOne(code),
           UNCHANGED <<handler, stage>>, socket' \in {"open", "failed", "closed"}
    PROVE  Inv'
  <1>1. pending \in Seq(Requests) /\ Distinct(pending)
    BY DEF Inv, TypeOK, PendingOnce
  <1>3. response' = response
    BY DEF CloseOne
  <1>4. ASSUME pending' = <<>>, UNCHANGED <<failure, promised>> PROVE Inv'
    <2>1. pending' = <<>> /\ UNCHANGED <<failure, promised>>
      BY <1>4
    <2>2. pending' \in Seq(Requests) /\ ToSet(pending') = {} /\ Distinct(pending')
      BY <2>1, EmptyToSet, EmptyDistinct
    <2>3. TypeOK' /\ PendingOnce' /\ NotFailedYet'
      BY <1>3, <2>1, <2>2 DEF Inv, TypeOK, PendingOnce, NotFailedYet
    <2>4. \A r \in Requests : Told(r, failure[r], response[r])'
      BY <1>3, <2>1, InvSplit DEF Told
    <2> QED
      BY <2>3, <2>4, InvJoin
  <1>5. ASSUME NEW i \in 1 .. Len(pending), ~Stale(pending[i]),
               Report({pending[i]}, code),
               pending' = SubSeq(pending, i + 1, Len(pending))
        PROVE  Inv'
    <2> DEFINE r == pending[i]
               t == SubSeq(pending, i + 1, Len(pending))
    <2>1. Report({r}, code) /\ pending' = t
      BY <1>5
    <2>2. i \in 1 .. Len(pending) /\ Len(pending) \in Nat
      BY <1>1
    <2>3. /\ t \in Seq(Requests) /\ Len(t) = Len(pending) - i
          /\ \A k \in 1 .. Len(t) : t[k] = pending[i + k]
      BY <1>1, <2>2
    <2>4. Distinct(t)
      BY <1>1, <2>2, <2>3 DEF Distinct
    <2>5. ToSet(t) \subseteq ToSet(pending) \ {r}
      <3> SUFFICES ASSUME NEW k \in 1 .. Len(t)
                   PROVE  t[k] \in ToSet(pending) /\ t[k] # r
        BY <2>3 DEF ToSet
      <3>1. i + k \in 1 .. Len(pending) /\ i + k # i
        BY <2>2, <2>3
      <3> QED
        BY <1>1, <2>2, <2>3, <3>1 DEF Distinct, ToSet
    <2>6. r \in Requests /\ r \in ToSet(pending) /\ ~Stale(r)
      BY <1>1, <1>5, <2>2 DEF ToSet
    <2> HIDE DEF r, t
    <2>7. stage[r] = "queued" /\ failure[r] = None
      BY <2>6 DEF Inv, TypeOK, PendingOnce
    <2>8. response[r] \in Responses /\ Told(r, failure[r], response[r])
      BY <2>6, InvSplit
    <2>9. /\ response[r].state = "ended" => response[r].status # "none"
          /\ response'[r] = response[r]
      BY <1>3, <2>8 DEF Told
    <2>10. stage' \in [Requests -> {"new", "connecting", "queued", "refused"}]
           /\ response' \in [Requests -> Responses]
      BY <1>3, InvSplit DEF Inv, TypeOK
    <2> QED
      BY <1>3, <2>1, <2>3, <2>4, <2>5, <2>6, <2>7, <2>9, <2>10, ReportStep
  <1> QED
    BY <1>4, <1>5 DEF CloseOne

LEMMA ClosingStep ==
    ASSUME Inv, SocketError \/ SocketClosed \/ ParserError PROVE Inv'
  <1>1. PICK code \in Codes : ClosePipeline(code)
    BY DEF SocketError, SocketClosed, ParserError, Codes
  <1>2. UNCHANGED <<handler, stage>> /\ socket' \in {"open", "failed", "closed"}
    BY DEF SocketError, SocketClosed, ParserError, Inv, TypeOK
  <1> QED
    BY <1>1, <1>2, CloseAllStep, CloseOneStep DEF ClosePipeline

-----------------------------------------------------------------------------
LEMMA InvInit == Init => Inv
  <1> SUFFICES ASSUME Init PROVE Inv
    OBVIOUS
  <1>1. New \in Responses /\ None \in Failures
    BY DEF New, Responses, None, Failures
  <1>2. pending = <<>> /\ ToSet(pending) = {} /\ Distinct(pending)
    BY EmptyToSet, EmptyDistinct DEF Init
  <1>3. TypeOK
    BY <1>1, <1>2 DEF Init, TypeOK, Responses, Failures
  <1>4. PendingOnce /\ NotFailedYet
    BY <1>2 DEF Init, PendingOnce, NotFailedYet
  <1>5. EndedHasStatus /\ StillUntouched /\ ErrorIsSeen
    BY DEF Init, New, None, EndedHasStatus, StillUntouched, ErrorIsSeen, Failed
  <1> QED
    BY <1>3, <1>4, <1>5 DEF Inv

LEMMA InvNext == ASSUME Inv, [Next]_vars PROVE Inv'
  <1>1. CASE UNCHANGED vars
    <2>1. TypeOK' /\ PendingOnce' /\ NotFailedYet'
      BY <1>1 DEF vars, Inv, TypeOK, PendingOnce, NotFailedYet
    <2>2. \A r \in Requests : Told(r, failure[r], response[r])'
      BY <1>1, InvSplit DEF vars, Told
    <2> QED
      BY <2>1, <2>2, InvJoin
  <1>2. ASSUME NEW r \in Requests,
               HandleRequest(r) \/ Refuse(r) \/ Schedule(r) \/ Abort(r) \/ Settle(r)
        PROVE  Inv'
    BY <1>2, HandleRequestStep, RefuseStep, ScheduleStep, AbortStep, SettleStep
  <1> QED
    BY <1>1, <1>2, ServerStep, ClosingStep DEF Next

\* The variables keep their types, and a request in the pipeline has not failed.
THEOREM ErrorTypes == Spec => []TypeOK
  <1>1. Inv => TypeOK
    BY DEF Inv
  <1> QED
    BY <1>1, InvInit, InvNext, PTL DEF Spec

\* A client that had got nothing when its request failed is never given a
\* success, unless the handler promised an answer for a pipelined request.
THEOREM ErrorsAreSeen == Spec => []ErrorIsSeen
  <1>1. Inv => ErrorIsSeen
    BY DEF Inv
  <1> QED
    BY <1>1, InvInit, InvNext, PTL DEF Spec
=============================================================================
