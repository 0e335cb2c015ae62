------------------------ MODULE ConnectionPoolProofs ------------------------
(***************************************************************************)
(* Theorems about ConnectionPool, for every number of requests and         *)
(* connections, every limit and every number of attempts to reconnect.     *)
(***************************************************************************)
EXTENDS ConnectionPool, SequenceFacts, FiniteSetTheorems, TLAPS

\* A connection takes one place in a list, and the lists keep the limit.
Slots == Distinct(pool) /\ Distinct(pend) /\ SlotLimit

\* A promise is pending exactly as long as an attempt or a timer is under way,
\* and is listed then; and what 'connected' says of a socket is true.
Promises ==
    \A c \in Connections :
       /\ promise[c] = "pending" <=> socket[c] = "connecting" \/ timer[c]
       /\ promise[c] = "pending" => c \in ToSet(pend)
       /\ timer[c] => socket[c] = "closed"
       /\ socket[c] = "none" => c \notin ToSet(pend)
       /\ state[c] = "connected" <=> Live(c)

\* A request that awaits a connection or was sent knows which.
Placed == \A r \in Requests : stage[r] \in {"waiting", "sent"} => on[r] \in Connections

\* The inductive invariant.
Inv ==
    /\ TypeOK /\ Slots /\ Promises /\ Placed
    /\ WaitersWake /\ SentOnLive /\ PooledIsConnected
    /\ ConnectedIsPooled /\ SlotsArePending

Stages == {"new", "waiting", "sent", "answered", "failed", "refused"}

-----------------------------------------------------------------------------
(***************************************************************************)
(* The operators.                                                          *)
(***************************************************************************)

\* Splicing never adds anything, and c is gone afterwards; if it was there,
\* nothing else is.
LEMMA SpliceType ==
    ASSUME NEW s \in Seq(Connections), Distinct(s), NEW c \in Connections
    PROVE  /\ Splice(s, c) \in Seq(Connections) /\ Distinct(Splice(s, c))
           /\ ToSet(Splice(s, c)) \subseteq ToSet(s) \ {c}
           /\ Len(Splice(s, c)) <= Len(s)
           /\ c \in ToSet(s) => /\ ToSet(Splice(s, c)) = ToSet(s) \ {c}
                                /\ Len(Splice(s, c)) = Len(s) - 1
  <1>1. Len(s) \in Nat
    OBVIOUS
  <1>2. CASE c \in ToSet(s)
    BY <1>1, <1>2, RemoveDistinct DEF Splice
  <1>3. CASE c \notin ToSet(s)
    <2>1. Splice(s, c) = Front(s)
      BY <1>3 DEF Splice
    <2>2. Len(Front(s)) <= Len(s)
      BY <1>1, FrontDistinct
    <2> QED
      BY <1>3, <2>1, <2>2, FrontDistinct
  <1> QED
    BY <1>2, <1>3

\* Sending changes the stage of the requests that are sent, and of no other.
LEMMA SendType ==
    ASSUME stage \in [Requests -> Stages], NEW rs \in SUBSET Requests,
           NEW c \in Connections, Send(rs, c)
    PROVE  /\ stage' \in [Requests -> Stages]
           /\ \A r \in rs : stage'[r] \in {"sent", "failed"}
           /\ \A r \in Requests \ rs : stage'[r] = stage[r]
  <1>1. PICK sent \in SUBSET rs :
           stage' = [r \in Requests |-> CASE r \in sent      -> "sent"
                                          [] r \in rs \ sent -> "failed"
                                          [] OTHER           -> stage[r]]
    BY DEF Send
  <1>2. ASSUME NEW r \in Requests
        PROVE  /\ r \in rs => stage'[r] \in {"sent", "failed"}
               /\ r \notin rs => stage'[r] = stage[r]
    <2>1. CASE r \in sent
      BY <1>1, <2>1
    <2>2. CASE r \in rs \ sent
      BY <1>1, <2>2
    <2>3. CASE r \notin rs
      BY <1>1, <2>3
    <2> QED
      BY <2>1, <2>2, <2>3
  <1> QED
    BY <1>1, <1>2 DEF Stages

LEMMA FailType ==
    ASSUME stage \in [Requests -> Stages], NEW rs \in SUBSET Requests
    PROVE  /\ Fail(rs) \in [Requests -> Stages]
           /\ \A r \in rs : Fail(rs)[r] = "failed"
           /\ \A r \in Requests \ rs : Fail(rs)[r] = stage[r]
  BY DEF Fail, Stages

\* A set of as many elements as a sequence has, at most.
LEMMA ToSetCardinality ==
    ASSUME NEW S, NEW s \in Seq(S)
    PROVE  IsFiniteSet(ToSet(s)) /\ Cardinality(ToSet(s)) <= Len(s)
  <1>1. s \in [1 .. Len(s) -> S] /\ Len(s) \in Nat /\ DOMAIN s = 1 .. Len(s)
    OBVIOUS
  <1>2. s \in Surjection(1 .. Len(s), ToSet(s))
    BY <1>1 DEF Surjection, ToSet
  <1>3. IsFiniteSet(1 .. Len(s)) /\ Cardinality(1 .. Len(s)) = Len(s)
    <2>1. ASSUME NEW n \in Nat PROVE IsFiniteSet(1 .. n) /\ Cardinality(1 .. n) = n
      <3>1. /\ IsFiniteSet(1 .. n)
            /\ Cardinality(1 .. n) = IF 1 > n THEN 0 ELSE n - 1 + 1
        BY FS_Interval
      <3> QED
        BY <3>1
    <2> QED
      BY <1>1, <2>1
  <1> QED
    BY <1>2, <1>3, FS_Surjection

-----------------------------------------------------------------------------
(***************************************************************************)
(* Requests.                                                               *)
(***************************************************************************)

LEMMA CreateStep ==
    ASSUME Inv, NEW r \in Requests, NEW c \in Connections,
           Len(pend) + Len(pool) < MaxConnections, stage[r] = "new", Create(r, c)
    PROVE  Inv'
  <1>1. pend \in Seq(Connections) /\ pool \in Seq(Connections)
        /\ Distinct(pend) /\ Len(pend) \in Nat /\ Len(pool) \in Nat
    BY DEF Inv, TypeOK, Slots
  <1>2. c \notin ToSet(pend) /\ socket[c] = "none" /\ ~timer[c]
    BY DEF Inv, Promises, Create
  <1>3. /\ pend' \in Seq(Connections) /\ Distinct(pend') /\ Len(pend') = Len(pend) + 1
        /\ ToSet(pend') = ToSet(pend) \cup {c}
    BY <1>1, <1>2, AppendToSet, AppendDistinct DEF Create
  <1>4. TypeOK'
    BY <1>3 DEF Inv, TypeOK, Create
  <1>5. Slots'
    BY <1>1, <1>3, PoolAssumption DEF Inv, Slots, SlotLimit, Create
  <1>6. Promises'
    BY <1>2, <1>3 DEF Inv, TypeOK, Promises, Live, Create
  <1>7. Placed'
    BY DEF Inv, TypeOK, Placed, Create
  <1>8. WaitersWake'
    BY <1>2, <1>3 DEF Inv, TypeOK, WaitersWake, Placed, Create
  <1>9. SentOnLive'
    BY <1>2 DEF Inv, TypeOK, SentOnLive, Placed, Live, Create
  <1>10. PooledIsConnected' /\ ConnectedIsPooled'
    <2>1. c \notin ToSet(pool)
      BY <1>2 DEF Inv, PooledIsConnected, Live
    <2> QED
      BY <1>1, <1>2, <2>1 DEF Inv, TypeOK, PooledIsConnected, ConnectedIsPooled, Live, Create,
         ToSet
  <1>11. SlotsArePending'
    BY <1>1, <1>3 DEF Inv, TypeOK, SlotsArePending, Create, ToSet
  <1> QED
    BY <1>4, <1>5, <1>6, <1>7, <1>8, <1>9, <1>10, <1>11 DEF Inv

\* A request is placed on a connection there is.
LEMMA SelectStep ==
    ASSUME Inv, NEW r \in Requests, NEW c \in Connections, stage[r] = "new", Select(r, c)
    PROVE  Inv'
  <1>1. UNCHANGED <<clientVars, connectionVars>>
    BY DEF Select, connectionVars
  <1>2. /\ on' = [on EXCEPT ![r] = c]
        /\ stage' \in [Requests -> Stages]
        /\ \A q \in Requests \ {r} : stage'[q] = stage[q]
        /\ stage'[r] = "waiting" => c \in ToSet(pend) /\ promise[c] = "pending"
        /\ stage'[r] = "sent" => c \in ToSet(pool)
    <2>1. on' = [on EXCEPT ![r] = c] /\ stage \in [Requests -> Stages]
      BY DEF Select, Inv, TypeOK, Stages
    <2>2. CASE c \in ToSet(pend) /\ promise[c] = "pending"
               /\ stage' = [stage EXCEPT ![r] = "waiting"]
      BY <2>1, <2>2 DEF Stages
    <2>3. CASE stage' = Fail({r})
      BY <2>1, <2>3, FailType
    <2>4. CASE c \in ToSet(pool) /\ Send({r}, c)
      BY <2>1, <2>4, SendType
    <2> QED
      BY <2>1, <2>2, <2>3, <2>4 DEF Select
  <1>3. TypeOK' /\ Slots' /\ Promises' /\ PooledIsConnected' /\ ConnectedIsPooled'
        /\ SlotsArePending'
    BY <1>1, <1>2
    DEF Inv, TypeOK, Slots, SlotLimit, Promises, PooledIsConnected, ConnectedIsPooled,
        SlotsArePending, Live, clientVars, connectionVars, Stages
  <1>4. ASSUME NEW q \in Requests
        PROVE  /\ q # r => on'[q] = on[q] /\ stage'[q] = stage[q]
               /\ q = r => on'[q] = c
    BY <1>2 DEF Inv, TypeOK
  <1>5. Placed'
    BY <1>4 DEF Inv, Placed
  <1>6. WaitersWake'
    BY <1>1, <1>2, <1>4 DEF Inv, WaitersWake, Promises, clientVars, connectionVars
  <1>7. SentOnLive'
    BY <1>1, <1>2, <1>4 DEF Inv, SentOnLive, PooledIsConnected, Live, connectionVars
  <1> QED
    BY <1>3, <1>5, <1>6, <1>7 DEF Inv

-----------------------------------------------------------------------------
(***************************************************************************)
(* Sockets that close.                                                     *)
(***************************************************************************)

\* The socket of c, which lived, closes: its requests fail, r with them if it
\* was just written to.
LEMMA ClosedStep ==
    ASSUME Inv, NEW c \in Connections, Live(c), NEW rs \in SUBSET Requests,
           InFlight(c) \subseteq rs,
           \A r \in rs : stage[r] = "new" \/ r \in InFlight(c),
           socket' = [socket EXCEPT ![c] = "closed"],
           state' = [state EXCEPT ![c] = "closed"],
           locked' = [locked EXCEPT ![c] = FALSE],
           pool' = Splice(pool, c), stage' = Fail(rs),
           on' \in [Requests -> Connections \cup {None}],
           \A r \in Requests \ rs : on'[r] = on[r],
           UNCHANGED <<pend, closed, promise, attempts, timer, failed>>
    PROVE  Inv'
  <1>1. /\ pool' \in Seq(Connections) /\ Distinct(pool') /\ Len(pool') <= Len(pool)
        /\ ToSet(pool') \subseteq ToSet(pool) \ {c}
        /\ c \in ToSet(pool) => ToSet(pool') = ToSet(pool) \ {c}
    BY SpliceType DEF Inv, TypeOK, Slots
  <1>2. /\ stage' \in [Requests -> Stages]
        /\ \A r \in rs : stage'[r] = "failed"
        /\ \A r \in Requests \ rs : stage'[r] = stage[r]
    BY FailType, ZenonT(60) DEF Inv, TypeOK, Stages
  <1>3. state[c] = "connected" /\ ~timer[c] /\ promise[c] # "pending"
    BY DEF Inv, TypeOK, Promises, Live
  <1>4. TypeOK'
    BY <1>1, <1>2 DEF Inv, TypeOK, Stages
  <1>5. Slots'
    BY <1>1, PoolAssumption DEF Inv, TypeOK, Slots, SlotLimit
  <1>6. Promises'
    BY <1>3 DEF Inv, TypeOK, Promises, Live
  <1>7. Placed'
    BY <1>2 DEF Inv, Placed
  <1>8. WaitersWake'
    BY <1>2, <1>3 DEF Inv, TypeOK, WaitersWake, Placed
  <1>9. SentOnLive'
    <2> SUFFICES ASSUME NEW r \in Requests, stage'[r] = "sent" PROVE Live(on[r])'
      BY DEF SentOnLive
    <2>1. r \notin rs /\ stage[r] = "sent" /\ on'[r] = on[r]
      BY <1>2
    <2>2. on[r] \in Connections /\ on[r] # c /\ Live(on[r])
      BY <2>1 DEF Inv, Placed, SentOnLive, InFlight
    <2> QED
      BY <2>1, <2>2 DEF Live, Inv, TypeOK
  <1>10. PooledIsConnected'
    <2>1. ToSet(pool) \subseteq Connections
      BY DEF Inv, TypeOK, ToSet
    <2> QED
      BY <1>1, <2>1 DEF Inv, TypeOK, PooledIsConnected, Live
  <1>11. ConnectedIsPooled'
    BY <1>1, <1>3 DEF Inv, TypeOK, ConnectedIsPooled
  <1>12. SlotsArePending'
    BY DEF Inv, SlotsArePending
  <1> QED
    BY <1>4, <1>5, <1>6, <1>7, <1>8, <1>9, <1>10, <1>11, <1>12 DEF Inv

LEMMA SocketClosedStep ==
    ASSUME Inv, NEW c \in Connections, SocketClosed(c) PROVE Inv'
  <1>1. InFlight(c) \in SUBSET Requests
    BY DEF InFlight
  <1> QED
    BY <1>1, ClosedStep DEF SocketClosed, Inv, TypeOK

LEMMA WriteAfterEndStep ==
    ASSUME Inv, NEW r \in Requests, NEW c \in Connections, stage[r] = "new",
           WriteAfterEnd(r, c)
    PROVE  Inv'
  <1> DEFINE rs == InFlight(c) \cup {r}
  <1>1. rs \in SUBSET Requests /\ InFlight(c) \subseteq rs
        /\ \A q \in rs : stage[q] = "new" \/ q \in InFlight(c)
    BY DEF InFlight
  <1>2. /\ on' \in [Requests -> Connections \cup {None}]
        /\ \A q \in Requests \ rs : on'[q] = on[q]
    BY DEF WriteAfterEnd, Inv, TypeOK
  <1>3. Live(c) /\ stage' = Fail(rs)
    BY DEF WriteAfterEnd, Live
  <1> HIDE DEF rs
  <1> QED
    BY <1>1, <1>2, <1>3, ClosedStep DEF WriteAfterEnd

LEMMA RequestStep ==
    ASSUME Inv, NEW r \in Requests, NEW c \in Connections, Request(r, c) PROVE Inv'
  <1>1. Len(pend) \in Nat /\ Len(pool) \in Nat /\ MaxConnections \in Nat
    BY PoolAssumption DEF Inv, TypeOK
  <1> QED
    BY <1>1, CreateStep, SelectStep, WriteAfterEndStep DEF Request

-----------------------------------------------------------------------------
(***************************************************************************)
(* Connections that are being established.                                 *)
(***************************************************************************)

LEMMA ConnectedStep ==
    ASSUME Inv, NEW c \in Connections, Connected(c) PROVE Inv'
  <1>1. /\ promise[c] = "pending" /\ c \in ToSet(pend) /\ ~timer[c]
        /\ state[c] # "connected"
    BY DEF Connected, Inv, TypeOK, Promises, Live
  <1>2. /\ pend' \in Seq(Connections) /\ Distinct(pend')
        /\ ToSet(pend') = ToSet(pend) \ {c} /\ Len(pend') = Len(pend) - 1
    BY <1>1, SpliceType DEF Connected, Inv, TypeOK, Slots
  <1>3. c \notin ToSet(pool)
    BY <1>1 DEF Inv, PooledIsConnected
  <1>4. /\ pool' \in Seq(Connections) /\ Distinct(pool')
        /\ ToSet(pool') = ToSet(pool) \cup {c} /\ Len(pool') = Len(pool) + 1
        /\ ToSet(pool) \subseteq Connections /\ ToSet(pend) \subseteq Connections
    <2>1. pool \in Seq(Connections) /\ Distinct(pool) /\ pool' = Append(pool, c)
      BY DEF Connected, Inv, TypeOK, Slots
    <2>2. ToSet(pool) \subseteq Connections /\ ToSet(pend) \subseteq Connections
      BY DEF Inv, TypeOK, ToSet
    <2>3. Append(pool, c) \in Seq(Connections) /\ Len(Append(pool, c)) = Len(pool) + 1
      BY <2>1
    <2> QED
      BY <1>3, <2>1, <2>2, <2>3, AppendToSet, AppendDistinct
  <1>5. /\ stage' \in [Requests -> Stages]
        /\ \A r \in Awaiting(c) : stage'[r] \in {"sent", "failed"}
        /\ \A r \in Requests \ Awaiting(c) : stage'[r] = stage[r]
    <2>1. Awaiting(c) \in SUBSET Requests /\ stage \in [Requests -> Stages]
      BY DEF Awaiting, Inv, TypeOK, Stages
    <2> QED
      BY <2>1, SendType DEF Connected
  <1>6. TypeOK'
    BY <1>2, <1>4, <1>5, PoolAssumption DEF Connected, Inv, TypeOK, Stages
  <1>7. Slots'
    BY <1>2, <1>4, PoolAssumption DEF Inv, TypeOK, Slots, SlotLimit
  <1>8. Promises'
    BY <1>1, <1>2 DEF Connected, Inv, TypeOK, Promises, Live
  <1>9. Placed'
    BY <1>5 DEF Connected, Inv, Placed, Awaiting
  <1>10. WaitersWake'
    <2> SUFFICES ASSUME NEW r \in Requests, stage'[r] = "waiting"
                 PROVE  /\ on[r] \in ToSet(pend') /\ promise'[on[r]] = "pending"
                        /\ socket'[on[r]] = "connecting" \/ timer'[on[r]]
      BY DEF WaitersWake, Connected
    <2>1. r \notin Awaiting(c) /\ stage[r] = "waiting"
      BY <1>5
    <2>2. on[r] # c /\ on[r] \in Connections
      BY <2>1 DEF Awaiting, Inv, Placed
    <2> QED
      BY <1>2, <2>1, <2>2 DEF Connected, Inv, TypeOK, WaitersWake
  <1>11. SentOnLive'
    <2> SUFFICES ASSUME NEW r \in Requests, stage'[r] = "sent" PROVE Live(on[r])'
      BY DEF SentOnLive
    <2>1. on' = on /\ socket'[c] = "open"
      BY DEF Connected, Inv, TypeOK
    <2>2. CASE r \in Awaiting(c)
      BY <2>1, <2>2 DEF Awaiting, Live
    <2>3. CASE r \notin Awaiting(c)
      BY <1>5, <2>1, <2>3 DEF Connected, Inv, TypeOK, SentOnLive, Placed, Live
    <2> QED
      BY <2>2, <2>3
  <1>12. PooledIsConnected' /\ ConnectedIsPooled'
    BY <1>4 DEF Connected, Inv, TypeOK, PooledIsConnected, ConnectedIsPooled, Live
  <1>13. SlotsArePending'
    BY <1>2, <1>4 DEF Connected, Inv, TypeOK, SlotsArePending
  <1> QED
    BY <1>6, <1>7, <1>8, <1>9, <1>10, <1>11, <1>12, <1>13 DEF Inv

\* An attempt to connect fails, and is given up or made again.
LEMMA AttemptFailedStep ==
    ASSUME Inv, NEW c \in Connections, socket[c] = "connecting",
           GiveUp(c) \/ (attempts[c] < MaxReopen /\ TryAgain(c)),
           failed' = TRUE,
           socket' = [socket EXCEPT ![c] = "closed"],
           state' = [state EXCEPT ![c] = "closed"],
           UNCHANGED <<pend, closed, locked, on>>
    PROVE  Inv'
  <1>1. promise[c] = "pending" /\ c \in ToSet(pend) /\ ~timer[c] /\ ~Live(c)
    BY DEF Inv, TypeOK, Promises, Live
  <1>2. /\ pool' \in Seq(Connections) /\ Distinct(pool') /\ Len(pool') <= Len(pool)
        /\ ToSet(pool') \subseteq ToSet(pool) \ {c}
    <2>1. pool \in Seq(Connections) /\ Distinct(pool)
      BY DEF Inv, TypeOK, Slots
    <2> DEFINE p == Splice(pool, c)
    <2>2. /\ p \in Seq(Connections) /\ Distinct(p) /\ Len(p) <= Len(pool)
          /\ ToSet(p) \subseteq ToSet(pool) \ {c}
      BY <2>1, SpliceType
    <2>3. pool' = p \/ pool' = Splice(p, c)
      BY DEF GiveUp, TryAgain
    <2> HIDE DEF p
    <2>4. /\ Splice(p, c) \in Seq(Connections) /\ Distinct(Splice(p, c))
          /\ Len(Splice(p, c)) <= Len(p)
          /\ ToSet(Splice(p, c)) \subseteq ToSet(p) \ {c}
      BY <2>2, SpliceType
    <2>5. Len(pool) \in Nat /\ Len(p) \in Nat /\ Len(Splice(p, c)) \in Nat
      BY <2>1, <2>2, <2>4
    <2> QED
      BY <2>2, <2>3, <2>4, <2>5
  <1>3. /\ stage' \in [Requests -> Stages]
        /\ \A r \in Requests : \/ stage'[r] = stage[r]
                               \/ r \in Awaiting(c) /\ stage'[r] = "failed"
        /\ \/ /\ \A r \in Awaiting(c) : stage'[r] = "failed"
              /\ promise' = [promise EXCEPT ![c] = "rejected"] /\ timer' = timer
           \/ stage' = stage /\ promise' = promise /\ timer' = [timer EXCEPT ![c] = TRUE]
    <2>1. Awaiting(c) \in SUBSET Requests /\ stage \in [Requests -> Stages]
      BY DEF Awaiting, Inv, TypeOK, Stages
    <2> QED
      BY <2>1, FailType DEF GiveUp, TryAgain
  <1>4. TypeOK'
    <2>1. attempts' \in [Connections -> 0 .. MaxReopen]
      <3>1. CASE GiveUp(c)
        BY <3>1 DEF GiveUp, Inv, TypeOK
      <3>2. CASE attempts[c] < MaxReopen /\ TryAgain(c)
        <4>1. attempts[c] + 1 \in 0 .. MaxReopen
          BY <3>2, PoolAssumption DEF Inv, TypeOK
        <4> QED
          BY <3>2, <4>1 DEF TryAgain, Inv, TypeOK
      <3> QED
        BY <3>1, <3>2
    <2>2. /\ timer' \in [Connections -> BOOLEAN]
          /\ promise' \in [Connections -> {"none", "pending", "resolved", "rejected"}]
      BY <1>3 DEF Inv, TypeOK
    <2> QED
      BY <1>2, <1>3, <2>1, <2>2 DEF Inv, TypeOK, Stages
  <1>5. Slots'
    BY <1>2, PoolAssumption DEF Inv, TypeOK, Slots, SlotLimit
  <1>6. Promises'
    BY <1>1, <1>3 DEF Inv, TypeOK, Promises, Live
  <1>7. Placed'
    BY <1>3 DEF Inv, Placed
  <1>8. WaitersWake'
    <2> SUFFICES ASSUME NEW r \in Requests, stage'[r] = "waiting"
                 PROVE  /\ on[r] \in ToSet(pend) /\ promise'[on[r]] = "pending"
                        /\ socket'[on[r]] = "connecting" \/ timer'[on[r]]
      BY DEF WaitersWake
    <2>1. stage[r] = "waiting"
      BY <1>3
    <2>2. /\ on[r] \in ToSet(pend) /\ promise[on[r]] = "pending"
          /\ socket[on[r]] = "connecting" \/ timer[on[r]]
          /\ on[r] \in Connections
      BY <2>1 DEF Inv, WaitersWake, Placed
    <2>3. CASE on[r] = c
      <3>1. r \in Awaiting(c)
        BY <2>1, <2>3 DEF Awaiting
      <3> QED
        BY <1>3, <2>2, <2>3, <3>1 DEF Inv, TypeOK
    <2>4. CASE on[r] # c
      BY <1>3, <2>2, <2>4 DEF Inv, TypeOK
    <2> QED
      BY <2>3, <2>4
  <1>9. SentOnLive'
    <2> SUFFICES ASSUME NEW r \in Requests, stage'[r] = "sent" PROVE Live(on[r])'
      BY DEF SentOnLive
    <2>1. stage[r] = "sent" /\ on'[r] = on[r]
      BY <1>3
    <2>2. on[r] \in Connections /\ on[r] # c /\ Live(on[r])
      BY <1>1, <2>1 DEF Inv, Placed, SentOnLive
    <2> QED
      BY <2>1, <2>2 DEF Live, Inv, TypeOK
  <1>10. PooledIsConnected'
    <2>1. ToSet(pool) \subseteq Connections
      BY DEF Inv, TypeOK, ToSet
    <2> QED
      BY <1>2, <2>1 DEF Inv, TypeOK, PooledIsConnected, Live
  <1>11. ConnectedIsPooled' /\ SlotsArePending'
    BY DEF ConnectedIsPooled, SlotsArePending
  <1> QED
    BY <1>4, <1>5, <1>6, <1>7, <1>8, <1>9, <1>10, <1>11 DEF Inv

LEMMA ConnectionFailedStep ==
    ASSUME Inv, NEW c \in Connections, ConnectionRefused(c) \/ ConnectError(c)
    PROVE  Inv'
  <1>1. attempts[c] \in Nat /\ MaxReopen \in Nat
    BY PoolAssumption DEF Inv, TypeOK
  <1>2. CASE ConnectionRefused(c)
    <2>1. GiveUp(c) \/ (attempts[c] < MaxReopen /\ TryAgain(c))
      BY <1>1, <1>2 DEF ConnectionRefused
    <2> QED
      BY <1>2, <2>1, AttemptFailedStep DEF ConnectionRefused
  <1>3. CASE ConnectError(c)
    BY <1>3, AttemptFailedStep DEF ConnectError
  <1> QED
    BY <1>2, <1>3

LEMMA ReopenStep ==
    ASSUME Inv, NEW c \in Connections, Reopen(c) PROVE Inv'
  <1>1. socket[c] = "closed" /\ promise[c] = "pending" /\ state[c] # "connected" /\ timer[c]
    BY DEF Reopen, Inv, TypeOK, Promises, Live
  <1>2. c \notin ToSet(pool)
    BY <1>1 DEF Inv, PooledIsConnected
  <1>3. TypeOK' /\ Slots' /\ Placed' /\ SlotsArePending'
    BY DEF Reopen, Inv, TypeOK, Slots, SlotLimit, Placed, SlotsArePending, clientVars,
           requestVars
  <1>4. Promises'
    BY <1>1 DEF Reopen, Inv, TypeOK, Promises, Live, clientVars
  <1>5. WaitersWake'
    BY <1>1 DEF Reopen, Inv, TypeOK, WaitersWake, Placed, clientVars, requestVars
  <1>6. SentOnLive'
    BY <1>1 DEF Reopen, Inv, TypeOK, SentOnLive, Placed, Live, requestVars
  <1>7. PooledIsConnected' /\ ConnectedIsPooled'
    <2>1. ToSet(pool) \subseteq Connections
      BY DEF Inv, TypeOK, ToSet
    <2> QED
      BY <1>1, <1>2, <2>1
      DEF Reopen, Inv, TypeOK, PooledIsConnected, ConnectedIsPooled, Live, clientVars
  <1> QED
    BY <1>3, <1>4, <1>5, <1>6, <1>7 DEF Inv

-----------------------------------------------------------------------------
(***************************************************************************)
(* What leaves every connection as alive as it was.                        *)
(***************************************************************************)

\* Requests leave, sockets are told to end, a pipeline is locked: nothing that
\* the invariant says is disturbed.
LEMMA QuietStep ==
    ASSUME Inv, UNCHANGED <<pool, pend, promise, state, attempts, timer, failed, on>>,
           closed' \in BOOLEAN, locked' \in [Connections -> BOOLEAN],
           socket' \in [Connections -> {"none", "connecting", "open", "ending", "closed"}],
           \A c \in Connections : socket'[c] = socket[c] \/ (Live(c) /\ Live(c)'),
           stage' \in [Requests -> Stages],
           \A r \in Requests : \/ stage'[r] = stage[r]
                               \/ stage'[r] \in {"answered", "failed", "refused"}
    PROVE  Inv'
  <1>1. \A c \in Connections :
           /\ Live(c)' <=> Live(c)
           /\ socket'[c] = "connecting" <=> socket[c] = "connecting"
           /\ socket'[c] = "none" <=> socket[c] = "none"
           /\ socket'[c] = "closed" <=> socket[c] = "closed"
    BY DEF Live
  <1>2. TypeOK' /\ Slots'
    BY DEF Inv, TypeOK, Slots, SlotLimit, Stages
  <1>3. Promises' /\ Placed'
    BY <1>1 DEF Inv, Promises, Placed
  <1>4. WaitersWake'
    BY <1>1 DEF Inv, WaitersWake, Placed
  <1>5. SentOnLive'
    BY <1>1 DEF Inv, SentOnLive, Placed
  <1>6. PooledIsConnected' /\ ConnectedIsPooled' /\ SlotsArePending'
    <2>1. ToSet(pool) \subseteq Connections
      BY DEF Inv, TypeOK, ToSet
    <2> QED
      BY <1>1, <2>1 DEF Inv, PooledIsConnected, ConnectedIsPooled, SlotsArePending
  <1> QED
    BY <1>2, <1>3, <1>4, <1>5, <1>6 DEF Inv

LEMMA ResponseStep ==
    ASSUME Inv, NEW c \in Connections,
           Lock(c) \/ ParserError(c) \/ \E r \in Requests : Answer(r, c)
    PROVE  Inv'
  <1>1. stage \in [Requests -> Stages] /\ InFlight(c) \in SUBSET Requests
    BY DEF Inv, TypeOK, Stages, InFlight
  <1>2. CASE Lock(c)
    BY <1>1, <1>2, QuietStep DEF Lock, Inv, TypeOK, clientVars, requestVars
  <1>3. CASE ParserError(c)
    <2>1. \A d \in Connections : socket'[d] = socket[d] \/ (Live(d) /\ Live(d)')
      BY <1>3 DEF ParserError, Live, Inv, TypeOK
    <2>2. /\ stage' \in [Requests -> Stages]
          /\ \A r \in Requests : stage'[r] = stage[r] \/ stage'[r] = "failed"
      BY <1>1, <1>3, FailType DEF ParserError
    <2> QED
      BY <1>3, <2>1, <2>2, QuietStep DEF ParserError, Inv, TypeOK, clientVars
  <1>4. ASSUME NEW r \in Requests, Answer(r, c) PROVE Inv'
    <2>1. /\ stage' \in [Requests -> Stages]
          /\ \A q \in Requests : stage'[q] = stage[q] \/ stage'[q] = "answered"
      BY <1>1, <1>4 DEF Answer, Stages
    <2> QED
      BY <1>4, <2>1, QuietStep DEF Answer, Inv, TypeOK, clientVars, connectionVars
  <1> QED
    BY <1>2, <1>3, <1>4

LEMMA RequestRefusedStep ==
    ASSUME Inv, NEW r \in Requests, RequestRefused(r) PROVE Inv'
  <1>1. /\ stage' \in [Requests -> Stages]
        /\ \A q \in Requests : stage'[q] = stage[q] \/ stage'[q] = "refused"
    BY DEF RequestRefused, Inv, TypeOK, Stages
  <1> QED
    BY <1>1, QuietStep DEF RequestRefused, Inv, TypeOK, clientVars, connectionVars

\* What is told to close was open, and is ending.
LEMMA EndSocketsType ==
    ASSUME Inv, NEW cs, socket' = EndSockets(cs)
    PROVE  /\ socket' \in [Connections ->
                             {"none", "connecting", "open", "ending", "closed"}]
           /\ \A c \in Connections : socket'[c] = socket[c] \/ (Live(c) /\ Live(c)')
  BY DEF EndSockets, Live, Inv, TypeOK

LEMMA EndStep ==
    ASSUME Inv, Close \/ \E c \in Connections : Watch(c) PROVE Inv'
  <1>1. /\ \E cs : socket' = EndSockets(cs)
        /\ closed' \in BOOLEAN
        /\ UNCHANGED <<pool, pend, promise, state, attempts, timer, locked, failed, stage, on>>
    BY DEF Close, Watch, Inv, TypeOK, clientVars, requestVars
  <1>2. /\ socket' \in [Connections ->
                          {"none", "connecting", "open", "ending", "closed"}]
        /\ \A c \in Connections : socket'[c] = socket[c] \/ (Live(c) /\ Live(c)')
    BY <1>1, EndSocketsType
  <1>3. stage' \in [Requests -> Stages] /\ locked' \in [Connections -> BOOLEAN]
    BY <1>1 DEF Inv, TypeOK, Stages
  <1> QED
    BY <1>1, <1>2, <1>3, QuietStep

-----------------------------------------------------------------------------
LEMMA PoolInit == Init => Inv
  <1> SUFFICES ASSUME Init PROVE Inv
    OBVIOUS
  <1>1. pool = <<>> /\ pend = <<>> /\ ToSet(<<>>) = {} /\ Distinct(<<>>)
    BY EmptyToSet, EmptyDistinct DEF Init
  <1>2. TypeOK
    <2>1. <<>> \in Seq(Connections) /\ 0 \in 0 .. MaxReopen
      BY PoolAssumption
    <2> QED
      BY <1>1, <2>1 DEF Init, TypeOK
  <1>3. Promises /\ Placed
    BY <1>1 DEF Init, Promises, Placed, Live
  <1>4. WaitersWake /\ SentOnLive /\ PooledIsConnected
    BY <1>1 DEF Init, WaitersWake, SentOnLive, PooledIsConnected
  <1>5. ConnectedIsPooled /\ SlotsArePending
    BY <1>1 DEF Init, ConnectedIsPooled, SlotsArePending
  <1>6. Slots
    <2>1. Len(pool) = 0 /\ Len(pend) = 0
      BY <1>1
    <2> QED
      BY <1>1, <2>1, PoolAssumption DEF Slots, SlotLimit
  <1> QED
    BY <1>2, <1>3, <1>4, <1>5, <1>6 DEF Inv

LEMMA PoolNext == ASSUME Inv, [Next]_vars PROVE Inv'
  <1>1. CASE UNCHANGED vars
    BY <1>1, QuietStep
    DEF vars, clientVars, connectionVars, requestVars, Inv, TypeOK, Stages
  <1>2. CASE Next
    BY <1>2, RequestStep, RequestRefusedStep, ConnectedStep, ConnectionFailedStep,
       ReopenStep, SocketClosedStep, ResponseStep, EndStep
    DEF Next
  <1> QED
    BY <1>1, <1>2

\* The inductive invariant holds in every reachable state.
THEOREM PoolInvariant == Spec => []Inv
  BY PoolInit, PoolNext, PTL DEF Spec

\* The variables keep their types: no connection is listed that there is not,
\* and none is opened more often than maxReopenAttempts.
THEOREM PoolTypes == Spec => []TypeOK
  <1>1. Inv => TypeOK
    BY DEF Inv
  <1> QED
    BY <1>1, PoolInvariant, PTL

\* The connections and promised connections of a host never exceed its limit,
\* whatever connects, fails and is spliced.
THEOREM SlotsAreLimited == Spec => []SlotLimit
  <1>1. Inv => SlotLimit
    BY DEF Inv, Slots
  <1> QED
    BY <1>1, PoolInvariant, PTL

\* A request that awaits a connection is never forgotten by it.
THEOREM WaitersAreWoken == Spec => []WaitersWake
  <1>1. Inv => WaitersWake
    BY DEF Inv
  <1> QED
    BY <1>1, PoolInvariant, PTL

\* A request in flight is on a socket that lives: no close leaves one behind.
THEOREM SentRequestsLive == Spec => []SentOnLive
  <1>1. Inv => SentOnLive
    BY DEF Inv
  <1> QED
    BY <1>1, PoolInvariant, PTL

\* What the pool offers is connected.
THEOREM PoolIsConnected == Spec => []PooledIsConnected
  <1>1. Inv => PooledIsConnected
    BY DEF Inv
  <1> QED
    BY <1>1, PoolInvariant, PTL

\* Until an attempt to connect fails, every connected connection is in the pool.
THEOREM PoolIsComplete == Spec => []ConnectedIsPooled
  <1>1. Inv => ConnectedIsPooled
    BY DEF Inv
  <1> QED
    BY <1>1, PoolInvariant, PTL

\* Until then every slot among the pending ones is for a connection that may
\* still come.
THEOREM PendingMayCome == Spec => []SlotsArePending
  <1>1. Inv => SlotsArePending
    BY DEF Inv
  <1> QED
    BY <1>1, PoolInvariant, PTL

\* And then the host has no more sockets than its limit.
THEOREM SocketsAreLimited == Spec => []HostLimitUntilFailure
  <1>1. Inv => HostLimitUntilFailure
    <2> SUFFICES ASSUME Inv, ~failed PROVE HostLimit
      BY DEF HostLimitUntilFailure
    <2> DEFINE open == {c \in Connections : socket[c] = "connecting" \/ Live(c)}
               lists == ToSet(pool) \cup ToSet(pend)
    <2>1. open \subseteq lists
      BY DEF Inv, Promises, ConnectedIsPooled
    <2>2. pool \in Seq(Connections) /\ pend \in Seq(Connections)
          /\ Len(pool) \in Nat /\ Len(pend) \in Nat
      BY DEF Inv, TypeOK
    <2>3. /\ IsFiniteSet(ToSet(pool)) /\ Cardinality(ToSet(pool)) <= Len(pool)
          /\ IsFiniteSet(ToSet(pend)) /\ Cardinality(ToSet(pend)) <= Len(pend)
      BY <2>2, ToSetCardinality
    <2>4. /\ IsFiniteSet(lists)
          /\ Cardinality(lists) = Cardinality(ToSet(pool)) + Cardinality(ToSet(pend))
                                     - Cardinality(ToSet(pool) \cap ToSet(pend))
      BY <2>3, FS_Union
    <2>5. IsFiniteSet(ToSet(pool) \cap ToSet(pend))
      BY <2>3, FS_Subset
    <2>6. /\ Cardinality(ToSet(pool)) \in Nat /\ Cardinality(ToSet(pend)) \in Nat
          /\ Cardinality(ToSet(pool) \cap ToSet(pend)) \in Nat
      BY <2>3, <2>5, FS_CardinalityType
    <2>7. IsFiniteSet(open) /\ Cardinality(open) <= Cardinality(lists)
      BY <2>1, <2>4, FS_Subset
    <2>8. Cardinality(open) \in Nat /\ Len(pool) + Len(pend) <= MaxConnections
      BY <2>7, FS_CardinalityType DEF Inv, Slots, SlotLimit
    <2>9. Cardinality(open) <= MaxConnections
      <3> HIDE DEF open, lists
      <3> QED
        BY <2>2, <2>3, <2>4, <2>6, <2>7, <2>8, PoolAssumption
    <2> QED
      BY <2>9 DEF HostLimit
  <1> QED
    BY <1>1, PoolInvariant, PTL
=============================================================================
