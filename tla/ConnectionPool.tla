--------------------------- MODULE ConnectionPool ---------------------------
(***************************************************************************)
(* The HTTP client's pool of connections to one target host:               *)
(* src/src/http/Client.js with the connections of src/src/http/            *)
(* Connection.js.  What a connection does with the requests it carries is  *)
(* the subject of Pipeline; here a connection carries a set of requests,   *)
(* up to MaxPipelined, and may be locked by a response without length.     *)
(*                                                                         *)
(* A settled promise runs its continuations before any other callback, so  *)
(* that settling it and sending or failing the requests that await it are  *)
(* one step.  So are the 'error' and the 'close' event of a socket.        *)
(***************************************************************************)
EXTENDS Integers, Sequences, FiniteSets, SequencesExt

CONSTANTS
    Requests,       \* the requests that may be made
    Connections,    \* the connections that may be created
    MaxConnections, \* maxConnectionsByHost
    MaxPipelined,   \* maxPipelinedRequestsByConnection
    MaxReopen,      \* maxReopenAttempts
    None            \* no connection

ASSUME PoolAssumption ==
    /\ MaxConnections \in Nat \ {0}
    /\ MaxPipelined \in Nat \ {0}
    /\ MaxReopen \in Nat
    /\ None \notin Connections

VARIABLES
    \* Client
    pool,       \* _connections of the host
    pend,       \* _pendingConnections of the host, by the connection promised
    closed,     \* _closed
    promise,    \* what has become of each promised connection
    \* Connection
    state,      \* _state
    socket,     \* its TCP connection
    attempts,   \* _reopenAttempts
    timer,      \* _openConnection waits for reopenDelay
    locked,     \* its pipeline's _lock
    failed,     \* history: some attempt to connect has failed
    \* requests
    stage,      \* progress of the request
    on          \* the connection it awaits or was sent on

clientVars     == <<pool, pend, closed, promise>>
connectionVars == <<state, socket, attempts, timer, locked, failed>>
requestVars    == <<stage, on>>
vars           == <<clientVars, connectionVars, requestVars>>

\* The types of the variables.
TypeOK ==
    /\ pool \in Seq(Connections)
    /\ pend \in Seq(Connections)
    /\ closed \in BOOLEAN
    /\ promise \in [Connections -> {"none", "pending", "resolved", "rejected"}]
    /\ state \in [Connections -> {"none", "connecting", "connected", "closed"}]
    /\ socket \in [Connections -> {"none", "connecting", "open", "ending", "closed"}]
    /\ attempts \in [Connections -> 0 .. MaxReopen]
    /\ timer \in [Connections -> BOOLEAN]
    /\ locked \in [Connections -> BOOLEAN]
    /\ failed \in BOOLEAN
    /\ stage \in [Requests ->
                    {"new", "waiting", "sent", "answered", "failed", "refused"}]
    /\ on \in [Requests -> Connections \cup {None}]

\* A client that has made no request.
Init ==
    /\ pool = <<>> /\ pend = <<>> /\ closed = FALSE
    /\ promise = [c \in Connections |-> "none"]
    /\ state = [c \in Connections |-> "none"]
    /\ socket = [c \in Connections |-> "none"]
    /\ attempts = [c \in Connections |-> 0]
    /\ timer = [c \in Connections |-> FALSE]
    /\ locked = [c \in Connections |-> FALSE]
    /\ failed = FALSE
    /\ stage = [r \in Requests |-> "new"]
    /\ on = [r \in Requests |-> None]

-----------------------------------------------------------------------------
Awaiting(c) == {r \in Requests : stage[r] = "waiting" /\ on[r] = c}
InFlight(c) == {r \in Requests : stage[r] = "sent" /\ on[r] = c}
Live(c)     == socket[c] \in {"open", "ending"}
Room(c)     == MaxPipelined - Cardinality(InFlight(c))

\* isAvailable
IsAvailable(c) == state[c] = "connected" /\ ~locked[c] /\ Room(c) > 0

\* Mutant: always the last element.
SpliceLast(s, c) == Front(s)

\* s.splice(s.indexOf(c), 1): without c in s the index is -1, which names the
\* last element.
Splice(s, c) == IF c \in ToSet(s) THEN RemoveFirst(s, c) ELSE Front(s)

\* The requests in rs are failed, their error callbacks called.
Fail(rs) == [r \in Requests |-> IF r \in rs THEN "failed" ELSE stage[r]]

\* Connection.send: the requests in rs are sent on c, those for which there is
\* no room fail with E_PIPELINE_OVERFLOW.  The lock is not looked at.
Send(rs, c) ==
    \E sent \in SUBSET rs :
       /\ \/ sent = rs /\ Cardinality(rs) <= Room(c)
          \/ Cardinality(sent) = Room(c)
       /\ stage' = [r \in Requests |-> CASE r \in sent      -> "sent"
                                         [] r \in rs \ sent -> "failed"
                                         [] OTHER           -> stage[r]]

-----------------------------------------------------------------------------
(***************************************************************************)
(* Client.request                                                          *)
(***************************************************************************)

\* _createConnection below the limit: a new connection, which the request
\* awaits.
Create(r, c) ==
    /\ socket[c] = "none"
    /\ pend' = Append(pend, c)
    /\ promise' = [promise EXCEPT ![c] = "pending"]
    /\ state' = [state EXCEPT ![c] = "connecting"]
    /\ socket' = [socket EXCEPT ![c] = "connecting"]
    /\ stage' = [stage EXCEPT ![r] = "waiting"]
    /\ on' = [on EXCEPT ![r] = c]
    /\ UNCHANGED <<pool, closed, attempts, timer, locked, failed>>

\* _createConnection at the limit: any promise or connection of the host,
\* available or not.
Select(r, c) ==
    /\ on' = [on EXCEPT ![r] = c]
    /\ \/ /\ c \in ToSet(pend) /\ promise[c] = "pending"
          /\ stage' = [stage EXCEPT ![r] = "waiting"]
       \/ /\ c \in ToSet(pend) /\ promise[c] = "rejected"
          /\ stage' = Fail({r})
       \/ /\ c \in ToSet(pool) /\ (socket[c] = "open" \/ Room(c) <= 0)
          /\ Send({r}, c)
    /\ UNCHANGED <<clientVars, state, socket, attempts, timer, locked, failed>>

\* The selected connection was told to close and is still 'connected': to write
\* to it is an error that destroys its socket.
WriteAfterEnd(r, c) ==
    /\ c \in ToSet(pool) /\ socket[c] = "ending" /\ Room(c) > 0
    /\ on' = [on EXCEPT ![r] = c]
    /\ stage' = Fail(InFlight(c) \cup {r})
    /\ socket' = [socket EXCEPT ![c] = "closed"]
    /\ state' = [state EXCEPT ![c] = "closed"]
    /\ locked' = [locked EXCEPT ![c] = FALSE]
    /\ pool' = Splice(pool, c)
    /\ UNCHANGED <<pend, closed, promise, attempts, timer, failed>>

\* Mutant: one connection more than the limit.
RequestOver(r, c) ==
    /\ stage[r] = "new" /\ ~closed
    /\ IF Len(pend) + Len(pool) > MaxConnections
       THEN Select(r, c) \/ WriteAfterEnd(r, c) ELSE Create(r, c)

\* Client.request with _getConnection, whose search for an available connection
\* is never reached: _createConnection has always returned one.
Request(r, c) ==
    /\ stage[r] = "new" /\ ~closed
    /\ IF Len(pend) + Len(pool) >= MaxConnections
       THEN Select(r, c) \/ WriteAfterEnd(r, c) ELSE Create(r, c)

\* A closed client throws.
RequestRefused(r) ==
    /\ stage[r] = "new" /\ closed
    /\ stage' = [stage EXCEPT ![r] = "refused"]
    /\ UNCHANGED <<clientVars, connectionVars, on>>

-----------------------------------------------------------------------------
(***************************************************************************)
(* The events of a connection's socket.                                    *)
(***************************************************************************)

\* Mutant: the promise stays among the pending ones.
ConnectedTwice(c) ==
    /\ socket[c] = "connecting"
    /\ socket' = [socket EXCEPT ![c] = "open"]
    /\ state' = [state EXCEPT ![c] = "connected"]
    /\ attempts' = [attempts EXCEPT ![c] = 0]
    /\ pend' = pend
    /\ pool' = Append(pool, c)
    /\ promise' = [promise EXCEPT ![c] = "resolved"]
    /\ Send(Awaiting(c), c)
    /\ UNCHANGED <<closed, timer, locked, failed, on>>

\* 'connect', and the 'connected' handler of the client.
Connected(c) ==
    /\ socket[c] = "connecting"
    /\ socket' = [socket EXCEPT ![c] = "open"]
    /\ state' = [state EXCEPT ![c] = "connected"]
    /\ attempts' = [attempts EXCEPT ![c] = 0]
    /\ pend' = Splice(pend, c)
    /\ pool' = Append(pool, c)
    /\ promise' = [promise EXCEPT ![c] = "resolved"]
    /\ Send(Awaiting(c), c)
    /\ UNCHANGED <<closed, timer, locked, failed, on>>

\* Mutant: the promise is left pending.
GiveUpSilently(c) ==
    /\ pool' = Splice(pool, c)
    /\ UNCHANGED <<promise, stage, attempts, timer>>

\* The 'error' handler of the client rejects the promise, its 'closed' handler
\* splices the pool.
GiveUp(c) ==
    /\ promise' = [promise EXCEPT ![c] = "rejected"]
    /\ stage' = Fail(Awaiting(c))
    /\ pool' = Splice(pool, c)
    /\ UNCHANGED <<attempts, timer>>

\* The connection was refused: it is opened again after a while, and has the
\* state 'closed' twice, before the 'close' event of the socket and with it.
TryAgain(c) ==
    /\ pool' = Splice(Splice(pool, c), c)
    /\ attempts' = [attempts EXCEPT ![c] = @ + 1]
    /\ timer' = [timer EXCEPT ![c] = TRUE]
    /\ UNCHANGED <<promise, stage>>

\* Mutant: one attempt too many.
ConnectionRefusedMore(c) ==
    /\ socket[c] = "connecting"
    /\ failed' = TRUE
    /\ IF attempts[c] > MaxReopen THEN GiveUp(c) ELSE TryAgain(c)
    /\ socket' = [socket EXCEPT ![c] = "closed"]
    /\ state' = [state EXCEPT ![c] = "closed"]
    /\ UNCHANGED <<pend, closed, locked, on>>

\* ECONNREFUSED, then 'close'.
ConnectionRefused(c) ==
    /\ socket[c] = "connecting"
    /\ failed' = TRUE
    /\ IF attempts[c] >= MaxReopen THEN GiveUp(c) ELSE TryAgain(c)
    /\ socket' = [socket EXCEPT ![c] = "closed"]
    /\ state' = [state EXCEPT ![c] = "closed"]
    /\ UNCHANGED <<pend, closed, locked, on>>

\* Any other error before the connection is there, then 'close'.
ConnectError(c) ==
    /\ socket[c] = "connecting"
    /\ failed' = TRUE
    /\ GiveUp(c)
    /\ socket' = [socket EXCEPT ![c] = "closed"]
    /\ state' = [state EXCEPT ![c] = "closed"]
    /\ UNCHANGED <<pend, closed, locked, on>>

\* The timeout of reopenDelay.
Reopen(c) ==
    /\ timer[c]
    /\ timer' = [timer EXCEPT ![c] = FALSE]
    /\ socket' = [socket EXCEPT ![c] = "connecting"]
    /\ state' = [state EXCEPT ![c] = "connecting"]
    /\ UNCHANGED <<clientVars, attempts, locked, failed, requestVars>>

\* Mutant: the requests in flight are forgotten.
SocketClosedSilently(c) ==
    /\ Live(c)
    /\ socket' = [socket EXCEPT ![c] = "closed"]
    /\ state' = [state EXCEPT ![c] = "closed"]
    /\ pool' = Splice(pool, c)
    /\ locked' = [locked EXCEPT ![c] = FALSE]
    /\ UNCHANGED <<pend, closed, promise, attempts, timer, failed, requestVars>>

\* Mutant: the pool is not told.
SocketClosedUnnoticed(c) ==
    /\ Live(c)
    /\ socket' = [socket EXCEPT ![c] = "closed"]
    /\ state' = [state EXCEPT ![c] = "closed"]
    /\ stage' = Fail(InFlight(c))
    /\ locked' = [locked EXCEPT ![c] = FALSE]
    /\ UNCHANGED <<pool, pend, closed, promise, attempts, timer, failed, on>>

\* 'close' of a socket that was connected, after an 'error' or not: the
\* pipeline is closed, which fails every request in it.
SocketClosed(c) ==
    /\ Live(c)
    /\ socket' = [socket EXCEPT ![c] = "closed"]
    /\ state' = [state EXCEPT ![c] = "closed"]
    /\ pool' = Splice(pool, c)
    /\ stage' = Fail(InFlight(c))
    /\ locked' = [locked EXCEPT ![c] = FALSE]
    /\ UNCHANGED <<pend, closed, promise, attempts, timer, failed, on>>

\* A whole response.
Answer(r, c) ==
    /\ Live(c) /\ r \in InFlight(c) /\ ~locked[c]
    /\ stage' = [stage EXCEPT ![r] = "answered"]
    /\ UNCHANGED <<clientVars, connectionVars, on>>

\* The headers of a response that lasts until the connection is closed.
Lock(c) ==
    /\ Live(c) /\ InFlight(c) # {} /\ ~locked[c]
    /\ locked' = [locked EXCEPT ![c] = TRUE]
    /\ UNCHANGED <<clientVars, state, socket, attempts, timer, failed, requestVars>>

\* A malformed response: the client's 'error' handler ends the socket, and
\* the pipeline's fails every request in it.
ParserError(c) ==
    /\ Live(c) /\ InFlight(c) # {} /\ ~locked[c]
    /\ socket' = [socket EXCEPT ![c] = "ending"]
    /\ stage' = Fail(InFlight(c))
    /\ UNCHANGED <<clientVars, state, attempts, timer, locked, failed, on>>

-----------------------------------------------------------------------------
(***************************************************************************)
(* The idle watcher, and closing.                                          *)
(***************************************************************************)

\* What Connection.close makes of the sockets of the connections cs.
EndSockets(cs) ==
    [c \in Connections |-> IF c \in cs /\ state[c] = "connected" /\ socket[c] = "open"
                           THEN "ending" ELSE socket[c]]

\* The interval of the constructor looks at the pool, until close clears it or
\* forgets the pool.  Time is abstracted: connectionTimeout may have passed since
\* the last data whenever it looks.
Watch(c) ==
    /\ ~closed
    /\ c \in ToSet(pool) /\ IsAvailable(c)
    /\ socket[c] = "open"
    /\ socket' = EndSockets({c})
    /\ UNCHANGED <<clientVars, state, attempts, timer, locked, failed, requestVars>>

\* close, with or without a host.
Close ==
    /\ ~closed
    /\ closed' = TRUE
    /\ socket' = EndSockets(ToSet(pool))
    /\ UNCHANGED <<pool, pend, promise, state, attempts, timer, locked, failed,
                   requestVars>>

-----------------------------------------------------------------------------
Next ==
    \/ \E r \in Requests, c \in Connections : Request(r, c) \/ Answer(r, c)
    \/ \E r \in Requests : RequestRefused(r)
    \/ \E c \in Connections :
          \/ Connected(c) \/ ConnectionRefused(c) \/ ConnectError(c) \/ Reopen(c)
          \/ SocketClosed(c) \/ Lock(c) \/ ParserError(c)
          \/ Watch(c)
    \/ Close

Spec == Init /\ [][Next]_vars

\* An attempt to connect succeeds or fails in the end; timers fire.
NetworkFairness ==
    \A c \in Connections :
       /\ WF_vars(Connected(c) \/ ConnectionRefused(c) \/ ConnectError(c))
       /\ WF_vars(Reopen(c))

\* The server answers what it was sent or closes the connection.
ServerFairness ==
    \A c \in Connections :
       WF_vars(InFlight(c) # {} /\
                  (SocketClosed(c) \/ \E r \in Requests : Answer(r, c)))

FairSpec == Spec /\ NetworkFairness /\ ServerFairness

-----------------------------------------------------------------------------
(***************************************************************************)
(* Properties.                                                             *)
(***************************************************************************)
\* The slots of a host, of connections and of promised ones, never exceed the
\* limit, whatever connects, fails and is spliced.
SlotLimit == Len(pool) + Len(pend) <= MaxConnections

\* Whoever awaits a connection will be woken: its promise is neither forgotten
\* nor settled, and an attempt or a timer is under way.
WaitersWake ==
    \A r \in Requests :
       stage[r] = "waiting" =>
          LET c == on[r]
          IN  /\ c \in ToSet(pend) /\ promise[c] = "pending"
              /\ socket[c] = "connecting" \/ timer[c]

\* A request in flight is on a socket that still lives: no close leaves one
\* behind.
SentOnLive == \A r \in Requests : stage[r] = "sent" => Live(on[r])

\* What the pool offers is connected, so that a selected connection never
\* refuses to send.
PooledIsConnected == \A c \in ToSet(pool) : state[c] = "connected" /\ Live(c)

\* As long as no attempt to connect has failed, every connected connection is
\* in the pool, where it is selected, watched and closed ("once the connection
\* is ready, it is moved to the _connections map").
ConnectedIsPooled ==
    ~failed => \A c \in Connections : state[c] = "connected" => c \in ToSet(pool)

\* The host has no more sockets than the maximum ("max number of connections
\* by host").
HostLimit ==
    Cardinality({c \in Connections : socket[c] = "connecting" \/ Live(c)})
       <= MaxConnections

\* The host's limit is kept as long as no attempt to connect has failed,
\* whatever is closed, locked, ended and created again.
HostLimitUntilFailure == ~failed => HostLimit

\* As long as no attempt to connect has failed, only connections that may still
\* come take a slot among the pending ones: new ones are created until the
\* maximum is reached.
SlotsArePending == ~failed => \A c \in ToSet(pend) : promise[c] = "pending"

\* Every request that a connection was awaited for or that was sent is
\* answered or fails.
Settled ==
    \A r \in Requests :
       stage[r] \in {"waiting", "sent"} ~> stage[r] \in {"answered", "failed"}
=============================================================================
