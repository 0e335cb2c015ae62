------------------------------ MODULE Exchange ------------------------------
(***************************************************************************)
(* What one pipelined connection promises to the clients whose requests    *)
(* it carries: they stand in line, only the first in line is served, it    *)
(* gets its own response from the start and without a gap, one that has    *)
(* left keeps its place until its turn is over, and an error ends the      *)
(* exchange of everyone in line.                                           *)
(***************************************************************************)
EXTENDS Integers, Sequences, SequencesExt

CONSTANTS
    Requests,   \* who may ask
    MaxBody     \* bound: units of body given in one step

VARIABLES
    line,   \* who waits for a response, the first to be served first
    fate,   \* what has become of each request
    head,   \* the headers each client got
    got     \* the units of body each client got

vars == <<line, fate, head, got>>

Init ==
    /\ line = <<>>
    /\ fate = [r \in Requests |-> "absent"]
    /\ head = [r \in Requests |-> <<>>]
    /\ got = [r \in Requests |-> <<>>]

InLine == ToSet(line)

\* What r may have got after one more step: its headers once, then its body.
MoreHead(r) == IF head[r] = <<>> THEN {<<>>, <<r>>} ELSE {head[r]}
MoreBody(r, n) == got[r] \o [i \in 1 .. n |-> <<r, Len(got[r]) + i>>]

Arrive(r) ==
    /\ fate[r] = "absent"
    /\ fate' = [fate EXCEPT ![r] = "waiting"]
    /\ UNCHANGED <<line, head, got>>

Join(r) ==
    /\ fate[r] \in {"waiting", "left"} /\ r \notin InLine
    /\ head[r] = <<>>
    /\ line' = Append(line, r)
    /\ UNCHANGED <<fate, head, got>>

Reject(r) ==
    /\ fate[r] = "waiting" /\ r \notin InLine
    /\ fate' = [fate EXCEPT ![r] = "failed"]
    /\ UNCHANGED <<line, head, got>>

Leave(r) ==
    /\ fate[r] = "waiting"
    /\ fate' = [fate EXCEPT ![r] = "left"]
    /\ UNCHANGED <<line, head, got>>

\* The first in line gets more of its response, and perhaps all of it.
Serve(r, n) ==
    /\ line # <<>> /\ r = Head(line) /\ fate[r] = "waiting"
    /\ \E h \in MoreHead(r) : head' = [head EXCEPT ![r] = h]
    /\ n > 0 => head[r] # <<>>
    /\ got' = [got EXCEPT ![r] = MoreBody(r, n)]
    /\ \/ UNCHANGED <<line, fate>>
       \/ /\ head'[r] # <<>>
          /\ fate' = [fate EXCEPT ![r] = "answered"]
          /\ line' = Tail(line)

\* The turn of one that has left is over.
Skip ==
    /\ line # <<>> /\ fate[Head(line)] = "left"
    /\ line' = Tail(line)
    /\ UNCHANGED <<fate, head, got>>

\* The connection is lost.
Fail ==
    /\ line # <<>>
    /\ line' = <<>>
    /\ fate' = [r \in Requests |->
                   IF r \in InLine /\ fate[r] = "waiting" THEN "failed" ELSE fate[r]]
    /\ UNCHANGED <<head, got>>

Next ==
    \/ \E r \in Requests : Arrive(r) \/ Join(r) \/ Reject(r) \/ Leave(r)
    \/ \E r \in Requests, n \in 0 .. MaxBody : Serve(r, n)
    \/ Skip \/ Fail

Spec == Init /\ [][Next]_vars
=============================================================================
