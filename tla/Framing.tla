------------------------------ MODULE Framing -------------------------------
(***************************************************************************)
(* What a response parser promises to the pipeline that listens to it: the *)
(* events of src/src/http/IResponseParser.js come response by response,    *)
(* headers first, then chunks that add up to the announced size or end     *)
(* with an empty one.  Pipeline assumes this of its parser.                *)
(***************************************************************************)
EXTENDS Integers

VARIABLES
    begun,  \* the number of responses announced
    rx,     \* how the rest of the current one is delimited
    got     \* the units of body given for it

vars == <<begun, rx, got>>

\* No response is being transferred.
Idle == [mode |-> "IDLE", size |-> 0]

Init == begun = 0 /\ rx = Idle /\ got = 0

\* The headers of the next response; one without body is complete with them.
Begin ==
    /\ rx = Idle
    /\ begun' = begun + 1 /\ got' = 0
    /\ \/ rx' \in [mode : {"FIXED"}, size : Nat \ {0}]
       \/ rx' \in [mode : {"CHUNKED", "UNTIL_CLOSE"}, size : {0}]
       \/ rx' = Idle

\* Units of body, the last ones or not.
Chunk(last) ==
    /\ begun' = begun /\ got' \in Nat
    /\ rx' = IF last THEN Idle ELSE rx
    /\ \/ /\ rx.mode = "FIXED" /\ got' > got /\ got' <= rx.size
          /\ last <=> got' = rx.size
       \/ /\ rx.mode = "CHUNKED" /\ got' >= got
          /\ last <=> got' = got
       \/ rx.mode = "UNTIL_CLOSE" /\ got' > got /\ ~last

\* An error, in place of the headers or among the chunks.
Error ==
    /\ \/ rx = Idle /\ begun' = begun + 1 /\ got' = 0
       \/ rx.mode = "CHUNKED" /\ begun' = begun /\ got' = got
    /\ rx' = Idle

Next == Begin \/ Error \/ \E last \in BOOLEAN : Chunk(last)

Spec == Init /\ [][Next]_vars
=============================================================================
