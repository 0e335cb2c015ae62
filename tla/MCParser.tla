------------------------------ MODULE MCParser ------------------------------
(***************************************************************************)
(* Instances of Parser for TLC: the responses a server may send.           *)
(***************************************************************************)
EXTENDS ServerResponses

NumeralValues   == [d \in {"0", "1", "2", "3"} |->
                       CASE d = "0" -> 0 [] d = "1" -> 1 [] d = "2" -> 2 [] d = "3" -> 3]
AnExtension     == <<"semi", "2">>
OrdinarySymbols == {"H", "TTP", "Reason", "phrase", "Date", "12", "many", "a"}

\* A value with a colon in it, and the fields that delimit a body.
Date      == <<"Date", <<"12", "colon", "sp", "12">>>>
LengthIs(n) == <<"Content-Length", <<n>>>>
Encoded   == <<"Transfer-Encoding", <<"Chunked">>>>

Make(code, fields, coding, content) ==
    [code |-> code, fields |-> fields, coding |-> coding, content |-> content,
     wellFormed |-> TRUE]
Malformed(r) == [r EXCEPT !.wellFormed = FALSE]

\* The units of the bodies are line ends and spaces.
Fixed     == Make("200", <<LengthIs("3"), Date>>, "length", <<<<"H", "cr", "lf">>>>)
Redirect  == Make("302", <<Date, LengthIs("1")>>, "length", <<<<"sp">>>>)
Empty     == Make("200", <<LengthIs("0")>>, "length", <<>>)
Chunked   == Make("200", <<Encoded>>, "chunked", <<<<"lf", "0">>, <<"cr">>>>)
Both      == Make("200", <<LengthIs("1"), Encoded>>, "chunked", <<<<"a">>>>)
NoContent == Make("204", <<Date>>, "none", <<>>)
Moved     == Make("307", <<Date>>, "none", <<>>)
Endless   == Make("200", <<Date>>, "close", <<<<"a", "lf">>>>)
BadLength == Malformed(Make("200", <<LengthIs("many")>>, "length", <<>>))
BadChunk  == Malformed(Make("200", <<Encoded>>, "chunked", <<<<"a">>>>))

\* A response to a conditional request, with the length of what it stands for.
NotModified == Make("304", <<LengthIs("3")>>, "none", <<>>)

Ended  == {Fixed, Redirect, Empty, Chunked, Both, NoContent, Moved}
Ending == Ended \cup {Endless, BadLength, BadChunk}

ASSUME EndingAssumption == \A r \in Ending : r \in Response /\ Framed(r)

-----------------------------------------------------------------------------
\* Every pair, and triples of the three ways to end a response.
SteadyStreams   == {Sent(<<a, b>>) : a \in Ended, b \in Ending} \cup
                   {Sent(<<a, b, c>>) : a, b, c \in {Fixed, Chunked, NoContent}}
BodilessStreams == {Sent(<<NotModified, Fixed>>)}
=============================================================================
