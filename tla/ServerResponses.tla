--------------------------- MODULE ServerResponses ---------------------------
(***************************************************************************)
(* What the target server puts on the wire for its responses (RFC 7230),   *)
(* as the parser may rely on it.  The server is not part of the repository *)
(* but the properties of Parser are about responses, not bytes.            *)
(***************************************************************************)
EXTENDS Parser

CONSTANT
    Extension   \* what the server adds to the size of a chunk

ASSUME WireAssumption ==
    /\ {"H", "TTP", "Reason", "phrase"} \subseteq Ordinary
    /\ Extension \in Seq(Symbols \ {"lf"})
    /\ Extension # <<>> => Extension[1] = "semi"

-----------------------------------------------------------------------------
(***************************************************************************)
(* The message of a response.                                              *)
(***************************************************************************)
Line(s) == s \o <<"cr", "lf">>

StatusLine(r) == Line(<<"H", "TTP", "sp", r.code, "sp", "Reason", "sp", "phrase">>)
FieldLine(f)  == Line(<<f[1], "colon", "sp">> \o f[2])
FieldLines(r) == [k \in 1 .. Len(r.fields) |-> FieldLine(r.fields[k])]
HeadOf(r)     == StatusLine(r) \o (FlattenSeq(FieldLines(r)) \o Line(<<>>))

\* A chunk, its size before it; a malformed response ends with a chunk without size.
Numeral(n)   == CHOOSE d \in Digits : Numerals[d] = n
SizeLine(c)  == Line(<<Numeral(Len(c))>> \o Extension)
Chunk(c)     == SizeLine(c) \o Line(c)
Chunks(r)    == [k \in 1 .. Len(r.content) |-> Chunk(r.content[k])]
LastChunk(r) == IF r.wellFormed THEN SizeLine(<<>>) ELSE Line(<<>>)

BodyOf(r) == IF r.coding # "chunked" THEN FlattenSeq(r.content)
             ELSE FlattenSeq(Chunks(r)) \o (LastChunk(r) \o Line(<<>>))

Wire(r)   == HeadOf(r) \o BodyOf(r)
Wires(rs) == [k \in 1 .. Len(rs) |-> Wire(rs[k])]
Sent(rs)  == [responses |-> rs, bytes |-> FlattenSeq(Wires(rs))]

-----------------------------------------------------------------------------
(***************************************************************************)
(* The responses whose body ends where the head says.                      *)
(***************************************************************************)
\* How the fields, or without them the code, delimit the body.
CodingOf(r) ==
    LET all == FieldsOf(r)
    IN  IF TransferEncoding \in Names(all)
        THEN IF "chunked" \in ToSet(Lower(Value(all, TransferEncoding)))
             THEN "chunked" ELSE "close"
        ELSE IF ContentLength \in Names(all) THEN "length"
        ELSE IF r.code \in {"100", "204", "304", "302", "307"} THEN "none" ELSE "close"

\* No line ends within a field, and no field is given twice.
CleanFields(r) ==
    /\ r.fields # <<>>
    /\ \A k \in DOMAIN r.fields :
          /\ r.fields[k][1] \notin {"colon", "cr", "lf"}
          /\ ToSet(r.fields[k][2]) \cap {"cr", "lf"} = {}
          /\ \A j \in DOMAIN r.fields :
                LowerOf(r.fields[j][1]) = LowerOf(r.fields[k][1]) => j = k

\* Malformed is a length that is not a number, or a chunk without size.
Delimited(r) ==
    /\ r.coding = "none" => r.wellFormed /\ FlattenSeq(r.content) = <<>>
    /\ r.coding = "close" => r.wellFormed
    /\ r.coding = "length" =>
          LET value == Value(FieldsOf(r), ContentLength)
          IN  /\ r.wellFormed <=> IsNumber(value)
              /\ r.wellFormed => ParseInt(value) = Len(FlattenSeq(r.content))
    /\ r.coding = "chunked" =>
          /\ \E d \in Digits : Numerals[d] = 0
          /\ \A k \in DOMAIN r.content :
                /\ r.content[k] # <<>>
                /\ \E d \in Digits : Numerals[d] = Len(r.content[k])

Framed(r) == r.coding = CodingOf(r) /\ CleanFields(r) /\ Delimited(r)

\* Servers send nothing else.
WellEncoded == Streams \subseteq {Sent(rs) : rs \in Seq({r \in Response : Framed(r)})}
=============================================================================
