------------------------------- MODULE Parser -------------------------------
(***************************************************************************)
(* The response parser, src/src/http/1.1/Parser.js.  One iteration of the  *)
(* loop of feed is one action.                                             *)
(*                                                                         *)
(* The stream is a sequence of symbols: each of the characters that the    *)
(* parser looks at is one, and so is each run of other characters that are *)
(* read alike (a status code, a name, a number), except that the version   *)
(* is two, so that its first byte can be lost.  A unit of body is any      *)
(* symbol, the special ones included.                                      *)
(***************************************************************************)
EXTENDS Integers, Sequences, SequencesExt

CONSTANTS
    Streams,    \* what servers may send: responses, and the bytes they are sent as
    Buffers,    \* the sizes of the buffers in which they may arrive
    Numerals,   \* the symbols that are numbers, each with its value
    Ordinary    \* the symbols the parser does not look at

\* The symbols.
Marks   == {"sp", "cr", "lf", "colon", "semi"}
Codes   == {"100", "200", "204", "302", "304", "307"}
Digits  == DOMAIN Numerals
Words   == {"Content-Length", "content-length", "Transfer-Encoding",
            "transfer-encoding", "Chunked", "chunked"}
Symbols == Marks \cup Codes \cup Digits \cup Words \cup Ordinary
Text    == Seq(Symbols)

\* A field is a name and the symbols of its value; the content is the sequence of
\* the chunks of the body, which coding says how to delimit.
Response == [code : Codes, fields : Seq(Symbols \X Text),
             coding : {"length", "chunked", "close", "none"},
             content : Seq(Text), wellFormed : BOOLEAN]

ASSUME ParserAssumption ==
    /\ Streams \subseteq [responses : Seq(Response), bytes : Text]
    /\ Buffers \subseteq Nat \ {0}
    /\ Numerals \in [Digits -> Nat] /\ Digits \cap Marks = {}

VARIABLES
    sent,   \* the responses the server sends
    stream, \* what of them has not arrived yet
    data,   \* the buffer given to feed
    i,      \* feed's index into data
    p,      \* the parser's fields
    out     \* history: the responses that the events describe

vars == <<sent, stream, data, i, p, out>>

-----------------------------------------------------------------------------
(***************************************************************************)
(* Characters, numbers and headers.                                        *)
(***************************************************************************)
Undefined == -1

\* Number of a status code.
Number(s) == IF Len(s) = 1 /\ s[1] \in Codes THEN s[1] ELSE "NaN"

\* Number.parseInt looks at the first symbol only.
IsNumber(s) == s # <<>> /\ s[1] \in Digits
ParseInt(s) == Numerals[s[1]]

\* toLowerCase.
LowerOf(c) == CASE c = "Content-Length"    -> "content-length"
                [] c = "Transfer-Encoding" -> "transfer-encoding"
                [] c = "Chunked"           -> "chunked"
                [] OTHER                   -> c
Lower(s)   == [k \in 1 .. Len(s) |-> LowerOf(s[k])]

ContentLength    == <<"content-length">>
TransferEncoding == <<"transfer-encoding">>

\* Headers are sets of names, each with its value.
Names(h)      == {f[1] : f \in h}
Value(h, n)   == (CHOOSE f \in h : f[1] = n)[2]
Without(h, n) == {f \in h : f[1] # n}
With(h, n, v) == Without(h, n) \cup {<<n, v>>}

-----------------------------------------------------------------------------
(***************************************************************************)
(* The parser.                                                             *)
(***************************************************************************)

\* The fields after _reset.  at stands for _completed: what is to be read next;
\* chunk likewise for _completed.chunk.
Fresh ==
    [at |-> "version", chunk |-> "header", extension |-> FALSE,
     statusCode |-> "NaN", symbol |-> <<>>, name |-> <<>>, headers |-> {},
     endOfLine |-> 0, prev |-> "undefined", length |-> Undefined, chunked |-> FALSE,
     read |-> 0, chunkRead |-> 0, chunkSize |-> Undefined]

Init ==
    /\ \E s \in Streams : sent = s.responses /\ stream = s.bytes
    /\ data = <<>> /\ i = 1 /\ p = Fresh /\ out = <<>>

Min2(a, b) == IF a <= b THEN a ELSE b

\* 'data' of the socket: a buffer is fed when the one before is done with.
Feed(n) ==
    /\ i > Len(data) /\ stream # <<>>
    /\ data' = SubSeq(stream, 1, Min2(n, Len(stream)))
    /\ stream' = SubSeq(stream, Min2(n, Len(stream)) + 1, Len(stream))
    /\ i' = 1
    /\ UNCHANGED <<sent, p, out>>

Byte     == data[i]
Left     == Len(data) - i + 1
More(at) == i <= Len(data) /\ p.at = at

\* The loop goes on n bytes later, the parser's fields being q.
Go(n, q) == i' = i + n /\ p' = q /\ UNCHANGED <<sent, stream, data>>

\* ... one byte later, after fields of q were assigned.
Read(q)  == Go(1, [q EXCEPT !.prev = Byte]) /\ out' = out
Append1  == [p EXCEPT !.symbol = Append(@, Byte)]

ReadVersion ==
    /\ More("version")
    /\ \/ Byte = "sp" /\ Read([p EXCEPT !.at = "statusCode", !.symbol = <<>>])
       \/ Byte # "sp" /\ Read(Append1)

\* Codes without body.
Bodiless(code) ==
    \/ code \in {"100", "204", "304"}
    \/ code \in {"302", "307"} /\ p.length = Undefined

ReadStatusCode ==
    /\ More("statusCode")
    /\ \/ Byte = "sp" /\ Read([p EXCEPT
                !.at = "statusMessage", !.symbol = <<>>, !.statusCode = Number(p.symbol),
                !.length = IF Bodiless(Number(p.symbol)) THEN 0 ELSE @])
       \/ Byte # "sp" /\ Read(Append1)

ReadStatusMessage ==
    /\ More("statusMessage")
    /\ \/ /\ Byte = "lf" /\ p.prev = "cr"
          /\ Read([p EXCEPT !.at = "headers", !.symbol = <<>>])
       \/ Byte = "cr" /\ Read(p)
       \/ Byte # "cr" /\ ~(Byte = "lf" /\ p.prev = "cr") /\ Read(Append1)

-----------------------------------------------------------------------------
ReadColon ==
    /\ More("headers") /\ Byte = "colon"
    /\ IF p.name # <<>>
       THEN Read([Append1 EXCEPT !.endOfLine = 0])
       ELSE Read([p EXCEPT !.endOfLine = 0, !.name = Lower(p.symbol), !.symbol = <<>>,
                           !.headers = With(@, Lower(p.symbol), <<>>)])

ReadField ==
    /\ More("headers") /\ Byte \notin {"colon", "cr", "lf"}
    /\ IF p.symbol = <<>> /\ Byte = "sp" /\ p.prev = "colon"
       THEN Read([p EXCEPT !.endOfLine = 0])
       ELSE Read([Append1 EXCEPT !.endOfLine = 0])

ReadReturn == More("headers") /\ Byte = "cr" /\ Read(p)

EndOfLine ==
    /\ More("headers") /\ Byte = "lf" /\ p.endOfLine = 0
    /\ Read([p EXCEPT !.endOfLine = 1, !.headers = With(@, p.name, p.symbol),
                      !.name = <<>>, !.symbol = <<>>])

HasEncoding   == TransferEncoding \in Names(p.headers)
Encoding      == Lower(Value(p.headers, TransferEncoding))
IsChunked     == HasEncoding /\ "chunked" \in ToSet(Encoding)
HasLength     == ContentLength \in Names(p.headers) /\ ~HasEncoding
InvalidLength == HasLength /\ ~IsNumber(Value(p.headers, ContentLength))

\* _bodyLength once the headers are known.
BodyLength ==
    IF HasEncoding THEN Undefined
    ELSE IF HasLength THEN ParseInt(Value(p.headers, ContentLength)) ELSE p.length

\* The body_read_mode event.
Mode(q) == IF q.chunked THEN "CHUNKED"
           ELSE IF q.length = Undefined THEN "UNTIL_CLOSE" ELSE "FIXED"

\* The headers event.
Announced(q) ==
    [statusCode |-> q.statusCode, headers |-> q.headers, mode |-> Mode(q),
     size |-> q.length, body |-> <<>>, ended |-> FALSE, error |-> FALSE]

EndOfHeaders ==
    /\ More("headers") /\ Byte = "lf" /\ p.endOfLine # 0 /\ ~InvalidLength
    /\ LET q == [p EXCEPT !.at = "body", !.endOfLine = 0, !.name = <<>>, !.prev = Byte,
                   !.headers = IF HasEncoding
                               THEN With(Without(@, ContentLength), TransferEncoding, Encoding)
                               ELSE @,
                   !.chunked = IsChunked, !.length = BodyLength]
       IN  Go(1, q) /\ out' = Append(out, Announced(q))

\* E_INVALID_CONTENT_LENGTH: the parser is reset and goes on.  The 'headers'
\* event that follows, without headers, finds the pipeline closed by the
\* error and empty.
ReportLength ==
    /\ More("headers") /\ Byte = "lf" /\ p.endOfLine # 0 /\ InvalidLength
    /\ Go(1, Fresh)
    /\ out' = Append(out, [Announced(Fresh) EXCEPT !.ended = TRUE, !.error = TRUE])

-----------------------------------------------------------------------------
\* The body_chunk event.
Emit(units, last) ==
    out' = [out EXCEPT ![Len(out)].body = @ \o units, ![Len(out)].ended = last]

\* An empty body ends with the byte after it.
ReadNoBody ==
    /\ More("body") /\ p.length = 0
    /\ Emit(<<>>, TRUE) /\ Go(1, Fresh)

ChunkPart(part) == More("body") /\ p.length # 0 /\ p.chunked /\ p.chunk = part

ReadChunkSize ==
    /\ ChunkPart("header") /\ Byte # "lf"
    /\ \/ Byte = "cr" /\ Read(p)
       \/ Byte = "semi" /\ Read([p EXCEPT !.extension = TRUE])
       \/ Byte \notin {"cr", "semi"} /\ Read(IF p.extension THEN p ELSE Append1)

\* E_INVALID_CHUNK_SIZE: the rest of the buffer is dropped.
ReportChunkSize ==
    /\ ChunkPart("header") /\ Byte = "lf" /\ ~IsNumber(p.symbol)
    /\ out' = [out EXCEPT ![Len(out)].ended = TRUE, ![Len(out)].error = TRUE]
    /\ Go(Left, Fresh)

BeginChunk ==
    /\ ChunkPart("header") /\ Byte = "lf" /\ IsNumber(p.symbol) /\ ParseInt(p.symbol) # 0
    /\ Read([p EXCEPT !.chunk = "data", !.chunkSize = ParseInt(p.symbol), !.symbol = <<>>])

EndChunked ==
    /\ ChunkPart("header") /\ Byte = "lf" /\ IsNumber(p.symbol) /\ ParseInt(p.symbol) = 0
    /\ Emit(<<>>, TRUE) /\ Go(1, Fresh)

\* The data of a chunk, as far as they are in the buffer; the index is moved
\* past them, then by the loop.
ReadChunkData ==
    /\ ChunkPart("data")
    /\ LET n == Min2(Left, p.chunkSize - p.chunkRead)
       IN  /\ Emit(SubSeq(data, i, i + n - 1), FALSE)
           /\ Go(n + 1, [p EXCEPT !.read = @ + n, !.chunkRead = @ + n, !.prev = Byte,
                           !.chunk = IF p.chunkRead + n = p.chunkSize THEN "end" ELSE @])

\* Mutant: the extension of the chunk before is still being skipped.
EndChunkExtended ==
    /\ ChunkPart("end")
    /\ \/ Byte = "lf" /\ Read([p EXCEPT !.chunk = "header",
                                 !.chunkRead = 0, !.chunkSize = Undefined, !.symbol = <<>>])
       \/ Byte # "lf" /\ Read(p)

\* Mutant: what was read of the chunk before is not forgotten.
EndChunkKept ==
    /\ ChunkPart("end")
    /\ \/ Byte = "lf" /\ Read([p EXCEPT !.chunk = "header", !.extension = FALSE,
                                 !.chunkSize = Undefined, !.symbol = <<>>])
       \/ Byte # "lf" /\ Read(p)

\* The line feed after a chunk; _resetChunk.
EndChunk ==
    /\ ChunkPart("end")
    /\ \/ Byte = "lf" /\ Read([p EXCEPT !.chunk = "header", !.extension = FALSE,
                                 !.chunkRead = 0, !.chunkSize = Undefined, !.symbol = <<>>])
       \/ Byte # "lf" /\ Read(p)

\* Mutant: no reset after the last byte.
ReadFixedKept ==
    /\ More("body") /\ p.length \notin {0, Undefined} /\ ~p.chunked
    /\ LET n == Min2(Left, p.length - p.read)
       IN  /\ Emit(SubSeq(data, i, i + n - 1), p.read + n = p.length)
           /\ Go(n + 1, [p EXCEPT !.read = @ + n, !.prev = Byte])

\* Mutant: all that is in the buffer belongs to the body.
ReadFixedOver ==
    /\ More("body") /\ p.length \notin {0, Undefined} /\ ~p.chunked
    /\ LET last == p.read + Left >= p.length
       IN  /\ Emit(SubSeq(data, i, Len(data)), last)
           /\ Go(Left + 1, IF last THEN Fresh ELSE [p EXCEPT !.read = @ + Left, !.prev = Byte])

ReadFixed ==
    /\ More("body") /\ p.length \notin {0, Undefined} /\ ~p.chunked
    /\ LET n    == Min2(Left, p.length - p.read)
           last == p.read + n = p.length
       IN  /\ Emit(SubSeq(data, i, i + n - 1), last)
           /\ Go(n + 1, IF last THEN Fresh ELSE [p EXCEPT !.read = @ + n, !.prev = Byte])

\* The whole buffer is emitted for each of its bytes that is left.
ReadUntilClose ==
    /\ More("body") /\ p.length = Undefined /\ ~p.chunked
    /\ Emit(data, FALSE) /\ Go(1, [p EXCEPT !.prev = Byte])

-----------------------------------------------------------------------------
ReadHead ==
    \/ ReadVersion \/ ReadStatusCode \/ ReadStatusMessage
    \/ ReadColon \/ ReadField \/ ReadReturn \/ EndOfLine
    \/ EndOfHeaders \/ ReportLength

ReadBody ==
    \/ ReadNoBody \/ ReadFixed \/ ReadUntilClose
    \/ ReadChunkSize \/ ReportChunkSize \/ BeginChunk \/ EndChunked
    \/ ReadChunkData \/ EndChunk

Next == ReadHead \/ ReadBody \/ \E n \in Buffers : Feed(n)

Spec == Init /\ [][Next]_vars

-----------------------------------------------------------------------------
(***************************************************************************)
(* Properties.                                                             *)
(***************************************************************************)
\* The types of the variables; the counters stay below what they count up to.
Headers == SUBSET (Text \X Text)
Sizes   == Nat \cup {Undefined}
Fields  == [at : {"version", "statusCode", "statusMessage", "headers", "body"},
            chunk : {"header", "data", "end"}, extension : BOOLEAN,
            statusCode : Codes \cup {"NaN"}, symbol : Text, name : Text,
            headers : Headers, endOfLine : {0, 1}, prev : Symbols \cup {"undefined"},
            length : Sizes, chunked : BOOLEAN, read : Nat, chunkRead : Nat,
            chunkSize : Sizes]
Told    == [statusCode : Codes \cup {"NaN"}, headers : Headers,
            mode : {"FIXED", "CHUNKED", "UNTIL_CLOSE"}, size : Sizes,
            body : Text, ended : BOOLEAN, error : BOOLEAN]
TypeOK ==
    /\ sent \in Seq(Response) /\ stream \in Text /\ data \in Text
    /\ i \in 1 .. Len(data) + 2
    /\ p \in Fields
    /\ out \in Seq(Told)
    /\ p.at = "body" /\ p.length > 0 => p.read < p.length
    /\ p.at = "body" /\ p.chunk = "data" => p.chunkRead < p.chunkSize

\* What the events should say of the response r.
ModeOf(r) == CASE r.coding = "chunked" -> "CHUNKED" [] r.coding = "close" -> "UNTIL_CLOSE"
               [] OTHER -> "FIXED"
SizeOf(r) == IF ModeOf(r) = "FIXED" THEN Len(FlattenSeq(r.content)) ELSE Undefined
FieldsOf(r) == {<<Lower(<<f[1]>>), f[2]>> : f \in ToSet(r.fields)}
HeadersOf(r) ==
    LET all == FieldsOf(r)
    IN  IF TransferEncoding \notin Names(all) THEN all
        ELSE With(Without(all, ContentLength), TransferEncoding,
                  Lower(Value(all, TransferEncoding)))

\* o is what the parser has said so far of r.
Describes(o, r) ==
    IF o.error THEN ~r.wellFormed
    ELSE /\ o.statusCode = r.code /\ o.headers = HeadersOf(r)
         /\ o.mode = ModeOf(r) /\ o.size = SizeOf(r)
         /\ o.mode = "UNTIL_CLOSE" \/ IsPrefix(o.body, FlattenSeq(r.content))
         /\ o.ended => r.wellFormed /\ o.body = FlattenSeq(r.content)

\* Nothing before the k-th response is malformed or ends with the connection.
Reaches(k) == \A j \in 1 .. k - 1 : sent[j].wellFormed /\ sent[j].coding # "close"

\* Every response the parser announces is one the server has sent, with its
\* status, headers and body and in its place, wherever the buffers are cut; only a
\* malformed one is reported as an error (feed).
Decoded ==
    \A k \in DOMAIN out : Reaches(k) => k \in DOMAIN sent /\ Describes(out[k], sent[k])

\* When feed has read all that was sent, no response is missing or unfinished, and
\* the malformed ones were reported (feed, _reset).
AllDecoded ==
    i > Len(data) /\ stream = <<>> =>
       \A k \in DOMAIN sent : Reaches(k) =>
          /\ k \in DOMAIN out
          /\ sent[k].coding = "close" \/ out[k].size = 0 \/ out[k].ended
          /\ out[k].error <=> ~sent[k].wellFormed

\* The events come as the pipeline expects them: a chunk only within a response,
\* the fixed-length ones adding up to the size, the last one last.
RxFraming == IF p.at = "body" /\ p.length # 0
             THEN [mode |-> Mode(p), size |-> IF Mode(p) = "FIXED" THEN p.length ELSE 0]
             ELSE [mode |-> "IDLE", size |-> 0]
F == INSTANCE Framing WITH
        begun <- Len(out),
        rx    <- RxFraming,
        got   <- IF out = <<>> THEN 0 ELSE Len(out[Len(out)].body)
ImplementsFraming == F!Spec
=============================================================================
