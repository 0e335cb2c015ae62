---------------------------- MODULE ParserProofs ----------------------------
(***************************************************************************)
(* Theorems about Parser.  For every stream of bytes, well-formed or not,  *)
(* and every way to cut it into buffers, its fields keep their types and   *)
(* its events implement Framing, which Pipeline relies on.  For every      *)
(* stream of well-encoded responses, and every way to cut it, its events   *)
(* tell the responses that were sent: no unit of a body that has an end of *)
(* its own is lost, told twice, or told of another response.               *)
(***************************************************************************)
EXTENDS ServerResponses, SequenceFacts, TLAPS

\* Before the body nothing of it was read; in it the last response told is the
\* one being read, and what was read of it is what was told.
Told1 == out[Len(out)]
Reading ==
    /\ p.at # "body" => p.read = 0 /\ p.chunk = "header"
    /\ p.chunk = "header" => p.chunkRead = 0
    /\ p.at = "body" =>
          /\ out # <<>>
          /\ p.chunked => p.length = Undefined
          /\ p.length > 0 => Len(Told1.body) = p.read

\* The inductive invariant.
Inv == TypeOK /\ Reading

Got == IF out = <<>> THEN 0 ELSE Len(Told1.body)
FVars == <<Len(out), RxFraming, Got>>

-----------------------------------------------------------------------------
(***************************************************************************)
(* The operators on symbols and headers.                                   *)
(***************************************************************************)

\* toLowerCase gives as many symbols as it gets.
LEMMA LowerType ==
    ASSUME NEW s \in Text PROVE Lower(s) \in Text
<1>1. \A c \in Symbols : LowerOf(c) \in Symbols
  BY DEF LowerOf, Symbols, Words
<1>2. Len(s) \in Nat /\ \A k \in 1 .. Len(s) : s[k] \in Symbols
  BY DEF Text
<1>3. Lower(s) \in [1 .. Len(s) -> Symbols]
  BY <1>1, <1>2 DEF Lower
<1> QED
  BY <1>2, <1>3 DEF Text

\* A number parsed is a natural number.
LEMMA ParseIntType ==
    ASSUME NEW s, IsNumber(s) PROVE ParseInt(s) \in Nat
BY ParserAssumption DEF ParseInt, IsNumber

\* A status code, or not a number.
LEMMA NumberType ==
    ASSUME NEW s PROVE Number(s) \in Codes \cup {"NaN"}
BY DEF Number

\* A header that is there has a value.
LEMMA ValueType ==
    ASSUME NEW h \in Headers, NEW n \in Names(h)
    PROVE  Value(h, n) \in Text
<1>1. \E f \in h : f[1] = n
  BY DEF Names
<1>2. (CHOOSE f \in h : f[1] = n) \in h
  BY <1>1
<1> QED
  BY <1>2 DEF Value, Headers

\* Headers remain headers when one is set.
LEMMA WithType ==
    ASSUME NEW h \in Headers, NEW n \in Text, NEW v \in Text
    PROVE  With(h, n, v) \in Headers /\ Without(h, n) \in Headers
BY DEF With, Without, Headers

\* The body_chunk event lengthens the body of the last response and nothing else.
LEMMA EmitLengthens ==
    ASSUME out \in Seq(Told), out # <<>>, NEW units \in Text,
           NEW last \in BOOLEAN, Emit(units, last)
    PROVE  /\ out' \in Seq(Told) /\ out' # <<>>
           /\ Len(out') = Len(out)
           /\ Len(Told1'.body) = Len(Told1.body) + Len(units)
<1> DEFINE n == Len(out)
<1>1. n \in Nat \ {0} /\ n \in DOMAIN out /\ Told1 \in Told
  BY DEF Told1
<1>2. Told1.body \in Text /\ Told1.body \o units \in Text
  BY <1>1 DEF Told, Text
<1> DEFINE e == [Told1 EXCEPT !.body = Told1.body \o units, !.ended = last]
<1>3. e \in Told /\ e.body = Told1.body \o units
  BY <1>1, <1>2 DEF Told
<1>4. out' = [out EXCEPT ![n] = e]
  BY <1>1 DEF Emit, Told1
<1>5. out' \in Seq(Told) /\ Len(out') = n /\ out'[n] = e
  BY <1>1, <1>3, <1>4
<1> QED
  BY <1>1, <1>2, <1>3, <1>5 DEF Told1, Text

-----------------------------------------------------------------------------
(***************************************************************************)
(* Steps that tell nothing.                                                *)
(***************************************************************************)

\* The byte that is read, and the fields after a reset.
LEMMA ByteType ==
    ASSUME TypeOK, i <= Len(data)
    PROVE  /\ Byte \in Symbols /\ Left \in Nat \ {0} /\ i + Left = Len(data) + 1
           /\ Append1 \in Fields
<1>1. i \in 1 .. Len(data) /\ data \in Seq(Symbols) /\ Len(data) \in Nat
  BY DEF TypeOK, Text
<1>2. Byte \in Symbols /\ Left \in Nat \ {0} /\ i + Left = Len(data) + 1
  BY <1>1 DEF Byte, Left
<1>3. p \in Fields /\ p.symbol \in Text
  BY DEF TypeOK, Fields
<1>4. Append(p.symbol, Byte) \in Text
  BY <1>2, <1>3 DEF Text
<1> QED
  BY <1>2, <1>3, <1>4 DEF Append1, Fields

LEMMA FreshType == Fresh \in Fields
<1>1. <<>> \in Text
  BY DEF Text
<1>2. {} \in Headers
  BY DEF Headers
<1> QED
  BY <1>1, <1>2 DEF Fresh, Fields, Sizes, Undefined

\* A byte of the head is read.
LEMMA HeadByte ==
    ASSUME Inv, i <= Len(data), p.at # "body", NEW q \in Fields, Read(q),
           q.at # "body", q.read = 0, q.chunk = "header", q.chunkRead = 0
    PROVE  Inv' /\ UNCHANGED FVars
<1>1. /\ i' = i + 1 /\ p' = [q EXCEPT !.prev = Byte] /\ out' = out
      /\ UNCHANGED <<sent, stream, data>>
  BY DEF Read, Go
<1>2. /\ p' \in Fields /\ p'.at # "body"
      /\ p'.read = 0 /\ p'.chunk = "header" /\ p'.chunkRead = 0
  BY <1>1, ByteType DEF Inv, Fields
<1>3. i' \in 1 .. Len(data') + 2
  BY <1>1 DEF Inv, TypeOK, Text
<1>4. TypeOK'
  BY <1>1, <1>2, <1>3 DEF Inv, TypeOK
<1>5. Reading'
  BY <1>2 DEF Reading
<1> QED
  BY <1>1, <1>2, <1>4, <1>5 DEF Inv, FVars, RxFraming, Got, Told1

\* A byte of the body that is not data is read.
LEMMA BodyByte ==
    ASSUME Inv, i <= Len(data), p.at = "body", NEW q \in Fields, Read(q),
           q.at = "body", q.length = p.length, q.chunked = p.chunked, q.read = p.read,
           q.chunk = "data" => q.chunkRead < q.chunkSize,
           q.chunk = "header" => q.chunkRead = 0
    PROVE  Inv' /\ UNCHANGED FVars
<1>1. /\ i' = i + 1 /\ p' = [q EXCEPT !.prev = Byte] /\ out' = out
      /\ UNCHANGED <<sent, stream, data>>
  BY DEF Read, Go
<1>2. /\ p' \in Fields /\ p'.at = p.at /\ p'.length = p.length
      /\ p'.chunked = p.chunked /\ p'.read = p.read
      /\ p'.chunk = "data" => p'.chunkRead < p'.chunkSize
      /\ p'.chunk = "header" => p'.chunkRead = 0
  BY <1>1, ByteType DEF Inv, Fields
<1>3. i' \in 1 .. Len(data') + 2
  BY <1>1 DEF Inv, TypeOK, Text
<1>4. TypeOK'
  BY <1>1, <1>2, <1>3 DEF Inv, TypeOK
<1>5. Reading'
  BY <1>1, <1>2 DEF Inv, Reading, Told1
<1> QED
  BY <1>1, <1>2, <1>4, <1>5 DEF Inv, FVars, RxFraming, Mode, Got, Told1

\* The head is read byte by byte without a word to the pipeline.
LEMMA ReadHeadStep ==
    ASSUME Inv, ReadVersion \/ ReadStatusCode \/ ReadStatusMessage \/ ReadColon
                \/ ReadField \/ ReadReturn \/ EndOfLine
    PROVE  Inv' /\ UNCHANGED FVars
<1>1. /\ i <= Len(data) /\ p.at # "body" /\ p \in Fields
      /\ p.read = 0 /\ p.chunk = "header" /\ p.chunkRead = 0
  BY DEF Inv, TypeOK, Reading, ReadVersion, ReadStatusCode, ReadStatusMessage, ReadColon,
         ReadField, ReadReturn, EndOfLine, More
<1>2. Append1 \in Fields /\ Append1.at = p.at /\ Append1.read = 0
      /\ Append1.chunk = "header" /\ Append1.chunkRead = 0 /\ Byte \in Symbols
  BY <1>1, ByteType DEF Inv, Append1, Fields
<1>3. <<>> \in Text /\ p.symbol \in Text /\ p.name \in Text /\ p.headers \in Headers
  BY <1>1 DEF Fields, Text
<1> DEFINE Good(q) == /\ q \in Fields /\ q.at # "body" /\ q.read = 0
                      /\ q.chunk = "header" /\ q.chunkRead = 0
<1>4. Good(p) /\ Good(Append1)
  BY <1>1, <1>2
<1> SUFFICES \E q : Good(q) /\ Read(q)
  BY <1>1, HeadByte
<1>5. CASE ReadVersion
  <2>1. Good([p EXCEPT !.at = "statusCode", !.symbol = <<>>])
    BY <1>1, <1>3 DEF Fields
  <2> QED
    BY <1>4, <1>5, <2>1 DEF ReadVersion
<1>6. CASE ReadStatusCode
  <2> DEFINE q == [p EXCEPT
                !.at = "statusMessage", !.symbol = <<>>, !.statusCode = Number(p.symbol),
                !.length = IF Bodiless(Number(p.symbol)) THEN 0 ELSE @]
  <2>1. Good(q)
    BY <1>1, <1>3, NumberType DEF Fields, Sizes
  <2> QED
    BY <1>4, <1>6, <2>1 DEF ReadStatusCode
<1>7. CASE ReadStatusMessage
  <2>1. Good([p EXCEPT !.at = "headers", !.symbol = <<>>])
    BY <1>1, <1>3 DEF Fields
  <2> QED
    BY <1>4, <1>7, <2>1 DEF ReadStatusMessage
<1>8. CASE ReadColon
  <2> DEFINE q == [p EXCEPT !.endOfLine = 0, !.name = Lower(p.symbol), !.symbol = <<>>,
                           !.headers = With(@, Lower(p.symbol), <<>>)]
  <2>1. Lower(p.symbol) \in Text /\ With(p.headers, Lower(p.symbol), <<>>) \in Headers
    BY <1>3, LowerType, WithType
  <2>2. Good(q)
    BY <1>1, <1>3, <2>1 DEF Fields
  <2>3. Good([Append1 EXCEPT !.endOfLine = 0])
    BY <1>2, <1>1 DEF Fields
  <2> QED
    BY <1>8, <2>2, <2>3 DEF ReadColon
<1>9. CASE ReadField
  <2>1. Good([Append1 EXCEPT !.endOfLine = 0])
    BY <1>2, <1>1 DEF Fields
  <2>2. Good([p EXCEPT !.endOfLine = 0])
    BY <1>1 DEF Fields
  <2> QED
    BY <1>9, <2>1, <2>2 DEF ReadField
<1>10. CASE ReadReturn
  BY <1>4, <1>10 DEF ReadReturn
<1>11. CASE EndOfLine
  <2> DEFINE q == [p EXCEPT !.endOfLine = 1, !.headers = With(@, p.name, p.symbol),
                      !.name = <<>>, !.symbol = <<>>]
  <2>1. With(p.headers, p.name, p.symbol) \in Headers
    BY <1>3, WithType
  <2>2. Good(q)
    BY <1>1, <1>3, <2>1 DEF Fields
  <2> QED
    BY <1>11, <2>2 DEF EndOfLine
<1> QED
  BY <1>5, <1>6, <1>7, <1>8, <1>9, <1>10, <1>11

\* The frame of a chunk is read without a word to the pipeline.
LEMMA ReadBodyStep ==
    ASSUME Inv, ReadChunkSize \/ BeginChunk \/ EndChunk
    PROVE  Inv' /\ UNCHANGED FVars
<1>1. /\ i <= Len(data) /\ p.at = "body" /\ p \in Fields
      /\ p.chunk = "data" => p.chunkRead < p.chunkSize
      /\ p.chunk = "header" => p.chunkRead = 0
  BY DEF Inv, TypeOK, Reading, ReadChunkSize, BeginChunk, EndChunk, ChunkPart, More
<1>2. /\ Append1 \in Fields /\ Append1.at = p.at /\ Append1.length = p.length
      /\ Append1.chunked = p.chunked /\ Append1.read = p.read /\ Append1.chunk = p.chunk
      /\ Append1.chunkRead = p.chunkRead /\ Append1.chunkSize = p.chunkSize
  BY <1>1, ByteType DEF Inv, Append1, Fields
<1>3. <<>> \in Text
  BY DEF Text
<1> DEFINE Good(q) == /\ q \in Fields /\ q.at = "body" /\ q.length = p.length
                      /\ q.chunked = p.chunked /\ q.read = p.read
                      /\ q.chunk = "data" => q.chunkRead < q.chunkSize
                      /\ q.chunk = "header" => q.chunkRead = 0
<1> SUFFICES \E q : Good(q) /\ Read(q)
  BY <1>1, BodyByte
<1>4. Good(p)
  BY <1>1
<1>5. CASE ReadChunkSize
  <2>1. p.chunk = "header"
    BY <1>5 DEF ReadChunkSize, ChunkPart
  <2>2. Good(Append1)
    BY <1>1, <1>2, <2>1
  <2>3. Good([p EXCEPT !.extension = TRUE])
    BY <1>1 DEF Fields
  <2> QED
    BY <1>4, <1>5, <2>2, <2>3 DEF ReadChunkSize
<1>6. CASE BeginChunk
  <2>1. ParseInt(p.symbol) \in Nat /\ ParseInt(p.symbol) # 0 /\ p.chunk = "header"
    BY <1>6, ParseIntType DEF BeginChunk, ChunkPart
  <2> DEFINE q == [p EXCEPT !.chunk = "data", !.chunkSize = ParseInt(p.symbol),
                            !.symbol = <<>>]
  <2>2. p.chunkRead = 0
    BY <1>1, <2>1
  <2>3. ParseInt(p.symbol) \in Sizes /\ 0 < ParseInt(p.symbol)
    BY <2>1 DEF Sizes
  <2>4. q \in Fields
    BY <1>1, <1>3, <2>3 DEF Fields
  <2>5. /\ q.at = "body" /\ q.length = p.length /\ q.chunked = p.chunked
        /\ q.read = p.read /\ q.chunk = "data"
        /\ q.chunkRead = p.chunkRead /\ q.chunkSize = ParseInt(p.symbol)
    BY <1>1 DEF Fields
  <2>6. Good(q)
    BY <2>2, <2>3, <2>4, <2>5
  <2> QED
    BY <1>6, <2>6 DEF BeginChunk
<1>7. CASE EndChunk
  <2> DEFINE q == [p EXCEPT !.chunk = "header", !.extension = FALSE,
                            !.chunkRead = 0, !.chunkSize = Undefined, !.symbol = <<>>]
  <2>1. Good(q)
    BY <1>1, <1>3 DEF Fields, Sizes
  <2> QED
    BY <1>4, <1>7, <2>1 DEF EndChunk
<1> QED
  BY <1>5, <1>6, <1>7

-----------------------------------------------------------------------------
(***************************************************************************)
(* Steps that tell something.                                              *)
(***************************************************************************)

\* The loop goes on with the rest of the buffer.
LEMMA GoOn ==
    ASSUME Inv, i <= Len(data), NEW n \in 1 .. Left + 1, NEW q \in Fields, Go(n, q),
           out' \in Seq(Told),
           q.at = "body" /\ q.length > 0 => q.read < q.length,
           q.at = "body" /\ q.chunk = "data" => q.chunkRead < q.chunkSize
    PROVE  TypeOK'
<1>1. i' = i + n /\ p' = q /\ UNCHANGED <<sent, stream, data>>
  BY DEF Go
<1>2. i' \in 1 .. Len(data') + 2
  BY <1>1, ByteType DEF Inv, TypeOK, Text
<1> QED
  BY <1>1, <1>2 DEF Inv, TypeOK

\* A response that was announced, or failed, is added to those told.
LEMMA AnnouncedType ==
    ASSUME NEW q \in Fields PROVE Announced(q) \in Told /\ Announced(q).body = <<>>
BY DEF Announced, Mode, Fields, Told, Text

LEMMA AppendTold ==
    ASSUME out \in Seq(Told), NEW t \in Told, out' = Append(out, t), t.body = <<>>
    PROVE  out' \in Seq(Told) /\ out' # <<>> /\ Len(out') = Len(out) + 1
           /\ Told1' = t /\ Got' = 0
<1>1. out' \in Seq(Told) /\ Len(out') = Len(out) + 1 /\ out'[Len(out) + 1] = t
      /\ Len(out) \in Nat
  OBVIOUS
<1>2. out' # <<>>
  BY <1>1
<1> QED
  BY <1>1, <1>2 DEF Told1, Got

LEMMA EndOfHeadersStep == ASSUME Inv, EndOfHeaders PROVE Inv' /\ F!Begin
<1>1. /\ i <= Len(data) /\ p.at = "headers" /\ p \in Fields
      /\ p.read = 0 /\ p.chunk = "header" /\ p.chunkRead = 0
  BY DEF Inv, TypeOK, Reading, EndOfHeaders, More
<1> DEFINE h == IF HasEncoding
                THEN With(Without(p.headers, ContentLength), TransferEncoding, Encoding)
                ELSE p.headers
           q == [p EXCEPT !.at = "body", !.endOfLine = 0, !.name = <<>>, !.prev = Byte,
                          !.headers = h, !.chunked = IsChunked, !.length = BodyLength]
<1>2. Go(1, q) /\ out' = Append(out, Announced(q)) /\ ~InvalidLength
  BY DEF EndOfHeaders
<1>3. ContentLength \in Text /\ TransferEncoding \in Text /\ <<>> \in Text
  BY DEF ContentLength, TransferEncoding, Text, Symbols, Words
<1>4. p.headers \in Headers /\ p.length \in Sizes
  BY <1>1 DEF Fields
<1>5. HasEncoding => Encoding \in Text
  BY <1>4, ValueType, LowerType DEF HasEncoding, Encoding
<1>6. h \in Headers
  BY <1>3, <1>4, <1>5, WithType
<1>7. HasLength => ParseInt(Value(p.headers, ContentLength)) \in Nat
  BY <1>2, ParseIntType DEF InvalidLength
<1>8. BodyLength \in Sizes /\ (IsChunked => BodyLength = Undefined) /\ IsChunked \in BOOLEAN
  BY <1>4, <1>7 DEF BodyLength, Sizes, IsChunked
<1>9. Byte \in Symbols
  BY <1>1, ByteType DEF Inv
<1> HIDE DEF h
<1>10. /\ q \in Fields /\ q.at = "body" /\ q.read = 0 /\ q.chunk = "header"
       /\ q.chunkRead = 0 /\ q.length = BodyLength /\ q.chunked = IsChunked
  BY <1>1, <1>3, <1>6, <1>8, <1>9 DEF Fields
<1>11. Announced(q) \in Told /\ Announced(q).body = <<>>
  BY <1>10, AnnouncedType
<1> HIDE DEF q
<1>12. /\ out' \in Seq(Told) /\ out' # <<>> /\ Len(out') = Len(out) + 1
       /\ Told1' = Announced(q) /\ Got' = 0
  BY <1>2, <1>11, AppendTold DEF Inv, TypeOK
<1>13. TypeOK'
  <2>1. 1 \in 1 .. Left + 1
    BY <1>1, ByteType DEF Inv
  <2> QED
    BY <1>1, <1>2, <1>10, <1>12, <2>1, GoOn DEF Sizes
<1>14. p' = q
  BY <1>2 DEF Go
<1>15. Reading'
  BY <1>8, <1>10, <1>11, <1>12, <1>14 DEF Reading
<1>16. RxFraming = F!Idle
  BY <1>1 DEF RxFraming, F!Idle
<1>17. \/ RxFraming' \in [mode : {"FIXED"}, size : Nat \ {0}]
       \/ RxFraming' \in [mode : {"CHUNKED", "UNTIL_CLOSE"}, size : {0}]
       \/ RxFraming' = F!Idle
  BY <1>8, <1>10, <1>14 DEF RxFraming, Mode, Sizes, Undefined, F!Idle
<1> QED
  BY <1>12, <1>13, <1>15, <1>16, <1>17 DEF Inv, F!Begin, Got, Told1

LEMMA ReportLengthStep == ASSUME Inv, ReportLength PROVE Inv' /\ F!Error
<1>1. i <= Len(data) /\ p.at = "headers"
  BY DEF ReportLength, More
<1> DEFINE t == [Announced(Fresh) EXCEPT !.ended = TRUE, !.error = TRUE]
<1>2. Go(1, Fresh) /\ out' = Append(out, t)
  BY DEF ReportLength
<1>3. t \in Told /\ t.body = <<>>
  BY FreshType, AnnouncedType DEF Told
<1> HIDE DEF t
<1>4. out' \in Seq(Told) /\ out' # <<>> /\ Len(out') = Len(out) + 1 /\ Got' = 0
  BY <1>2, <1>3, AppendTold DEF Inv, TypeOK
<1>5. Fresh.at = "version" /\ Fresh.read = 0 /\ Fresh.chunk = "header" /\ Fresh.chunkRead = 0
  BY DEF Fresh
<1>6. TypeOK'
  <2>1. 1 \in 1 .. Left + 1
    BY <1>1, ByteType DEF Inv
  <2> QED
    BY <1>1, <1>2, <1>4, <1>5, <2>1, FreshType, GoOn
<1>7. p' = Fresh
  BY <1>2 DEF Go
<1>8. Reading' /\ RxFraming = F!Idle /\ RxFraming' = F!Idle
  BY <1>1, <1>5, <1>7 DEF Reading, RxFraming, F!Idle
<1> QED
  BY <1>4, <1>6, <1>8 DEF Inv, F!Error, Got, Told1

\* What an event does: the parser emits units and is then q.
LEMMA EmitStep ==
    ASSUME Inv, i <= Len(data), p.at = "body",
           NEW units \in Text, NEW last \in BOOLEAN, Emit(units, last),
           NEW n \in 1 .. Left + 1, NEW q \in Fields, Go(n, q),
           q.at = "body" => /\ q.length = p.length /\ q.chunked = p.chunked
                            /\ q.length > 0 => /\ q.read < q.length
                                               /\ q.read = p.read + Len(units)
                            /\ q.chunk = "data" => q.chunkRead < q.chunkSize,
           q.at # "body" => q.read = 0 /\ q.chunk = "header",
           q.chunk = "header" => q.chunkRead = 0
    PROVE  /\ Inv' /\ p' = q /\ Len(out') = Len(out) /\ Got' = Got + Len(units)
           /\ Got \in Nat /\ (p.length > 0 => Got = p.read)
<1>1. out \in Seq(Told) /\ out # <<>>
  BY DEF Inv, TypeOK, Reading
<1>2. /\ out' \in Seq(Told) /\ out' # <<>> /\ Len(out') = Len(out)
      /\ Len(Told1'.body) = Len(Told1.body) + Len(units)
  BY <1>1, EmitLengthens
<1>3. p' = q
  BY DEF Go
<1>4. TypeOK'
  BY <1>2, GoOn
<1>5. Len(units) \in Nat
  BY DEF Text
<1>6. Reading'
  BY <1>2, <1>3, <1>5 DEF Inv, Reading
<1>7. Len(Told1.body) \in Nat
  <2>1. Told1 \in Told
    BY <1>1 DEF Told1
  <2> QED
    BY <2>1 DEF Told, Text
<1> QED
  BY <1>1, <1>2, <1>3, <1>4, <1>6, <1>7 DEF Inv, Reading, Got

\* What is read at a place of the body, and how the response is delimited.
LEMMA ReadNoBodyStep == ASSUME Inv, ReadNoBody PROVE Inv' /\ UNCHANGED FVars
<1>1. /\ i <= Len(data) /\ p.at = "body" /\ p.length = 0
      /\ Emit(<<>>, TRUE) /\ Go(1, Fresh)
  BY DEF ReadNoBody, More
<1>2. /\ Fresh.at = "version" /\ Fresh.read = 0 /\ Fresh.chunk = "header"
      /\ Fresh.chunkRead = 0 /\ <<>> \in Text /\ 1 \in 1 .. Left + 1
  BY <1>1, ByteType DEF Inv, Fresh, Text
<1>3. Inv' /\ p' = Fresh /\ Len(out') = Len(out) /\ Got' = Got + Len(<<>>) /\ Got \in Nat
  BY <1>1, <1>2, FreshType, EmitStep
<1> QED
  BY <1>1, <1>2, <1>3 DEF FVars, RxFraming

LEMMA EndChunkedStep == ASSUME Inv, EndChunked PROVE Inv' /\ F!Chunk(TRUE)
<1>1. /\ i <= Len(data) /\ p.at = "body" /\ p.length # 0 /\ p.chunked
      /\ Emit(<<>>, TRUE) /\ Go(1, Fresh)
  BY DEF EndChunked, ChunkPart, More
<1>2. /\ Fresh.at = "version" /\ Fresh.read = 0 /\ Fresh.chunk = "header"
      /\ Fresh.chunkRead = 0 /\ <<>> \in Text /\ 1 \in 1 .. Left + 1
  BY <1>1, ByteType DEF Inv, Fresh, Text
<1>3. Inv' /\ p' = Fresh /\ Len(out') = Len(out) /\ Got' = Got + Len(<<>>) /\ Got \in Nat
  BY <1>1, <1>2, FreshType, EmitStep
<1>4. RxFraming = [mode |-> "CHUNKED", size |-> 0] /\ RxFraming' = F!Idle
  BY <1>1, <1>2, <1>3 DEF RxFraming, Mode, F!Idle
<1> QED
  BY <1>3, <1>4 DEF F!Chunk, Got, Told1

LEMMA ReportChunkSizeStep == ASSUME Inv, ReportChunkSize PROVE Inv' /\ F!Error
<1>1. /\ i <= Len(data) /\ p.at = "body" /\ p.length # 0 /\ p.chunked
      /\ out' = [out EXCEPT ![Len(out)].ended = TRUE, ![Len(out)].error = TRUE]
      /\ Go(Left, Fresh)
  BY DEF ReportChunkSize, ChunkPart, More
<1>2. /\ Fresh.at = "version" /\ Fresh.read = 0 /\ Fresh.chunk = "header"
      /\ Fresh.chunkRead = 0 /\ Left \in 1 .. Left + 1
  BY <1>1, ByteType DEF Inv, Fresh
<1>3. out \in Seq(Told) /\ out # <<>> /\ Len(out) \in DOMAIN out /\ Told1 \in Told
  BY <1>1 DEF Inv, TypeOK, Reading, Told1
<1> DEFINE e == [Told1 EXCEPT !.ended = TRUE, !.error = TRUE]
<1>4. e \in Told /\ e.body = Told1.body
  BY <1>3 DEF Told
<1>5. out' = [out EXCEPT ![Len(out)] = e]
  BY <1>1, <1>3 DEF Told1
<1> HIDE DEF e
<1>6. /\ out' \in Seq(Told) /\ out' # <<>> /\ Len(out') = Len(out)
      /\ Told1' = e
  BY <1>3, <1>4, <1>5 DEF Told1
<1>7. TypeOK'
  BY <1>1, <1>2, <1>6, FreshType, GoOn
<1>8. p' = Fresh
  BY <1>1 DEF Go
<1>9. Reading'
  BY <1>2, <1>8 DEF Reading
<1>10. RxFraming = [mode |-> "CHUNKED", size |-> 0] /\ RxFraming' = F!Idle
  BY <1>1, <1>2, <1>8 DEF RxFraming, Mode, F!Idle
<1>11. Got' = Got
  BY <1>3, <1>4, <1>6 DEF Got
<1> QED
  BY <1>6, <1>7, <1>9, <1>10, <1>11 DEF Inv, F!Error, Got, Told1

\* The part of the buffer that is emitted.
LEMMA PartType ==
    ASSUME TypeOK, i <= Len(data), NEW n \in 1 .. Left
    PROVE  /\ SubSeq(data, i, i + n - 1) \in Text
           /\ Len(SubSeq(data, i, i + n - 1)) = n
<1>1. /\ i \in 1 .. Len(data) /\ data \in Seq(Symbols) /\ Len(data) \in Nat
      /\ i + n - 1 \in i .. Len(data)
  BY ByteType DEF TypeOK, Text
<1>2. \A k \in i .. i + n - 1 : data[k] \in Symbols
  BY <1>1
<1> QED
  BY <1>1, <1>2 DEF Text

LEMMA ReadChunkDataStep == ASSUME Inv, ReadChunkData PROVE Inv' /\ F!Chunk(FALSE)
<1> DEFINE n == Min2(Left, p.chunkSize - p.chunkRead)
           units == SubSeq(data, i, i + n - 1)
           q == [p EXCEPT !.read = @ + n, !.chunkRead = @ + n, !.prev = Byte,
                          !.chunk = IF p.chunkRead + n = p.chunkSize THEN "end" ELSE @]
<1>1. /\ i <= Len(data) /\ p.at = "body" /\ p.length # 0 /\ p.chunked /\ p.chunk = "data"
      /\ Emit(units, FALSE) /\ Go(n + 1, q)
  BY DEF ReadChunkData, ChunkPart, More
<1>2. /\ p \in Fields /\ p.chunkRead \in Nat /\ p.chunkSize \in Nat
      /\ p.chunkRead < p.chunkSize /\ p.read \in Nat
  BY <1>1 DEF Inv, TypeOK, Fields, Sizes, Undefined
<1>3. n \in 1 .. Left /\ p.chunkRead + n <= p.chunkSize
  BY <1>1, <1>2, ByteType DEF Inv, Min2
<1>4. units \in Text /\ Len(units) = n
  BY <1>1, <1>3, PartType DEF Inv
<1>5. Byte \in Symbols /\ n \in Nat
  BY <1>1, <1>3, ByteType DEF Inv
<1> HIDE DEF n, units
<1>6. /\ q \in Fields /\ q.at = "body" /\ q.length = p.length /\ q.chunked = p.chunked
      /\ q.chunk # "header" /\ (q.chunk = "data" => q.chunkRead < q.chunkSize)
  <2>1. p.read + n \in Nat /\ p.chunkRead + n \in Nat
    BY <1>2, <1>5
  <2> DEFINE c == IF p.chunkRead + n = p.chunkSize THEN "end" ELSE p.chunk
  <2>2. c \in {"data", "end"} /\ (c = "data" => p.chunkRead + n # p.chunkSize)
    BY <1>1
  <2>3. q = [p EXCEPT !.read = p.read + n, !.chunkRead = p.chunkRead + n, !.prev = Byte,
                      !.chunk = c]
    BY <1>2
  <2> HIDE DEF c, q
  <2>4. q \in Fields
    BY <1>2, <1>5, <2>1, <2>2, <2>3 DEF Fields
  <2>5. /\ q.at = p.at /\ q.length = p.length /\ q.chunked = p.chunked
        /\ q.chunk = c /\ q.chunkRead = p.chunkRead + n /\ q.chunkSize = p.chunkSize
    BY <1>2, <2>3 DEF Fields
  <2> QED
    BY <1>1, <1>2, <1>3, <1>5, <2>2, <2>4, <2>5
<1>7. ~(p.length > 0)
  BY <1>1 DEF Inv, Reading, Undefined
<1> HIDE DEF q
<1>8. n + 1 \in 1 .. Left + 1
  BY <1>1, <1>3, ByteType DEF Inv
<1>9. Inv' /\ p' = q /\ Len(out') = Len(out) /\ Got' = Got + n /\ Got \in Nat
  BY <1>1, <1>4, <1>6, <1>7, <1>8, EmitStep
<1>10. RxFraming = [mode |-> "CHUNKED", size |-> 0] /\ RxFraming' = RxFraming
  BY <1>1, <1>6, <1>9 DEF RxFraming, Mode
<1>11. Got' \in Nat /\ Got' > Got
  BY <1>3, <1>9
<1> QED
  BY <1>9, <1>10, <1>11 DEF F!Chunk, Got, Told1

LEMMA ReadFixedStep == ASSUME Inv, ReadFixed PROVE Inv' /\ \E last \in BOOLEAN : F!Chunk(last)
<1> DEFINE n == Min2(Left, p.length - p.read)
           units == SubSeq(data, i, i + n - 1)
           last == p.read + n = p.length
           r == [p EXCEPT !.read = @ + n, !.prev = Byte]
           q == IF last THEN Fresh ELSE r
<1>1. /\ i <= Len(data) /\ p.at = "body" /\ p.length \notin {0, Undefined} /\ ~p.chunked
      /\ Emit(units, last) /\ Go(n + 1, q)
  BY DEF ReadFixed, More
<1>2. /\ p \in Fields /\ p.length \in Nat /\ p.length > 0 /\ p.read \in Nat
      /\ p.read < p.length /\ (p.chunk = "data" => p.chunkRead < p.chunkSize)
      /\ (p.chunk = "header" => p.chunkRead = 0)
  BY <1>1 DEF Inv, TypeOK, Reading, Fields, Sizes
<1>3. n \in 1 .. Left /\ p.read + n <= p.length
  BY <1>1, <1>2, ByteType DEF Inv, Min2
<1>4. units \in Text /\ Len(units) = n
  BY <1>1, <1>3, PartType DEF Inv
<1>5. Byte \in Symbols /\ n + 1 \in 1 .. Left + 1 /\ n \in Nat
  BY <1>1, <1>3, ByteType DEF Inv
<1> HIDE DEF n, units
<1>6. /\ r \in Fields /\ r.at = "body" /\ r.length = p.length /\ r.chunked = p.chunked
      /\ r.read = p.read + n /\ r.chunk = p.chunk /\ r.chunkRead = p.chunkRead
      /\ r.chunkSize = p.chunkSize
  <2>1. p.read + n \in Nat
    BY <1>2, <1>5
  <2>2. r = [p EXCEPT !.read = p.read + n, !.prev = Byte]
    BY <1>2
  <2> HIDE DEF r
  <2> QED
    BY <1>1, <1>2, <1>5, <2>1, <2>2 DEF Fields
<1>7. /\ Fresh.at = "version" /\ Fresh.read = 0 /\ Fresh.chunk = "header"
      /\ Fresh.chunkRead = 0 /\ Fresh \in Fields
  BY FreshType DEF Fresh
<1> HIDE DEF r
<1>8. /\ q \in Fields
      /\ q.at = "body" => ~last /\ q = r
      /\ q.at # "body" => last /\ q = Fresh
  BY <1>6, <1>7
<1>9. q.at = "body" => q.read < q.length /\ q.read = p.read + n
  BY <1>2, <1>3, <1>6, <1>8
<1> HIDE DEF q
<1>10. last \in BOOLEAN
  OBVIOUS
<1> HIDE DEF last
<1>11. /\ Inv' /\ p' = q /\ Len(out') = Len(out) /\ Got' = Got + n /\ Got \in Nat
       /\ Got = p.read
  BY <1>1, <1>2, <1>4, <1>5, <1>6, <1>7, <1>8, <1>9, <1>10, EmitStep
<1>12. RxFraming = [mode |-> "FIXED", size |-> p.length]
  BY <1>1, <1>2 DEF RxFraming, Mode
<1>13. RxFraming' = IF last THEN F!Idle ELSE RxFraming
  BY <1>1, <1>2, <1>6, <1>7, <1>8, <1>11 DEF RxFraming, Mode, F!Idle
<1>14. /\ Got' \in Nat /\ Got' > Got /\ Got' <= p.length
       /\ last <=> Got' = p.length
  BY <1>2, <1>3, <1>11 DEF last
<1>15. F!Chunk(last)
  BY <1>11, <1>12, <1>13, <1>14 DEF F!Chunk, Got, Told1
<1> QED
  BY <1>10, <1>11, <1>15

LEMMA ReadUntilCloseStep == ASSUME Inv, ReadUntilClose PROVE Inv' /\ F!Chunk(FALSE)
<1> DEFINE q == [p EXCEPT !.prev = Byte]
<1>1. /\ i <= Len(data) /\ p.at = "body" /\ p.length = Undefined /\ ~p.chunked
      /\ Emit(data, FALSE) /\ Go(1, q)
  BY DEF ReadUntilClose, More
<1>2. /\ p \in Fields /\ (p.chunk = "data" => p.chunkRead < p.chunkSize)
      /\ (p.chunk = "header" => p.chunkRead = 0) /\ data \in Text
      /\ Len(data) \in Nat \ {0}
  BY <1>1 DEF Inv, TypeOK, Reading, Text
<1>3. Byte \in Symbols /\ 1 \in 1 .. Left + 1
  BY <1>1, ByteType DEF Inv
<1>4. /\ q \in Fields /\ q.at = "body" /\ q.length = p.length /\ q.chunked = p.chunked
      /\ q.chunk = p.chunk /\ q.chunkRead = p.chunkRead /\ q.chunkSize = p.chunkSize
  BY <1>1, <1>2, <1>3 DEF Fields
<1>5. ~(p.length > 0)
  BY <1>1 DEF Undefined
<1> HIDE DEF q
<1>6. Inv' /\ p' = q /\ Len(out') = Len(out) /\ Got' = Got + Len(data) /\ Got \in Nat
  BY <1>1, <1>2, <1>3, <1>4, <1>5, EmitStep
<1>7. RxFraming = [mode |-> "UNTIL_CLOSE", size |-> 0] /\ RxFraming' = RxFraming
  BY <1>1, <1>4, <1>6 DEF RxFraming, Mode, Undefined
<1>8. Got' \in Nat /\ Got' > Got
  BY <1>2, <1>6
<1> QED
  BY <1>6, <1>7, <1>8 DEF F!Chunk, Got, Told1

LEMMA FeedStep ==
    ASSUME Inv, NEW n \in Buffers, Feed(n) PROVE Inv' /\ UNCHANGED FVars
<1>1. /\ stream \in Seq(Symbols) /\ Len(stream) \in Nat /\ n \in Nat \ {0}
      /\ UNCHANGED <<sent, p, out>> /\ i' = 1
  BY ParserAssumption DEF Inv, TypeOK, Text, Feed
<1> DEFINE m == Min2(n, Len(stream))
<1>2. m \in 0 .. Len(stream) /\ data' = SubSeq(stream, 1, m)
      /\ stream' = SubSeq(stream, m + 1, Len(stream))
  BY <1>1 DEF Feed, Min2
<1> HIDE DEF m
<1>3. data' \in Seq(Symbols) /\ stream' \in Seq(Symbols)
  BY <1>1, <1>2
<1>4. TypeOK'
  BY <1>1, <1>3 DEF Inv, TypeOK, Text
<1> QED
  BY <1>1, <1>4 DEF Inv, Reading, FVars, RxFraming, Mode, Got, Told1

-----------------------------------------------------------------------------
(***************************************************************************)
(* The theorems.                                                           *)
(***************************************************************************)
LEMMA NothingTold == ASSUME UNCHANGED FVars PROVE UNCHANGED F!vars
BY DEF F!vars, FVars, Got, Told1

\* A step of the parser keeps the invariant and is a step of Framing or none.
LEMMA ParserStep == ASSUME Inv, [Next]_vars PROVE Inv' /\ [F!Next]_(F!vars)
<1>1. CASE ReadHead
  <2>1. CASE EndOfHeaders
    BY <2>1, EndOfHeadersStep, Zenon DEF F!Next
  <2>2. CASE ReportLength
    BY <2>2, ReportLengthStep, Zenon DEF F!Next
  <2>3. CASE ~EndOfHeaders /\ ~ReportLength
    BY <1>1, <2>3, ReadHeadStep, NothingTold, Zenon DEF ReadHead
  <2> QED
    BY <2>1, <2>2, <2>3, Zenon
<1>2. CASE ReadBody
  <2>1. CASE ReadNoBody
    BY <2>1, ReadNoBodyStep, NothingTold, Zenon
  <2>2. CASE ReadFixed
    BY <2>2, ReadFixedStep, Zenon DEF F!Next
  <2>3. CASE ReadUntilClose
    BY <2>3, ReadUntilCloseStep, Zenon DEF F!Next
  <2>4. CASE ReadChunkSize \/ BeginChunk \/ EndChunk
    BY <2>4, ReadBodyStep, NothingTold, Zenon
  <2>5. CASE ReportChunkSize
    BY <2>5, ReportChunkSizeStep, Zenon DEF F!Next
  <2>6. CASE EndChunked
    BY <2>6, EndChunkedStep, Zenon DEF F!Next
  <2>7. CASE ReadChunkData
    BY <2>7, ReadChunkDataStep, Zenon DEF F!Next
  <2> QED
    BY <1>2, <2>1, <2>2, <2>3, <2>4, <2>5, <2>6, <2>7, Zenon DEF ReadBody
<1>3. ASSUME NEW n \in Buffers, Feed(n) PROVE Inv' /\ [F!Next]_(F!vars)
  BY <1>3, FeedStep, NothingTold, Zenon
<1>4. CASE UNCHANGED vars
  <2>1. Inv'
    BY <1>4 DEF vars, Inv, TypeOK, Reading, Told1
  <2>2. UNCHANGED FVars
    BY <1>4 DEF vars, FVars, RxFraming, Mode, Got, Told1
  <2> QED
    BY <2>1, <2>2, NothingTold, Zenon
<1> QED
  BY <1>1, <1>2, <1>3, <1>4, Zenon DEF Next

LEMMA ParserInit == Init => Inv /\ F!Init
<1> SUFFICES ASSUME Init PROVE Inv /\ F!Init
  OBVIOUS
<1>1. sent \in Seq(Response) /\ stream \in Text
  BY ParserAssumption DEF Init
<1>2. data = <<>> /\ i = 1 /\ p = Fresh /\ out = <<>>
  BY DEF Init
<1>3. p.at = "version" /\ p.read = 0 /\ p.chunk = "header" /\ p.chunkRead = 0 /\ p \in Fields
  BY <1>2, FreshType DEF Fresh
<1>4. TypeOK
  BY <1>1, <1>2, <1>3 DEF TypeOK, Text
<1>5. Reading
  BY <1>3 DEF Reading
<1> QED
  BY <1>2, <1>3, <1>4, <1>5 DEF Inv, F!Init, RxFraming, F!Idle

\* The parser's fields keep their types, the index stays in the buffer, and no
\* counter passes what it counts up to, whatever bytes the server sends.
THEOREM ParserTypes == Spec => []TypeOK
<1>1. Init => Inv
  BY ParserInit
<1>2. Inv /\ [Next]_vars => Inv'
  BY ParserStep
<1>3. Inv => TypeOK
  BY DEF Inv
<1> QED
  BY <1>1, <1>2, <1>3, PTL DEF Spec

\* The events of the parser are those Pipeline expects, whatever bytes the server
\* sends and however they are cut.
THEOREM ParserImplementsFraming == Spec => ImplementsFraming
<1>1. Init => Inv /\ F!Init
  BY ParserInit
<1>2. Inv /\ [Next]_vars => Inv' /\ [F!Next]_(F!vars)
  BY ParserStep
<1> QED
  BY <1>1, <1>2, PTL DEF Spec, ImplementsFraming, F!Spec

-----------------------------------------------------------------------------
(***************************************************************************)
(* Where the parser is in what the server sent, once it is known that it   *)
(* sends nothing but well-encoded responses.                               *)
(***************************************************************************)
\* How much of what was sent has been read, and where the k-th response begins in it.
Whole   == FlattenSeq(Wires(sent))
Before  == Len(Whole) - Len(stream) - Len(data)
Pos     == Before + Min2(i - 1, Len(data))
Start(k) == Offset(Wires(sent), k)

\* The buffer and what has not arrived are the last part of what was sent.
Arrived ==
    /\ Before \in Nat
    /\ \A j \in 1 .. Len(data) : data[j] = Whole[Before + j]
    /\ \A j \in 1 .. Len(stream) : stream[j] = Whole[Before + Len(data) + j]

\* Where the body of a response begins in its message, and its k-th field and chunk.
BodyAt(r)     == Len(HeadOf(r))
FieldAt(r, k) == 10 + Offset(FieldLines(r), k)
ChunkAt(r, k) == BodyAt(r) + Offset(Chunks(r), k)

\* The headers as far as they were read, and what the code alone says of the body.
HeadersTo(r, n) == {<<Lower(<<r.fields[j][1]>>), r.fields[j][2]>> : j \in 1 .. n}
LengthOf(code)  == IF code \in {"100", "204", "304", "302", "307"} THEN 0 ELSE Undefined

\* Nothing of a body was read.
Plain(x) == x.chunk = "header" /\ ~x.extension /\ x.read = 0 /\ x.chunkRead = 0

\* The parser with the fields x has read q symbols of the response r; q may be
\* negative, as the line end after the last chunk is taken for a part of the version.
InVersion(x, q) ==
    /\ x.at = "version" /\ Plain(x) /\ x.name = <<>> /\ x.headers = {}
    /\ x.length = Undefined
    /\ q \in -2 .. 2

InCode(r, x, q) ==
    /\ x.at = "statusCode" /\ Plain(x) /\ x.name = <<>> /\ x.headers = {}
    /\ x.length = Undefined
    /\ \/ q = 3 /\ x.symbol = <<>>
       \/ q = 4 /\ x.symbol = <<r.code>>

InMessage(r, x, q) ==
    /\ x.at = "statusMessage" /\ Plain(x) /\ x.name = <<>> /\ x.headers = {}
    /\ x.statusCode = r.code /\ x.length = LengthOf(r.code)
    /\ q \in 5 .. 9 /\ (q = 9 => x.prev = "cr")

\* ... t symbols of its k-th field.
InField(r, x, k, t) ==
    LET name  == Lower(<<r.fields[k][1]>>)
        value == r.fields[k][2]
    IN  \/ /\ t = 0 /\ x.name = <<>> /\ x.symbol = <<>> /\ x.prev = "lf"
           /\ x.headers = HeadersTo(r, k - 1)
        \/ /\ t = 1 /\ x.name = <<>> /\ x.symbol = <<r.fields[k][1]>>
           /\ x.headers = HeadersTo(r, k - 1)
        \/ /\ t \in 2 .. Len(value) + 4 /\ x.name = name /\ x.endOfLine = 0
           /\ x.headers = HeadersTo(r, k - 1) \cup {<<name, <<>>>>}
           /\ t = 2 => x.prev = "colon" /\ x.symbol = <<>>
           /\ t = 3 => x.prev = "sp"
           /\ t \in 3 .. Len(value) + 3 => x.symbol = SubSeq(value, 1, t - 3)
           /\ t = Len(value) + 4 => x.symbol = value

InBlank(r, x, q) ==
    /\ q \in {BodyAt(r) - 2, BodyAt(r) - 1}
    /\ x.name = <<>> /\ x.symbol = <<>> /\ x.endOfLine = 1
    /\ x.headers = HeadersTo(r, Len(r.fields))

InHeaders(r, x, q) ==
    /\ x.at = "headers" /\ Plain(x)
    /\ x.statusCode = r.code /\ x.length = LengthOf(r.code)
    /\ \/ \E k \in 1 .. Len(r.fields) : InField(r, x, k, q - FieldAt(r, k))
       \/ InBlank(r, x, q)

\* The event headers was emitted for it, and the first n units of its body; or the
\* error.
Begun(o, r) ==
    /\ o.statusCode = r.code /\ o.headers = HeadersOf(r)
    /\ o.mode = ModeOf(r) /\ o.size = SizeOf(r) /\ ~o.ended /\ ~o.error
Failed(o) == o.error /\ o.ended
Says(o, r, n) ==
    /\ Begun(o, r) /\ Len(o.body) = n /\ n <= Len(FlattenSeq(r.content))
    /\ \A j \in 1 .. n : o.body[j] = FlattenSeq(r.content)[j]

InFixed(r, x, q, o) ==
    /\ ModeOf(r) = "FIXED" /\ r.wellFormed /\ ~x.chunked /\ x.length = SizeOf(r)
    /\ x.read = q - BodyAt(r) /\ (x.read < x.length \/ (x.length = 0 /\ x.read = 0))
    /\ Says(o, r, x.read)

InClose(r, x, o) ==
    /\ ModeOf(r) = "UNTIL_CLOSE" /\ r.wellFormed /\ x.length = Undefined /\ ~x.chunked
    /\ Begun(o, r)

\* ... t symbols of the line that says the size d of a chunk.
InSize(x, t, d) ==
    /\ x.chunk = "header" /\ x.chunkRead = 0
    /\ t \in 0 .. Len(Extension) + 2
    /\ t = 0 => x.symbol = <<>> /\ ~x.extension
    /\ t > 0 => x.symbol = <<d>>
    /\ t \in 2 .. Len(Extension) => x.extension

InChunk(r, x, k, t, o) ==
    LET n == Len(r.content[k])
        z == Len(Extension) + 3
        c == Offset(r.content, k)
    IN  \/ InSize(x, t, Numeral(n)) /\ Says(o, r, c)
        \/ /\ x.chunk = "data" /\ x.chunkSize = n
           /\ x.chunkRead \in 0 .. n - 1 /\ t = z + x.chunkRead /\ Says(o, r, c + x.chunkRead)
        \/ x.chunk = "end" /\ t \in {z + n, z + n + 1} /\ Says(o, r, c + n)

InLast(r, x, t, o) ==
    /\ IF r.wellFormed THEN InSize(x, t, Numeral(0))
       ELSE x.chunk = "header" /\ x.symbol = <<>> /\ t \in {0, 1}
    /\ Says(o, r, Len(FlattenSeq(r.content)))

InChunks(r, x, q, o) ==
    /\ ModeOf(r) = "CHUNKED" /\ x.length = Undefined /\ x.chunked
    /\ \/ \E k \in 1 .. Len(r.content) : InChunk(r, x, k, q - ChunkAt(r, k), o)
       \/ InLast(r, x, q - ChunkAt(r, Len(r.content) + 1), o)

InBody(r, x, q, o) ==
    x.at = "body" /\ (InFixed(r, x, q, o) \/ InClose(r, x, o) \/ InChunks(r, x, q, o))

\* The response was read to its end.
Done(o, r) ==
    /\ r.wellFormed /\ r.coding # "close" /\ ~o.error /\ o.ended
    /\ Describes(o, r)
Behind(k) == k - 1 <= Len(out) /\ \A j \in 1 .. k - 1 : Done(out[j], sent[j])

\* The k-th response is next, or being read, or it was malformed and reported, after
\* which nothing is known.
InHead(k, x, q) ==
    \/ InVersion(x, q)
    \/ /\ k <= Len(sent)
       /\ InCode(sent[k], x, q) \/ InMessage(sent[k], x, q) \/ InHeaders(sent[k], x, q)
ReadingHead(k) ==
    /\ k \in 1 .. Len(sent) + 1 /\ Len(out) = k - 1 /\ Behind(k)
    /\ InHead(k, p, Pos - Start(k))
    /\ Pos < Start(k) =>
          Start(k) > 1 /\ Whole[Start(k) - 1] = "cr" /\ Whole[Start(k)] = "lf"
ReadingBody(k) ==
    /\ k \in 1 .. Len(sent) /\ Len(out) = k /\ Behind(k)
    /\ InBody(sent[k], p, Pos - Start(k), out[k])
Lost(k) ==
    /\ k \in 1 .. Len(sent) /\ Len(out) >= k /\ Behind(k)
    /\ Failed(out[k]) /\ ~sent[k].wellFormed
    /\ Len(out) = k => p.at # "body"

Following ==
    /\ Arrived
    /\ \E k \in 1 .. Len(sent) + 1 : ReadingHead(k) \/ ReadingBody(k) \/ Lost(k)

-----------------------------------------------------------------------------
(***************************************************************************)
(* What well-encoded responses look like on the wire.                      *)
(***************************************************************************)
\* Texts one behind the other.
LEMMA TextConcat ==
    ASSUME NEW s \in Text, NEW t \in Text
    PROVE  /\ s \o t \in Text /\ Len(s \o t) = Len(s) + Len(t)
           /\ Len(s) \in Nat /\ Len(t) \in Nat
BY DEF Text

\* A line is two symbols longer than what is in it.
LEMMA LineType ==
    ASSUME NEW s \in Text
    PROVE  Line(s) \in Text /\ Len(Line(s)) = Len(s) + 2
<1>1. <<"cr", "lf">> \in Text
  BY DEF Text, Symbols, Marks
<1>2. PICK e \in Text : e = <<"cr", "lf">> /\ Len(e) = 2
  BY <1>1
<1> QED
  BY <1>2 DEF Line, Text

\* The line that ends the head, or a message.
LEMMA EmptyLine ==
    /\ Line(<<>>) \in Text /\ Len(Line(<<>>)) = 2
    /\ Line(<<>>)[1] = "cr" /\ Line(<<>>)[2] = "lf"
<1>1. PICK e : e = <<"cr", "lf">>
  OBVIOUS
<1>2. e \in Text /\ Len(e) = 2 /\ e[1] = "cr" /\ e[2] = "lf"
  BY <1>1 DEF Text, Symbols, Marks
<1>3. <<>> \o e = e
  OBVIOUS
<1> QED
  BY <1>1, <1>2, <1>3 DEF Line

\* A line in a text.
LEMMA HasLine ==
    ASSUME NEW w, Len(w) \in Nat, NEW a, NEW s \in Text, HasAt(w, a, Line(s))
    PROVE  /\ HasAt(w, a, s)
           /\ a + Len(s) + 2 <= Len(w)
           /\ w[a + Len(s) + 1] = "cr" /\ w[a + Len(s) + 2] = "lf"
<1>1. PICK e : e = <<"cr", "lf">>
  OBVIOUS
<1>2. e \in Text /\ Len(e) = 2 /\ e[1] = "cr" /\ e[2] = "lf"
  BY <1>1 DEF Text, Symbols, Marks
<1>3. HasAt(w, a, s) /\ HasAt(w, a + Len(s), e)
  BY <1>1, <1>2, HasAtConcat, Zenon DEF Line, Text
<1>4. /\ a + Len(s) \in Nat /\ a + Len(s) + 2 <= Len(w)
      /\ w[a + Len(s) + 1] = "cr" /\ w[a + Len(s) + 2] = "lf"
  BY <1>2, <1>3 DEF HasAt
<1> QED
  BY <1>3, <1>4

\* The parts of a response.
LEMMA ResponseParts ==
    ASSUME NEW r \in Response
    PROVE  /\ r.code \in Codes /\ r.code \in Symbols
           /\ r.fields \in Seq(Symbols \X Text) /\ Len(r.fields) \in Nat
           /\ \A k \in 1 .. Len(r.fields) : r.fields[k][1] \in Symbols /\ r.fields[k][2] \in Text
           /\ r.content \in Seq(Text) /\ Len(r.content) \in Nat
           /\ \A k \in 1 .. Len(r.content) : r.content[k] \in Text
BY DEF Response, Symbols

\* The line of a field.
LEMMA FieldLineType ==
    ASSUME NEW n \in Symbols, NEW v \in Text
    PROVE  /\ FieldLine(<<n, v>>) \in Text
           /\ Len(FieldLine(<<n, v>>)) = Len(v) + 5
<1>1. PICK h : h = <<n, "colon", "sp">>
  OBVIOUS
<1>2. h \in Text /\ Len(h) = 3
  BY <1>1 DEF Text, Symbols, Marks
<1>3. h \o v \in Text /\ Len(h \o v) = 3 + Len(v) /\ Len(v) \in Nat
  BY <1>2, TextConcat
<1>4. FieldLine(<<n, v>>) = Line(h \o v)
  BY <1>1 DEF FieldLine
<1>5. PICK s \in Text : s = h \o v
  BY <1>3
<1>6. Line(s) \in Text /\ Len(Line(s)) = Len(s) + 2
  BY LineType
<1> QED
  BY <1>3, <1>4, <1>5, <1>6

\* A field in a text.
FieldIn(w, a, n, v) ==
    /\ w[a + 1] = n /\ w[a + 2] = "colon" /\ w[a + 3] = "sp"
    /\ HasAt(w, a + 3, v)
    /\ w[a + Len(v) + 4] = "cr" /\ w[a + Len(v) + 5] = "lf"

\* A line of a field in a text.
LEMMA HasFieldLine ==
    ASSUME NEW w, Len(w) \in Nat, NEW a, NEW n \in Symbols, NEW v \in Text,
           HasAt(w, a, FieldLine(<<n, v>>))
    PROVE  FieldIn(w, a, n, v)
<1>1. PICK h : h = <<n, "colon", "sp">>
  OBVIOUS
<1>2. /\ h \in Text /\ Len(h) = 3 /\ h[1] = n /\ h[2] = "colon" /\ h[3] = "sp"
  BY <1>1 DEF Text, Symbols, Marks
<1>3. h \o v \in Text /\ Len(h \o v) = 3 + Len(v) /\ Len(v) \in Nat
  BY <1>2, TextConcat
<1>4. PICK s \in Text : s = h \o v
  BY <1>3
<1>5. FieldLine(<<n, v>>) = Line(s)
  BY <1>1, <1>4 DEF FieldLine
<1>6. /\ HasAt(w, a, s) /\ a + Len(s) + 2 <= Len(w)
      /\ w[a + Len(s) + 1] = "cr" /\ w[a + Len(s) + 2] = "lf"
  BY <1>5, HasLine
<1>7. HasAt(w, a, h) /\ HasAt(w, a + Len(h), v)
  BY <1>2, <1>4, <1>6, HasAtConcat, Zenon DEF Text
<1>8. a \in Nat /\ w[a + 1] = n /\ w[a + 2] = "colon" /\ w[a + 3] = "sp"
  BY <1>2, <1>7 DEF HasAt
<1>9. /\ a + Len(s) + 2 = a + Len(v) + 5 /\ a + Len(s) + 1 = a + Len(v) + 4
  <2>1. PICK m \in Nat : m = Len(v)
    BY <1>3
  <2>2. Len(s) = 3 + m
    BY <1>3, <1>4, <2>1
  <2> QED
    BY <1>8, <2>1, <2>2
<1> QED
  BY <1>2, <1>6, <1>7, <1>8, <1>9 DEF FieldIn

\* The lines of the fields of a response.
LEMMA FieldLinesType ==
    ASSUME NEW r \in Response
    PROVE  /\ FieldLines(r) \in Seq(Text) /\ Len(FieldLines(r)) = Len(r.fields)
           /\ \A k \in 1 .. Len(r.fields) :
                 FieldLines(r)[k] = FieldLine(<<r.fields[k][1], r.fields[k][2]>>)
<1>1. ASSUME NEW k \in 1 .. Len(r.fields)
      PROVE  /\ r.fields[k] = <<r.fields[k][1], r.fields[k][2]>>
             /\ FieldLine(r.fields[k]) \in Text
  <2>1. r.fields[k] \in Symbols \X Text
    BY DEF Response
  <2>2. PICK n \in Symbols, v \in Text : r.fields[k] = <<n, v>>
    BY <2>1
  <2>3. FieldLine(<<n, v>>) \in Text
    BY FieldLineType
  <2> QED
    BY <2>2, <2>3
<1>2. Len(r.fields) \in Nat
  BY ResponseParts
<1> QED
  BY <1>1, <1>2 DEF FieldLines

\* The first line of a response.
LEMMA StatusLineType ==
    ASSUME NEW r \in Response
    PROVE  StatusLine(r) \in Text /\ Len(StatusLine(r)) = 10
<1>1. PICK s : s = <<"H", "TTP", "sp", r.code, "sp", "Reason", "sp", "phrase">>
  OBVIOUS
<1>2. s \in Text /\ Len(s) = 8
  BY <1>1, WireAssumption, ResponseParts DEF Text, Symbols, Marks
<1>3. Line(s) \in Text /\ Len(Line(s)) = Len(s) + 2
  BY <1>2, LineType, Zenon
<1> QED
  BY <1>1, <1>2, <1>3 DEF StatusLine

\* The first line of a response in a text.
LEMMA HasStatusLine ==
    ASSUME NEW w, Len(w) \in Nat, NEW a, NEW r \in Response, HasAt(w, a, StatusLine(r))
    PROVE  /\ w[a + 1] = "H" /\ w[a + 2] = "TTP" /\ w[a + 3] = "sp"
           /\ w[a + 4] = r.code /\ w[a + 5] = "sp"
           /\ w[a + 6] = "Reason" /\ w[a + 7] = "sp" /\ w[a + 8] = "phrase"
           /\ w[a + 9] = "cr" /\ w[a + 10] = "lf"
<1>1. PICK s : s = <<"H", "TTP", "sp", r.code, "sp", "Reason", "sp", "phrase">>
  OBVIOUS
<1>2. s \in Text /\ Len(s) = 8
  BY <1>1, WireAssumption, ResponseParts DEF Text, Symbols, Marks
<1>3. StatusLine(r) = Line(s)
  BY <1>1 DEF StatusLine
<1>4. HasAt(w, a, s) /\ w[a + Len(s) + 1] = "cr" /\ w[a + Len(s) + 2] = "lf"
  BY <1>2, <1>3, HasLine
<1>5. a \in Nat /\ \A j \in 1 .. 8 : w[a + j] = s[j]
  BY <1>2, <1>4 DEF HasAt
<1>6. /\ w[a + 1] = s[1] /\ w[a + 2] = s[2] /\ w[a + 3] = s[3] /\ w[a + 4] = s[4]
      /\ w[a + 5] = s[5] /\ w[a + 6] = s[6] /\ w[a + 7] = s[7] /\ w[a + 8] = s[8]
  BY <1>5
<1>7. a + 8 + 1 = a + 9 /\ a + 8 + 2 = a + 10
  BY <1>5
<1> QED
  BY <1>1, <1>2, <1>4, <1>6, <1>7

\* The head of a response, and where its parts are.
LEMMA HeadType ==
    ASSUME NEW r \in Response
    PROVE  /\ HeadOf(r) \in Text /\ BodyAt(r) \in Nat
           /\ FieldAt(r, 1) = 10 /\ FieldAt(r, Len(r.fields) + 1) = BodyAt(r) - 2
           /\ \A k \in 1 .. Len(r.fields) + 1 : FieldAt(r, k) \in Nat
           /\ \A k \in 1 .. Len(r.fields) :
                 FieldAt(r, k + 1) = FieldAt(r, k) + Len(r.fields[k][2]) + 5
<1>1. PICK s \in Seq(Text) : s = FieldLines(r)
  BY FieldLinesType
<1>2. Len(s) = Len(r.fields)
  BY <1>1, FieldLinesType
<1>3. Flattened(s, Symbols)
  BY <1>1, FlattenAt DEF Text
<1>4. PICK f \in Text : f = FlattenSeq(s)
  BY <1>3 DEF Flattened, Text
<1>5. PICK e \in Text : e = Line(<<>>) /\ Len(e) = 2
  BY EmptyLine, Zenon
<1>6. PICK h \in Text : h = StatusLine(r) /\ Len(h) = 10
  BY StatusLineType
<1>7. f \o e \in Text /\ Len(f \o e) = Len(f) + Len(e) /\ Len(f) \in Nat
  BY TextConcat, Zenon
<1>8. PICK m \in Nat : m = Len(f)
  BY <1>7
<1>9. HeadOf(r) \in Text /\ BodyAt(r) = 10 + (m + 2)
  <2>1. PICK g \in Text : g = f \o e /\ Len(g) = m + 2
    BY <1>5, <1>7, <1>8
  <2>2. h \o g \in Text /\ Len(h \o g) = Len(h) + Len(g)
    BY TextConcat
  <2>3. HeadOf(r) = h \o g
    BY <1>1, <1>4, <1>5, <1>6, <2>1 DEF HeadOf
  <2> QED
    BY <1>6, <2>1, <2>2, <2>3 DEF BodyAt
<1>10. Offset(s, 1) = 0 /\ Offset(s, Len(r.fields) + 1) = m
  BY <1>2, <1>3, <1>4, <1>8 DEF Flattened
<1>11. \A k \in 1 .. Len(r.fields) + 1 : Offset(s, k) \in Nat
  BY <1>2, <1>3 DEF Flattened
<1>12. \A k \in 1 .. Len(r.fields) : Offset(s, k + 1) = Offset(s, k) + Len(s[k])
  BY <1>2, <1>3 DEF Flattened
<1>13. ASSUME NEW k \in 1 .. Len(r.fields)
       PROVE  FieldAt(r, k + 1) = FieldAt(r, k) + Len(r.fields[k][2]) + 5
  <2>1. PICK v \in Text : v = r.fields[k][2]
    BY ResponseParts
  <2>2. PICK n \in Nat : n = Len(v)
    BY DEF Text
  <2>6. Len(s[k]) = n + 5
    <3>1. PICK x \in Symbols : x = r.fields[k][1]
      BY ResponseParts
    <3>2. s[k] = FieldLine(<<x, v>>)
      BY <1>1, <2>1, <3>1, FieldLinesType
    <3>3. Len(FieldLine(<<x, v>>)) = Len(v) + 5
      BY FieldLineType
    <3> QED
      BY <2>2, <3>2, <3>3
  <2>3. k \in 1 .. Len(r.fields) + 1 /\ Len(r.fields) \in Nat
    BY ResponseParts
  <2>4. PICK c \in Nat : c = Offset(s, k)
    BY <1>11, <2>3
  <2>5. Offset(s, k + 1) = c + (n + 5)
    BY <1>12, <2>4, <2>6
  <2>7. FieldAt(r, k + 1) = 10 + (c + (n + 5)) /\ FieldAt(r, k) = 10 + c
    BY <1>1, <2>4, <2>5 DEF FieldAt
  <2>8. 10 + (c + (n + 5)) = 10 + c + n + 5
    OBVIOUS
  <2> QED
    BY <2>1, <2>2, <2>7, <2>8, Zenon
<1>14. FieldAt(r, 1) = 10 /\ FieldAt(r, Len(r.fields) + 1) = BodyAt(r) - 2
  BY <1>1, <1>9, <1>10 DEF FieldAt
<1>15. \A k \in 1 .. Len(r.fields) + 1 : FieldAt(r, k) \in Nat
  BY <1>1, <1>11 DEF FieldAt
<1> QED
  BY <1>9, <1>13, <1>14, <1>15

\* A head in a text.
LEMMA HasHead ==
    ASSUME NEW w, Len(w) \in Nat, NEW a, NEW r \in Response, HasAt(w, a, HeadOf(r))
    PROVE  /\ HasAt(w, a, StatusLine(r))
           /\ \A k \in 1 .. Len(r.fields) :
                 HasAt(w, a + FieldAt(r, k), FieldLine(<<r.fields[k][1], r.fields[k][2]>>))
           /\ w[a + BodyAt(r) - 1] = "cr" /\ w[a + BodyAt(r)] = "lf"
<1>1. PICK s \in Seq(Text) : s = FieldLines(r) /\ Len(s) = Len(r.fields)
  BY FieldLinesType
<1>2. Flattened(s, Symbols)
  BY <1>1, FlattenAt DEF Text
<1>3. PICK f \in Text : f = FlattenSeq(s)
  BY <1>2 DEF Flattened, Text
<1>5. PICK e \in Text : e = Line(<<>>) /\ Len(e) = 2 /\ e[1] = "cr" /\ e[2] = "lf"
  BY EmptyLine, Zenon
<1>6. PICK h \in Text : h = StatusLine(r) /\ Len(h) = 10
  BY StatusLineType
<1>7. PICK g \in Text : g = f \o e
  BY TextConcat
<1>8. HasAt(w, a, h \o g)
  BY <1>1, <1>3, <1>5, <1>6, <1>7 DEF HeadOf
<1>9. HasAt(w, a, h) /\ HasAt(w, a + 10, g)
  BY <1>6, <1>8, HasAtConcat DEF Text
<1>10. HasAt(w, a + 10, f) /\ HasAt(w, a + 10 + Len(f), e)
  BY <1>7, <1>9, HasAtConcat, Zenon DEF Text
<1>11. a \in Nat
  BY <1>9 DEF HasAt
<1>12. w[a + 10 + Len(f) + 1] = "cr" /\ w[a + 10 + Len(f) + 2] = "lf"
  <2>1. PICK b : b = a + 10 + Len(f)
    OBVIOUS
  <2>2. HasAt(w, b, e)
    BY <1>10, <2>1, Zenon
  <2>3. \A j \in 1 .. 2 : w[b + j] = e[j]
    BY <1>5, <2>2, Zenon DEF HasAt
  <2>4. w[b + 1] = "cr" /\ w[b + 2] = "lf"
    BY <1>5, <2>3
  <2> QED
    BY <2>1, <2>4, Zenon
<1>13. Len(f) = BodyAt(r) - 12 /\ BodyAt(r) \in Nat
  <2>1. Len(f) = Offset(s, Len(s) + 1)
    BY <1>2, <1>3 DEF Flattened
  <2>2. FieldAt(r, Len(r.fields) + 1) = 10 + Len(f)
    BY <1>1, <2>1 DEF FieldAt
  <2>3. FieldAt(r, Len(r.fields) + 1) = BodyAt(r) - 2 /\ BodyAt(r) \in Nat
    BY HeadType
  <2>4. Len(f) \in Nat
    BY DEF Text
  <2> QED
    BY <2>2, <2>3, <2>4
<1>14. /\ a + 10 + Len(f) + 1 = a + BodyAt(r) - 1
       /\ a + 10 + Len(f) + 2 = a + BodyAt(r)
  BY <1>11, <1>13
<1>15. ASSUME NEW k \in 1 .. Len(r.fields)
       PROVE  HasAt(w, a + FieldAt(r, k), FieldLine(<<r.fields[k][1], r.fields[k][2]>>))
  <2>1. HasAt(w, a + 10 + Offset(s, k), s[k])
    BY <1>1, <1>3, <1>10, HasAtFlatten DEF Text
  <2>2. Offset(s, k) \in Nat
    <3>1. k \in 1 .. Len(s) + 1
      BY <1>1
    <3> QED
      BY <1>2, <3>1 DEF Flattened
  <2>3. a + 10 + Offset(s, k) = a + FieldAt(r, k)
    BY <1>1, <1>11, <2>2 DEF FieldAt
  <2>4. s[k] = FieldLine(<<r.fields[k][1], r.fields[k][2]>>)
    BY <1>1, FieldLinesType
  <2> QED
    BY <2>1, <2>3, <2>4
<1> QED
  BY <1>6, <1>9, <1>12, <1>14, <1>15

-----------------------------------------------------------------------------

\* The number that stands for n, when there is one.
LEMMA NumeralValue ==
    ASSUME NEW n, \E d \in Digits : Numerals[d] = n
    PROVE  /\ Numeral(n) \in Digits /\ Numerals[Numeral(n)] = n
           /\ Numeral(n) \in Symbols /\ Numeral(n) \notin Marks
<1>1. Numeral(n) \in Digits /\ Numerals[Numeral(n)] = n
  BY DEF Numeral
<1> QED
  BY <1>1, ParserAssumption DEF Symbols

\* What is added to a size has no line feed, and begins with a semicolon.
LEMMA ExtensionType ==
    /\ Extension \in Text /\ Len(Extension) \in Nat
    /\ \A j \in 1 .. Len(Extension) : Extension[j] \in Symbols /\ Extension[j] # "lf"
    /\ Len(Extension) > 0 => Extension[1] = "semi"
<1>1. Len(Extension) \in Nat /\ Extension \in [1 .. Len(Extension) -> Symbols \ {"lf"}]
  BY WireAssumption
<1>2. \A j \in 1 .. Len(Extension) : Extension[j] \in Symbols /\ Extension[j] # "lf"
  BY <1>1
<1>3. Extension \in [1 .. Len(Extension) -> Symbols]
  BY <1>1, <1>2
<1>4. Extension \in Text
  BY <1>1, <1>3 DEF Text
<1>5. Len(Extension) > 0 => Extension # <<>>
  OBVIOUS
<1> QED
  BY <1>1, <1>2, <1>4, <1>5, WireAssumption

\* The line before a chunk.
LEMMA SizeLineType ==
    ASSUME NEW c, Numeral(Len(c)) \in Symbols
    PROVE  SizeLine(c) \in Text /\ Len(SizeLine(c)) = Len(Extension) + 3
<1>1. PICK d : d = <<Numeral(Len(c))>>
  OBVIOUS
<1>2. d \in Text /\ Len(d) = 1
  BY <1>1 DEF Text
<1>3. d \o Extension \in Text /\ Len(d \o Extension) = Len(d) + Len(Extension)
  BY <1>2, ExtensionType, TextConcat
<1>4. PICK s \in Text : s = d \o Extension
  BY <1>3
<1>5. Line(s) \in Text /\ Len(Line(s)) = Len(s) + 2
  BY LineType
<1>6. SizeLine(c) = Line(s)
  BY <1>1, <1>4 DEF SizeLine
<1>7. PICK m \in Nat : m = Len(Extension)
  BY ExtensionType
<1>8. Len(s) + 2 = m + 3
  BY <1>2, <1>3, <1>4, <1>7
<1> QED
  BY <1>5, <1>6, <1>7, <1>8, Zenon

\* The line before a chunk in a text.
LEMMA HasSizeLine ==
    ASSUME NEW w, Len(w) \in Nat, NEW a, NEW c, Numeral(Len(c)) \in Symbols,
           HasAt(w, a, SizeLine(c))
    PROVE  /\ w[a + 1] = Numeral(Len(c))
           /\ HasAt(w, a + 1, Extension)
           /\ w[a + Len(Extension) + 2] = "cr" /\ w[a + Len(Extension) + 3] = "lf"
<1>1. PICK d : d = <<Numeral(Len(c))>>
  OBVIOUS
<1>2. d \in Text /\ Len(d) = 1 /\ d[1] = Numeral(Len(c))
  BY <1>1 DEF Text
<1>3. d \o Extension \in Text /\ Len(d \o Extension) = Len(d) + Len(Extension)
  BY <1>2, ExtensionType, TextConcat
<1>4. PICK s \in Text : s = d \o Extension
  BY <1>3
<1>5. SizeLine(c) = Line(s)
  BY <1>1, <1>4 DEF SizeLine
<1>6. /\ HasAt(w, a, s)
      /\ w[a + Len(s) + 1] = "cr" /\ w[a + Len(s) + 2] = "lf"
  BY <1>5, HasLine
<1>7. HasAt(w, a, d) /\ HasAt(w, a + Len(d), Extension)
  BY <1>2, <1>4, <1>6, ExtensionType, HasAtConcat, Zenon DEF Text
<1>8. a \in Nat /\ w[a + 1] = Numeral(Len(c))
  BY <1>2, <1>7 DEF HasAt
<1>9. a + Len(s) + 1 = a + Len(Extension) + 2 /\ a + Len(s) + 2 = a + Len(Extension) + 3
  <2>1. PICK m \in Nat : m = Len(Extension)
    BY ExtensionType
  <2>2. Len(s) = m + 1
    BY <1>2, <1>3, <1>4, <2>1
  <2> QED
    BY <1>8, <2>1, <2>2
<1> QED
  BY <1>2, <1>6, <1>7, <1>8, <1>9

\* A chunk.
LEMMA ChunkType ==
    ASSUME NEW c \in Text, Numeral(Len(c)) \in Symbols
    PROVE  Chunk(c) \in Text /\ Len(Chunk(c)) = Len(Extension) + Len(c) + 5
<1>1. PICK s \in Text : s = SizeLine(c) /\ Len(s) = Len(Extension) + 3
  BY SizeLineType
<1>2. PICK t \in Text : t = Line(c) /\ Len(t) = Len(c) + 2
  BY LineType
<1>3. s \o t \in Text /\ Len(s \o t) = Len(s) + Len(t)
  BY TextConcat
<1>4. PICK m \in Nat : m = Len(Extension)
  BY ExtensionType
<1>5. PICK n \in Nat : n = Len(c)
  BY DEF Text
<1>6. Chunk(c) = s \o t
  BY <1>1, <1>2 DEF Chunk
<1>7. Len(s) + Len(t) = m + n + 5
  BY <1>1, <1>2, <1>4, <1>5
<1> QED
  BY <1>3, <1>4, <1>5, <1>6, <1>7, Zenon

ChunkIn(w, a, c) ==
    /\ HasAt(w, a, SizeLine(c))
    /\ HasAt(w, a + Len(Extension) + 3, c)
    /\ w[a + Len(Extension) + Len(c) + 4] = "cr"
    /\ w[a + Len(Extension) + Len(c) + 5] = "lf"

\* A chunk in a text.
LEMMA HasChunk ==
    ASSUME NEW w, Len(w) \in Nat, NEW a, NEW c \in Text, Numeral(Len(c)) \in Symbols,
           HasAt(w, a, Chunk(c))
    PROVE  ChunkIn(w, a, c)
<1>1. PICK s \in Text : s = SizeLine(c) /\ Len(s) = Len(Extension) + 3
  BY SizeLineType
<1>2. PICK t \in Text : t = Line(c) /\ Len(t) = Len(c) + 2
  BY LineType
<1>3. HasAt(w, a, s \o t)
  BY <1>1, <1>2 DEF Chunk
<1>4. HasAt(w, a, s) /\ HasAt(w, a + Len(s), t)
  BY <1>3, HasAtConcat, Zenon DEF Text
<1>5. PICK m \in Nat : m = Len(Extension)
  BY ExtensionType
<1>6. PICK n \in Nat : n = Len(c)
  BY DEF Text
<1>7. a \in Nat
  BY <1>4 DEF HasAt
<1>8. PICK b \in Nat : b = a + Len(s) /\ b = a + m + 3
  BY <1>1, <1>5, <1>7
<1>9. HasAt(w, b, c) /\ w[b + n + 1] = "cr" /\ w[b + n + 2] = "lf"
  <2>1. HasAt(w, b, Line(c))
    BY <1>2, <1>4, <1>8, Zenon
  <2>2. HasAt(w, b, c) /\ w[b + Len(c) + 1] = "cr" /\ w[b + Len(c) + 2] = "lf"
    BY <2>1, HasLine, Zenon
  <2> QED
    BY <1>6, <2>2, Zenon
<1>10. b + n + 1 = a + m + n + 4 /\ b + n + 2 = a + m + n + 5
  BY <1>7, <1>8
<1> QED
  BY <1>1, <1>4, <1>5, <1>6, <1>8, <1>9, <1>10, Zenon DEF ChunkIn

\* The responses that servers send.
Sendable == {r \in Response : Framed(r)}

\* The sizes of the chunks have numerals.
LEMMA SendableNumerals ==
    ASSUME NEW r \in Sendable, r.coding = "chunked"
    PROVE  /\ Numeral(0) \in Digits /\ Numerals[Numeral(0)] = 0
           /\ Numeral(0) \in Symbols \ Marks
           /\ \A k \in 1 .. Len(r.content) :
                 LET n == Len(r.content[k])
                 IN  /\ n \in Nat \ {0} /\ Numeral(n) \in Digits
                     /\ Numerals[Numeral(n)] = n /\ Numeral(n) \in Symbols \ Marks
<1>1. r \in Response /\ Delimited(r)
  BY DEF Sendable, Framed
<1>2. DOMAIN r.content = 1 .. Len(r.content)
  BY <1>1, ResponseParts
<1>3. /\ \E d \in Digits : Numerals[d] = 0
      /\ \A k \in 1 .. Len(r.content) : /\ r.content[k] # <<>>
                                       /\ \E d \in Digits : Numerals[d] = Len(r.content[k])
  BY <1>1, <1>2 DEF Delimited
<1>4. ASSUME NEW k \in 1 .. Len(r.content) PROVE Len(r.content[k]) \in Nat \ {0}
  <2>1. r.content[k] \in Text /\ r.content[k] # <<>>
    BY <1>1, <1>3, ResponseParts
  <2> QED
    BY <2>1 DEF Text
<1> QED
  BY <1>3, <1>4, NumeralValue

\* The chunks of a response, one behind the other.
LEMMA ChunksType ==
    ASSUME NEW r \in Sendable, r.coding = "chunked"
    PROVE  /\ Chunks(r) \in Seq(Text) /\ Len(Chunks(r)) = Len(r.content)
           /\ \A k \in 1 .. Len(r.content) : Chunks(r)[k] = Chunk(r.content[k])
<1>1. r \in Response /\ Len(r.content) \in Nat
  BY ResponseParts DEF Sendable
<1>2. ASSUME NEW k \in 1 .. Len(r.content) PROVE Chunk(r.content[k]) \in Text
  <2>1. r.content[k] \in Text /\ Numeral(Len(r.content[k])) \in Symbols
    BY <1>1, ResponseParts, SendableNumerals
  <2> QED
    BY <2>1, ChunkType
<1> QED
  BY <1>1, <1>2 DEF Chunks

\* The last chunk, or the line without a size.
LEMMA LastChunkType ==
    ASSUME NEW r \in Sendable, r.coding = "chunked"
    PROVE  /\ LastChunk(r) \in Text
           /\ Len(LastChunk(r)) = IF r.wellFormed THEN Len(Extension) + 3 ELSE 2
<1>1. PICK z : z = <<>> /\ Len(z) = 0
  OBVIOUS
<1>2. Numeral(Len(z)) \in Symbols
  BY <1>1, SendableNumerals
<1>3. SizeLine(z) \in Text /\ Len(SizeLine(z)) = Len(Extension) + 3
  BY <1>2, SizeLineType
<1> QED
  BY <1>1, <1>3, EmptyLine DEF LastChunk

\* Where the content and the chunks of a response begin.
LEMMA ContentOffsets ==
    ASSUME NEW r \in Response
    PROVE  /\ FlattenSeq(r.content) \in Text /\ Len(FlattenSeq(r.content)) \in Nat
           /\ Offset(r.content, 1) = 0
           /\ Offset(r.content, Len(r.content) + 1) = Len(FlattenSeq(r.content))
           /\ \A k \in 1 .. Len(r.content) + 1 :
                 Offset(r.content, k) \in Nat
           /\ \A k \in 1 .. Len(r.content) :
                 /\ Offset(r.content, k + 1) = Offset(r.content, k) + Len(r.content[k])
                 /\ Offset(r.content, k + 1) <= Len(FlattenSeq(r.content))
                 /\ \A j \in 1 .. Len(r.content[k]) :
                       FlattenSeq(r.content)[Offset(r.content, k) + j] = r.content[k][j]
<1>1. r.content \in Seq(Seq(Symbols)) /\ Len(r.content) \in Nat
  BY ResponseParts DEF Text
<1>2. Flattened(r.content, Symbols)
  BY <1>1, FlattenAt
<1>3. FlattenSeq(r.content) \in Text /\ Len(FlattenSeq(r.content)) \in Nat
  <2>1. PICK f \in Seq(Symbols) : f = FlattenSeq(r.content)
    BY <1>2 DEF Flattened
  <2> QED
    BY <2>1 DEF Text
<1>4. \A k \in 1 .. Len(r.content) : k + 1 \in 1 .. Len(r.content) + 1
  BY <1>1
<1> QED
  BY <1>2, <1>3, <1>4, Zenon DEF Flattened

\* Where its chunks begin, from the beginning of the message.
LEMMA ChunkOffsets ==
    ASSUME NEW r \in Sendable, r.coding = "chunked"
    PROVE  /\ ChunkAt(r, 1) = BodyAt(r)
           /\ ChunkAt(r, Len(r.content) + 1) = BodyAt(r) + Len(FlattenSeq(Chunks(r)))
           /\ Len(FlattenSeq(Chunks(r))) \in Nat
           /\ \A k \in 1 .. Len(r.content) + 1 : ChunkAt(r, k) \in Nat
           /\ \A k \in 1 .. Len(r.content) :
                 ChunkAt(r, k + 1) = ChunkAt(r, k) + Len(Extension) + Len(r.content[k]) + 5
<1>1. PICK s \in Seq(Text) : s = Chunks(r) /\ Len(s) = Len(r.content)
  BY ChunksType
<1>2. Flattened(s, Symbols)
  BY FlattenAt DEF Text
<1>3. BodyAt(r) \in Nat /\ r \in Response /\ Len(r.content) \in Nat
  BY HeadType, ResponseParts DEF Sendable
<1>4. PICK f \in Text : f = FlattenSeq(s)
  BY <1>2 DEF Flattened, Text
<1>5. Len(f) \in Nat
  BY DEF Text
<1>6. Offset(s, 1) = 0 /\ Offset(s, Len(r.content) + 1) = Len(f)
  BY <1>1, <1>2, <1>4 DEF Flattened
<1>7. \A k \in 1 .. Len(r.content) + 1 : Offset(s, k) \in Nat
  BY <1>1, <1>2 DEF Flattened
<1>8. ASSUME NEW k \in 1 .. Len(r.content)
      PROVE  ChunkAt(r, k + 1) = ChunkAt(r, k) + Len(Extension) + Len(r.content[k]) + 5
  <2>1. PICK c \in Text : c = r.content[k]
    BY <1>3, ResponseParts
  <2>2. Len(Chunk(c)) = Len(Extension) + Len(c) + 5
    BY <2>1, SendableNumerals, ChunkType
  <2>3. s[k] = Chunk(c)
    BY <1>1, <2>1, ChunksType
  <2>4. PICK m \in Nat : m = Len(Extension)
    BY ExtensionType
  <2>5. PICK n \in Nat : n = Len(c)
    BY DEF Text
  <2>6. PICK o \in Nat : o = Offset(s, k)
    BY <1>3, <1>7
  <2>7. PICK b \in Nat : b = BodyAt(r)
    BY <1>3
  <2>8. Offset(s, k + 1) = o + (m + n + 5)
    <3>1. Offset(s, k + 1) = Offset(s, k) + Len(s[k])
      BY <1>1, <1>2 DEF Flattened
    <3>2. Len(s[k]) = m + n + 5
      BY <2>2, <2>3, <2>4, <2>5
    <3> QED
      BY <2>6, <3>1, <3>2
  <2>9. ChunkAt(r, k + 1) = b + (o + (m + n + 5)) /\ ChunkAt(r, k) = b + o
    BY <1>1, <2>6, <2>7, <2>8 DEF ChunkAt
  <2>10. b + (o + (m + n + 5)) = b + o + m + n + 5
    OBVIOUS
  <2> QED
    BY <2>1, <2>4, <2>5, <2>9, <2>10, Zenon
<1>9. ChunkAt(r, 1) = BodyAt(r) /\ ChunkAt(r, Len(r.content) + 1) = BodyAt(r) + Len(f)
  BY <1>1, <1>3, <1>6 DEF ChunkAt
<1>10. \A k \in 1 .. Len(r.content) + 1 : ChunkAt(r, k) \in Nat
  BY <1>1, <1>3, <1>7 DEF ChunkAt
<1> QED
  BY <1>1, <1>4, <1>5, <1>8, <1>9, <1>10

\* A message, and a stream of them.
LEMMA BodyType ==
    ASSUME NEW r \in Sendable
    PROVE  BodyOf(r) \in Text /\ Len(BodyOf(r)) \in Nat
<1>1. r \in Response
  BY DEF Sendable
<1>2. CASE r.coding # "chunked"
  BY <1>1, <1>2, ContentOffsets DEF BodyOf
<1>3. CASE r.coding = "chunked"
  <2>1. PICK s \in Seq(Text) : s = Chunks(r)
    BY <1>3, ChunksType
  <2>2. Flattened(s, Symbols)
    BY FlattenAt DEF Text
  <2>3. PICK f \in Text : f = FlattenSeq(s)
    BY <2>2 DEF Flattened, Text
  <2>4. PICK t \in Text : t = LastChunk(r)
    BY <1>3, LastChunkType
  <2>5. PICK e \in Text : e = Line(<<>>)
    BY EmptyLine
  <2>6. PICK g \in Text : g = t \o e
    BY TextConcat
  <2>7. f \o g \in Text
    BY TextConcat
  <2>8. BodyOf(r) = f \o g
    BY <1>3, <2>1, <2>3, <2>4, <2>5, <2>6 DEF BodyOf
  <2>9. BodyOf(r) \in Text
    BY <2>7, <2>8
  <2> QED
    BY <2>9 DEF Text
<1> QED
  BY <1>2, <1>3

\* The length of a message.
LEMMA WireType ==
    ASSUME NEW r \in Sendable
    PROVE  Wire(r) \in Text /\ Len(Wire(r)) = BodyAt(r) + Len(BodyOf(r))
<1>1. PICK h \in Text : h = HeadOf(r)
  BY HeadType DEF Sendable
<1>2. PICK b \in Text : b = BodyOf(r)
  BY BodyType
<1>3. h \o b \in Text /\ Len(h \o b) = Len(h) + Len(b)
  BY TextConcat
<1> QED
  BY <1>1, <1>2, <1>3 DEF Wire, BodyAt

\* A message in a text.
LEMMA HasWire ==
    ASSUME NEW w, Len(w) \in Nat, NEW a, NEW r \in Sendable, HasAt(w, a, Wire(r))
    PROVE  HasAt(w, a, HeadOf(r)) /\ HasAt(w, a + BodyAt(r), BodyOf(r))
<1>1. PICK h \in Text : h = HeadOf(r)
  BY HeadType DEF Sendable
<1>2. PICK b \in Text : b = BodyOf(r)
  BY BodyType
<1>3. HasAt(w, a, h \o b)
  BY <1>1, <1>2 DEF Wire
<1>4. HasAt(w, a, h) /\ HasAt(w, a + Len(h), b)
  BY <1>3, HasAtConcat, Zenon DEF Text
<1> QED
  BY <1>1, <1>2, <1>4 DEF BodyAt

ChunksIn(w, a, r) ==
    /\ \A k \in 1 .. Len(r.content) : HasAt(w, a + ChunkAt(r, k), Chunk(r.content[k]))
    /\ HasAt(w, a + ChunkAt(r, Len(r.content) + 1), LastChunk(r))
    /\ LET e == a + ChunkAt(r, Len(r.content) + 1) + Len(LastChunk(r))
       IN  w[e + 1] = "cr" /\ w[e + 2] = "lf" /\ e + 2 = a + Len(Wire(r))

\* The chunks of a message in a text.
LEMMA HasChunks ==
    ASSUME NEW w, Len(w) \in Nat, NEW a \in Nat, NEW r \in Sendable, r.coding = "chunked",
           HasAt(w, a + BodyAt(r), BodyOf(r))
    PROVE  ChunksIn(w, a, r)
<1>1. PICK s \in Seq(Text) : s = Chunks(r) /\ Len(s) = Len(r.content)
  BY ChunksType
<1>2. Flattened(s, Symbols)
  BY FlattenAt DEF Text
<1>3. PICK f \in Text : f = FlattenSeq(s)
  BY <1>2 DEF Flattened, Text
<1>4. PICK t \in Text : t = LastChunk(r)
  BY LastChunkType
<1>5. PICK e \in Text : e = Line(<<>>) /\ Len(e) = 2 /\ e[1] = "cr" /\ e[2] = "lf"
  BY EmptyLine, Zenon
<1>6. t \o e \in Text /\ Len(t \o e) = Len(t) + Len(e) /\ Len(t) \in Nat
  BY TextConcat
<1>7. PICK g \in Text : g = t \o e
  BY <1>6
<1>8. f \o g \in Text /\ Len(f \o g) = Len(f) + Len(g) /\ Len(f) \in Nat
  BY TextConcat
<1>9. BodyOf(r) = f \o g
  BY <1>1, <1>3, <1>4, <1>5, <1>7 DEF BodyOf
<1>10. PICK b \in Nat : b = a + BodyAt(r)
  BY HeadType DEF Sendable
<1>11. HasAt(w, b, f) /\ HasAt(w, b + Len(f), g)
  <2>1. HasAt(w, b, f \o g)
    BY <1>9, <1>10, Zenon
  <2> QED
    BY <2>1, HasAtConcat, Zenon DEF Text
<1>12. HasAt(w, b + Len(f), t) /\ HasAt(w, b + Len(f) + Len(t), e)
  BY <1>7, <1>11, HasAtConcat, Zenon DEF Text
<1>13. b + Len(f) = a + ChunkAt(r, Len(r.content) + 1)
  <2>1. ChunkAt(r, Len(r.content) + 1) = BodyAt(r) + Len(f)
    BY <1>1, <1>3, ChunkOffsets
  <2> QED
    BY <1>8, <1>10, <2>1, HeadType DEF Sendable
<1>14. PICK d : d = b + Len(f) + Len(t)
  OBVIOUS
<1>15. HasAt(w, d, e)
  BY <1>12, <1>14, Zenon
<1>16. d \in Nat /\ w[d + 1] = "cr" /\ w[d + 2] = "lf"
  <2>1. d \in Nat /\ \A j \in 1 .. 2 : w[d + j] = e[j]
    BY <1>5, <1>15, Zenon DEF HasAt
  <2> QED
    BY <1>5, <2>1
<1>17. d + 2 = a + Len(Wire(r))
  <2>1. Len(BodyOf(r)) = Len(f) + (Len(t) + 2)
    BY <1>5, <1>6, <1>7, <1>8, <1>9
  <2>2. Len(Wire(r)) = BodyAt(r) + (Len(f) + (Len(t) + 2))
    BY <2>1, WireType
  <2>3. BodyAt(r) \in Nat
    BY HeadType DEF Sendable
  <2>4. PICK m \in Nat : m = Len(f)
    BY <1>8
  <2>5. PICK n \in Nat : n = Len(t)
    BY <1>6
  <2>6. PICK x \in Nat : x = BodyAt(r)
    BY <2>3
  <2>7. a + x + m + n + 2 = a + (x + (m + (n + 2)))
    OBVIOUS
  <2> QED
    BY <1>10, <1>14, <2>2, <2>4, <2>5, <2>6, <2>7, Zenon
<1>18. ASSUME NEW k \in 1 .. Len(r.content)
       PROVE  HasAt(w, a + ChunkAt(r, k), Chunk(r.content[k]))
  <2>1. HasAt(w, b + Offset(s, k), s[k])
    BY <1>1, <1>3, <1>11, HasAtFlatten DEF Text
  <2>2. PICK o \in Nat : o = Offset(s, k)
    <3>1. k \in 1 .. Len(s) + 1
      BY <1>1
    <3> QED
      BY <1>2, <3>1 DEF Flattened
  <2>3. ChunkAt(r, k) = BodyAt(r) + o /\ BodyAt(r) \in Nat
    BY <1>1, <2>2, HeadType DEF ChunkAt, Sendable
  <2>4. b + o = a + ChunkAt(r, k)
    BY <1>10, <2>3
  <2>5. s[k] = Chunk(r.content[k])
    BY <1>1, ChunksType
  <2> QED
    BY <2>1, <2>2, <2>4, <2>5, Zenon
<1> QED
  BY <1>4, <1>12, <1>13, <1>14, <1>16, <1>17, <1>18, Zenon DEF ChunksIn

\* Where the messages are in what was sent.
LEMMA WiresType ==
    ASSUME NEW rs \in Seq(Sendable)
    PROVE  /\ Wires(rs) \in Seq(Text) /\ Len(Wires(rs)) = Len(rs) /\ Len(rs) \in Nat
           /\ \A k \in 1 .. Len(rs) : Wires(rs)[k] = Wire(rs[k]) /\ rs[k] \in Sendable
<1>1. Len(rs) \in Nat /\ \A k \in 1 .. Len(rs) : rs[k] \in Sendable
  OBVIOUS
<1>2. \A k \in 1 .. Len(rs) : Wire(rs[k]) \in Text
  BY <1>1, WireType
<1> QED
  BY <1>1, <1>2 DEF Wires

-----------------------------------------------------------------------------
(***************************************************************************)
(* What is sent, what has arrived of it, and how far the loop of feed is.  *)
(***************************************************************************)
\* All that is sent, and where the responses are in it.
LEMMA WholeType ==
    ASSUME sent \in Seq(Sendable)
    PROVE  /\ Whole \in Text /\ Len(Whole) \in Nat
           /\ Start(1) = 0 /\ Start(Len(sent) + 1) = Len(Whole)
           /\ \A k \in 1 .. Len(sent) + 1 : Start(k) \in Nat /\ Start(k) <= Len(Whole)
           /\ \A k \in 1 .. Len(sent) :
                 /\ HasAt(Whole, Start(k), Wire(sent[k]))
                 /\ Start(k + 1) = Start(k) + Len(Wire(sent[k]))
<1>1. PICK s \in Seq(Text) : s = Wires(sent) /\ Len(s) = Len(sent)
  BY WiresType
<1>2. Flattened(s, Symbols)
  BY FlattenAt DEF Text
<1>3. PICK w \in Text : w = FlattenSeq(s) /\ w = Whole
  BY <1>1, <1>2 DEF Flattened, Whole, Text
<1>4. Len(w) \in Nat
  BY DEF Text
<1>5. \A k : Start(k) = Offset(s, k)
  BY <1>1 DEF Start
<1>6. /\ Start(1) = 0 /\ Start(Len(sent) + 1) = Len(w)
      /\ \A k \in 1 .. Len(sent) + 1 : Start(k) \in Nat /\ Start(k) <= Len(w)
  BY <1>1, <1>2, <1>3, <1>5, Zenon DEF Flattened
<1>7. HasAt(w, 0, FlattenSeq(s))
  BY <1>3, <1>4 DEF HasAt
<1>8. ASSUME NEW k \in 1 .. Len(sent)
      PROVE  HasAt(w, Start(k), Wire(sent[k])) /\ Start(k + 1) = Start(k) + Len(Wire(sent[k]))
  <2>1. s[k] = Wire(sent[k])
    BY <1>1, WiresType
  <2>2. HasAt(w, 0 + Offset(s, k), s[k])
    BY <1>1, <1>4, <1>7, HasAtFlatten DEF Text
  <2>3. k \in 1 .. Len(sent) + 1
    BY <1>1
  <2>4. 0 + Offset(s, k) = Offset(s, k)
    BY <1>5, <1>6, <2>3
  <2>5. Offset(s, k + 1) = Offset(s, k) + Len(s[k])
    BY <1>1, <1>2 DEF Flattened
  <2> QED
    BY <1>5, <2>1, <2>2, <2>4, <2>5, Zenon
<1> QED
  BY <1>3, <1>4, <1>6, <1>8, Zenon

\* The types of what is yet to be read.
LEMMA RestType ==
    ASSUME TypeOK
    PROVE  /\ data \in Text /\ stream \in Text /\ Len(data) \in Nat /\ Len(stream) \in Nat
           /\ i \in Nat /\ i >= 1 /\ i <= Len(data) + 2
<1>1. data \in Text /\ stream \in Text /\ i \in 1 .. Len(data) + 2
  BY DEF TypeOK
<1>2. Len(data) \in Nat /\ Len(stream) \in Nat
  BY <1>1 DEF Text
<1> QED
  BY <1>1, <1>2

\* The next byte, and the rest of the buffer.
LEMMA Ahead ==
    ASSUME TypeOK, sent \in Seq(Sendable), Arrived, i <= Len(data)
    PROVE  /\ Pos \in Nat /\ Left \in Nat \ {0} /\ Pos + Left <= Len(Whole)
           /\ Byte = Whole[Pos + 1]
           /\ \A j \in 1 .. Left : data[i + j - 1] = Whole[Pos + j]
<1>1. PICK w : w = Whole
  OBVIOUS
<1>2. Len(w) \in Nat
  BY <1>1, WholeType
<1>3. PICK d \in Nat : d = Len(data)
  BY RestType
<1>4. PICK s \in Nat : s = Len(stream)
  BY RestType
<1>5. PICK b \in Nat : b = Before
  BY DEF Arrived
<1>6. b = Len(w) - s - d
  BY <1>1, <1>3, <1>4, <1>5 DEF Before
<1>7. i \in 1 .. d
  BY <1>3, RestType
<1>8. Left = d - i + 1 /\ Pos = b + (i - 1)
  BY <1>3, <1>5, <1>7 DEF Left, Pos, Min2
<1>9. Pos \in Nat /\ Left \in Nat \ {0} /\ Pos + Left <= Len(w)
  BY <1>2, <1>6, <1>7, <1>8
<1>10. \A j \in 1 .. d : data[j] = w[b + j]
  BY <1>1, <1>3, <1>5 DEF Arrived
<1>11. ASSUME NEW j \in 1 .. Left PROVE data[i + j - 1] = w[Pos + j]
  <2>1. i + j - 1 \in 1 .. d /\ b + (i + j - 1) = Pos + j
    BY <1>7, <1>8
  <2> QED
    BY <1>10, <2>1
<1>12. Byte = w[Pos + 1]
  <2>1. 1 \in 1 .. Left /\ i + 1 - 1 = i
    BY <1>7, <1>9
  <2>2. data[i + 1 - 1] = w[Pos + 1]
    BY <1>11, <2>1
  <2> QED
    BY <2>1, <2>2 DEF Byte
<1> QED
  BY <1>1, <1>9, <1>11, <1>12, Zenon

\* What does not change when what was sent does not.
LEMMA SentStays ==
    ASSUME sent' = sent PROVE Whole' = Whole /\ \A k : Start(k)' = Start(k)
BY DEF Whole, Start

\* The loop goes on n bytes later.
LEMMA Advance ==
    ASSUME TypeOK, sent \in Seq(Sendable), Arrived, i <= Len(data),
           NEW n \in 1 .. Left + 1, NEW q, Go(n, q)
    PROVE  /\ Arrived' /\ Pos' = Pos + Min2(n, Left)
           /\ sent' = sent /\ Whole' = Whole /\ \A k : Start(k)' = Start(k)
<1>1. /\ i' = i + n /\ sent' = sent /\ stream' = stream /\ data' = data
  BY DEF Go
<1>2. Whole' = Whole /\ \A k : Start(k)' = Start(k)
  BY <1>1, SentStays
<1>3. Before' = Before
  BY <1>1, <1>2 DEF Before
<1>4. Arrived'
  BY <1>1, <1>2, <1>3 DEF Arrived
<1>5. Pos' = Pos + Min2(n, Left)
  <2>1. PICK d \in Nat : d = Len(data)
    BY RestType
  <2>2. PICK b \in Nat : b = Before
    BY DEF Arrived
  <2>3. i \in 1 .. d
    BY <2>1, RestType
  <2>4. Pos = b + (i - 1) /\ Left = d - i + 1
    BY <2>1, <2>2, <2>3 DEF Pos, Left, Min2
  <2>5. Pos' = b + Min2(i + n - 1, d)
    BY <1>1, <1>3, <2>1, <2>2, <2>3 DEF Pos, Min2
  <2> QED
    BY <2>3, <2>4, <2>5 DEF Min2
<1> QED
  BY <1>1, <1>2, <1>4, <1>5

\* A new buffer changes nothing.
LEMMA FeedArrives ==
    ASSUME TypeOK, sent \in Seq(Sendable), Arrived, NEW n \in Buffers, Feed(n)
    PROVE  /\ Arrived' /\ Pos' = Pos
           /\ sent' = sent /\ Whole' = Whole /\ \A k : Start(k)' = Start(k)
<1>1. /\ i > Len(data) /\ i' = 1 /\ sent' = sent /\ n \in Nat \ {0}
  BY ParserAssumption DEF Feed
<1>2. Whole' = Whole /\ \A k : Start(k)' = Start(k)
  BY <1>1, SentStays
<1>3. PICK w : w = Whole
  OBVIOUS
<1>4. Len(w) \in Nat
  BY <1>3, WholeType
<1>5. PICK d \in Nat : d = Len(data)
  BY RestType
<1>6. PICK s \in Nat : s = Len(stream)
  BY RestType
<1>7. PICK b \in Nat : b = Before
  BY DEF Arrived
<1>8. b = Len(w) - s - d
  BY <1>3, <1>5, <1>6, <1>7 DEF Before
<1>9. PICK m \in 0 .. s : m = Min2(n, s)
  BY <1>1 DEF Min2
<1>10. data' = SubSeq(stream, 1, m) /\ stream' = SubSeq(stream, m + 1, s)
  BY <1>6, <1>9 DEF Feed
<1>11. stream \in Seq(Symbols)
  BY DEF TypeOK, Text
<1>12. /\ Len(data') = m /\ \A j \in 1 .. m : data'[j] = stream[j]
  BY <1>6, <1>10, <1>11
<1>13. /\ Len(stream') = s - m /\ \A j \in 1 .. s - m : stream'[j] = stream[m + j]
  BY <1>6, <1>10, <1>11
<1>14. \A j \in 1 .. s : stream[j] = w[b + d + j]
  BY <1>3, <1>5, <1>6, <1>7 DEF Arrived
<1>15. Before' = b + d
  BY <1>2, <1>3, <1>4, <1>8, <1>12, <1>13 DEF Before
<1>16. ASSUME NEW j \in 1 .. m PROVE data'[j] = w[b + d + j]
  <2>1. j \in 1 .. s
    OBVIOUS
  <2> QED
    BY <1>12, <1>14, <2>1
<1>17. ASSUME NEW j \in 1 .. s - m PROVE stream'[j] = w[b + d + m + j]
  <2>1. m + j \in 1 .. s /\ b + d + (m + j) = b + d + m + j
    OBVIOUS
  <2>2. stream[m + j] = w[b + d + (m + j)]
    BY <1>14, <2>1
  <2> QED
    BY <1>13, <2>1, <2>2
<1>18. Arrived'
  BY <1>2, <1>3, <1>12, <1>13, <1>15, <1>16, <1>17 DEF Arrived
<1>19. Pos = b + d
  <2>1. i \in Nat /\ i > d
    BY <1>1, <1>5, RestType
  <2> QED
    BY <1>5, <1>7, <2>1 DEF Pos, Min2
<1>20. Pos' = b + d
  BY <1>1, <1>12, <1>15 DEF Pos, Min2
<1> QED
  BY <1>1, <1>2, <1>18, <1>19, <1>20

-----------------------------------------------------------------------------
(***************************************************************************)
(* The head of a response: the bytes of its first line and of its fields.  *)
(***************************************************************************)
\* What is read next depends on where the parser is.
LEMMA OnlyHead ==
    ASSUME ReadHead \/ ReadBody, p.at # "body"
    PROVE  /\ i <= Len(data)
           /\ p.at = "version" => ReadVersion
           /\ p.at = "statusCode" => ReadStatusCode
           /\ p.at = "statusMessage" => ReadStatusMessage
           /\ p.at = "headers" => \/ ReadColon \/ ReadField \/ ReadReturn
                                  \/ EndOfLine \/ EndOfHeaders \/ ReportLength
<1>1. ~ReadBody
  BY DEF ReadBody, ReadNoBody, ReadFixed, ReadUntilClose, ReadChunkSize, ReportChunkSize,
         BeginChunk, EndChunked, ReadChunkData, EndChunk, ChunkPart, More
<1>2. CASE ReadVersion
  BY <1>2 DEF ReadVersion, More
<1>3. CASE ReadStatusCode
  BY <1>3 DEF ReadStatusCode, More
<1>4. CASE ReadStatusMessage
  BY <1>4 DEF ReadStatusMessage, More
<1>5. CASE \/ ReadColon \/ ReadField \/ ReadReturn
           \/ EndOfLine \/ EndOfHeaders \/ ReportLength
  <2>1. i <= Len(data) /\ p.at = "headers"
    BY <1>5 DEF ReadColon, ReadField, ReadReturn, EndOfLine, EndOfHeaders, ReportLength, More
  <2> QED
    BY <1>5, <2>1
<1> QED
  BY <1>1, <1>2, <1>3, <1>4, <1>5, Zenon DEF ReadHead

\* A byte of the version ...
LEMMA VersionPhase ==
    ASSUME p \in Fields, NEW q, InVersion(p, q), ReadVersion, NEW r,
           q < 2 => Byte # "sp", q = 2 => Byte = "sp"
    PROVE  /\ Go(1, p') /\ out' = out
           /\ InVersion(p', q + 1) \/ InCode(r, p', q + 1)
<1>1. q \in -2 .. 2 /\ q \in Int
  BY DEF InVersion
<1>2. CASE q = 2
  <2>1. Read([p EXCEPT !.at = "statusCode", !.symbol = <<>>])
    BY <1>2 DEF ReadVersion
  <2>2. p' = [[p EXCEPT !.at = "statusCode", !.symbol = <<>>] EXCEPT !.prev = Byte]
    BY <2>1 DEF Read, Go
  <2>3. InCode(r, p', 3)
    BY <2>2 DEF Fields, InVersion, InCode, Plain
  <2> QED
    BY <1>2, <2>1, <2>2, <2>3 DEF Read
<1>3. CASE q < 2
  <2>1. Read(Append1)
    BY <1>1, <1>3 DEF ReadVersion
  <2>2. p' = [[p EXCEPT !.symbol = Append(@, Byte)] EXCEPT !.prev = Byte]
    BY <2>1 DEF Read, Go, Append1
  <2>3. InVersion(p', q + 1)
    BY <1>1, <1>3, <2>2 DEF Fields, InVersion, Plain
  <2> QED
    BY <2>1, <2>2, <2>3 DEF Read, Append1
<1> QED
  BY <1>1, <1>2, <1>3

\* ... of the status code, or the space behind it ...
LEMMA CodePhase ==
    ASSUME p \in Fields, NEW r \in Response, NEW q, InCode(r, p, q), ReadStatusCode,
           q = 3 => Byte = r.code, q = 4 => Byte = "sp"
    PROVE  /\ Go(1, p') /\ out' = out
           /\ InCode(r, p', q + 1) \/ InMessage(r, p', q + 1)
<1>1. CASE q = 3
  <2>1. Byte = r.code /\ r.code # "sp" /\ p.symbol = <<>>
    BY <1>1, ResponseParts DEF InCode, Codes
  <2>2. Read(Append1)
    BY <2>1 DEF ReadStatusCode
  <2>3. Append(p.symbol, Byte) = <<r.code>>
    BY <2>1
  <2>4. p' = [[p EXCEPT !.symbol = <<r.code>>] EXCEPT !.prev = Byte]
    BY <2>2, <2>3 DEF Read, Go, Append1
  <2>5. InCode(r, p', 4)
    BY <2>4 DEF Fields, InCode, Plain
  <2> QED
    BY <1>1, <2>2, <2>3, <2>4, <2>5 DEF Read, Append1
<1>2. CASE q = 4
  <2>1. Byte = "sp" /\ p.symbol = <<r.code>> /\ r.code \in Codes
    BY <1>2, ResponseParts DEF InCode
  <2>2. Number(p.symbol) = r.code
    BY <2>1 DEF Number
  <2> DEFINE l == IF Bodiless(r.code) THEN 0 ELSE p.length
             y == [p EXCEPT !.at = "statusMessage", !.symbol = <<>>,
                            !.statusCode = r.code, !.length = l]
  <2>3. Read(y)
    BY <2>1, <2>2 DEF ReadStatusCode
  <2>4. l = LengthOf(r.code)
    BY DEF Bodiless, LengthOf, InCode
  <2> HIDE DEF l
  <2>5. p' = [y EXCEPT !.prev = Byte]
    BY <2>3 DEF Read, Go
  <2>6. InMessage(r, p', 5)
    BY <2>4, <2>5 DEF Fields, InCode, InMessage, Plain
  <2> QED
    BY <1>2, <2>3, <2>5, <2>6 DEF Read
<1> QED
  BY <1>1, <1>2 DEF InCode

\* ... of the status message, or the line end behind it.
LEMMA MessagePhase ==
    ASSUME p \in Fields, NEW r \in Sendable, NEW q, InMessage(r, p, q), ReadStatusMessage,
           q < 8 => Byte \notin {"cr", "lf"}, q = 8 => Byte = "cr", q = 9 => Byte = "lf"
    PROVE  /\ Go(1, p') /\ out' = out
           /\ InMessage(r, p', q + 1) \/ InHeaders(r, p', q + 1)
<1>1. q \in 5 .. 9 /\ q \in Int
  BY DEF InMessage
<1>2. CASE q < 8
  <2>1. Read(Append1)
    BY <1>2 DEF ReadStatusMessage
  <2>2. p' = [[p EXCEPT !.symbol = Append(@, Byte)] EXCEPT !.prev = Byte]
    BY <2>1 DEF Read, Go, Append1
  <2>3. InMessage(r, p', q + 1)
    BY <1>1, <1>2, <2>2 DEF Fields, InMessage, Plain
  <2> QED
    BY <2>1, <2>2, <2>3 DEF Read, Append1
<1>3. CASE q = 8
  <2>1. Read(p) /\ Byte = "cr"
    BY <1>3 DEF ReadStatusMessage
  <2>2. p' = [p EXCEPT !.prev = "cr"]
    BY <2>1 DEF Read, Go
  <2>3. InMessage(r, p', 9)
    BY <2>2 DEF Fields, InMessage, Plain
  <2> QED
    BY <1>3, <2>1, <2>2, <2>3 DEF Read
<1>4. CASE q = 9
  <2> DEFINE y == [p EXCEPT !.at = "headers", !.symbol = <<>>]
  <2>1. Byte = "lf" /\ p.prev = "cr"
    BY <1>4 DEF InMessage
  <2>2. Read(y)
    BY <2>1 DEF ReadStatusMessage
  <2>3. p' = [y EXCEPT !.prev = "lf"]
    BY <2>1, <2>2 DEF Read, Go
  <2>4. FieldAt(r, 1) = 10 /\ 1 \in 1 .. Len(r.fields)
    <3>1. r \in Response /\ r.fields # <<>>
      BY DEF Sendable, Framed, CleanFields
    <3>2. r.fields \in Seq(Symbols \X Text)
      BY <3>1, ResponseParts
    <3> QED
      BY <3>1, <3>2, HeadType
  <2>5. HeadersTo(r, 1 - 1) = {}
    BY DEF HeadersTo
  <2>6. /\ p'.at = "headers" /\ Plain(p') /\ p'.name = <<>> /\ p'.headers = {}
        /\ p'.statusCode = r.code /\ p'.length = LengthOf(r.code)
        /\ p'.symbol = <<>> /\ p'.prev = "lf"
    BY <2>3 DEF Fields, InMessage, Plain
  <2>7. InField(r, p', 1, 0)
    BY <2>5, <2>6 DEF InField
  <2>8. 10 - FieldAt(r, 1) = 0
    BY <2>4
  <2>9. InHeaders(r, p', 10)
    BY <2>4, <2>6, <2>7, <2>8 DEF InHeaders
  <2> QED
    BY <1>4, <2>1, <2>2, <2>3, <2>9 DEF Read
<1> QED
  BY <1>1, <1>2, <1>3, <1>4

-----------------------------------------------------------------------------

\* Names in lower case are different when the names are.
LEMMA LowerSymbol ==
    ASSUME NEW c PROVE Lower(<<c>>) = <<LowerOf(c)>>
<1>1. PICK s : s = <<c>>
  OBVIOUS
<1>2. Len(s) = 1 /\ s[1] = c
  BY <1>1
<1>3. Lower(s) = [k \in 1 .. 1 |-> LowerOf(s[k])]
  BY <1>2 DEF Lower
<1>4. \A k \in 1 .. 1 : s[k] = c
  BY <1>2
<1> QED
  BY <1>1, <1>3, <1>4

\* A field more.
LEMMA FieldRead ==
    ASSUME NEW r \in Sendable, NEW k \in 1 .. Len(r.fields)
    PROVE  LET name == Lower(<<r.fields[k][1]>>)
               h    == HeadersTo(r, k - 1)
           IN  /\ name # <<>>
               /\ With(h, name, <<>>) = h \cup {<<name, <<>>>>}
               /\ With(h \cup {<<name, <<>>>>}, name, r.fields[k][2]) = HeadersTo(r, k)
<1> DEFINE n(j) == <<LowerOf(r.fields[j][1])>>
           h == HeadersTo(r, k - 1)
           v == r.fields[k][2]
<1>1. Len(r.fields) \in Nat /\ DOMAIN r.fields = 1 .. Len(r.fields) /\ CleanFields(r)
  BY ResponseParts DEF Sendable, Framed
<1>2. \A j \in 1 .. Len(r.fields) :
         LowerOf(r.fields[j][1]) = LowerOf(r.fields[k][1]) => j = k
  BY <1>1 DEF CleanFields
<1>3. \A j : Lower(<<r.fields[j][1]>>) = n(j)
  BY LowerSymbol
<1>4. h = {<<n(j), r.fields[j][2]>> : j \in 1 .. k - 1}
  BY <1>3 DEF HeadersTo
<1>5. HeadersTo(r, k) = {<<n(j), r.fields[j][2]>> : j \in 1 .. k}
  BY <1>3 DEF HeadersTo
<1>6. \A f \in h : f[1] # n(k)
  <2> SUFFICES ASSUME NEW j \in 1 .. k - 1 PROVE n(j) # n(k)
    BY <1>4
  <2>1. j \in 1 .. Len(r.fields) /\ j # k
    BY <1>1
  <2> QED
    BY <1>2, <2>1
<1>7. HeadersTo(r, k) = h \cup {<<n(k), v>>}
  BY <1>1, <1>4, <1>5
<1> HIDE DEF h, v, n
<1>8. Without(h, n(k)) = h /\ Without(h \cup {<<n(k), <<>>>>}, n(k)) = h
  <2>1. <<n(k), <<>>>>[1] = n(k)
    OBVIOUS
  <2> QED
    BY <1>6, <2>1 DEF Without
<1>9. n(k) # <<>>
  BY DEF n
<1> QED
  BY <1>3, <1>7, <1>8, <1>9 DEF With, h, v

\* Which step reads a byte among the fields.
LEMMA OnlyHeaders ==
    ASSUME \/ ReadColon \/ ReadField \/ ReadReturn \/ EndOfLine \/ EndOfHeaders \/ ReportLength
    PROVE  /\ Byte = "colon" => ReadColon
           /\ Byte = "cr" => ReadReturn
           /\ Byte = "lf" /\ p.endOfLine = 0 => EndOfLine
           /\ Byte = "lf" /\ p.endOfLine # 0 => EndOfHeaders \/ ReportLength
           /\ Byte \notin {"colon", "cr", "lf"} => ReadField
BY DEF ReadColon, ReadField, ReadReturn, EndOfLine, EndOfHeaders, ReportLength

\* What the bytes of a field are.
FieldByte(r, k, t, b) ==
    LET v == r.fields[k][2]
    IN  /\ t = 0 => b = r.fields[k][1]
        /\ t = 1 => b = "colon"
        /\ t = 2 => b = "sp"
        /\ t \in 3 .. Len(v) + 2 => b = v[t - 2]
        /\ t = Len(v) + 3 => b = "cr"
        /\ t = Len(v) + 4 => b = "lf"

\* The fields of p that the headers leave alone.
Kept(x, y) ==
    /\ y.at = x.at /\ y.chunk = x.chunk /\ y.extension = x.extension /\ y.read = x.read
    /\ y.chunkRead = x.chunkRead /\ y.statusCode = x.statusCode /\ y.length = x.length

\* The name of a field, ...
LEMMA NamePhase ==
    ASSUME p \in Fields, NEW r \in Sendable, NEW k \in 1 .. Len(r.fields), NEW t,
           InField(r, p, k, t), t = 0, FieldByte(r, k, t, Byte),
           \/ ReadColon \/ ReadField \/ ReadReturn \/ EndOfLine \/ EndOfHeaders \/ ReportLength
    PROVE  Go(1, p') /\ out' = out /\ Kept(p, p') /\ InField(r, p', k, 1)
<1>1. Byte = r.fields[k][1] /\ Byte \notin {"colon", "cr", "lf"}
  <2>1. CleanFields(r) /\ DOMAIN r.fields = 1 .. Len(r.fields)
    BY ResponseParts DEF Sendable, Framed
  <2> QED
    BY <2>1 DEF FieldByte, CleanFields
<1>2. /\ p.name = <<>> /\ p.symbol = <<>> /\ p.prev = "lf"
      /\ p.headers = HeadersTo(r, k - 1)
  BY DEF InField
<1>3. Read([Append1 EXCEPT !.endOfLine = 0])
  BY <1>1, <1>2, OnlyHeaders DEF ReadField
<1>4. Append(p.symbol, Byte) = <<r.fields[k][1]>>
  BY <1>1, <1>2
<1>5. p' = [p EXCEPT !.symbol = <<r.fields[k][1]>>, !.endOfLine = 0, !.prev = Byte]
  BY <1>3, <1>4 DEF Read, Go, Append1, Fields
<1>6. Kept(p, p') /\ InField(r, p', k, 1)
  BY <1>2, <1>5 DEF Fields, Kept, InField
<1> QED
  BY <1>3, <1>5, <1>6 DEF Read, Go

\* ... the colon, ...
LEMMA ColonPhase ==
    ASSUME p \in Fields, NEW r \in Sendable, NEW k \in 1 .. Len(r.fields), NEW t,
           InField(r, p, k, t), t = 1, FieldByte(r, k, t, Byte),
           \/ ReadColon \/ ReadField \/ ReadReturn \/ EndOfLine \/ EndOfHeaders \/ ReportLength
    PROVE  Go(1, p') /\ out' = out /\ Kept(p, p') /\ InField(r, p', k, 2)
<1>1. Byte = "colon" /\ ReadColon
  BY OnlyHeaders DEF FieldByte
<1> DEFINE name == Lower(<<r.fields[k][1]>>)
           h == HeadersTo(r, k - 1)
<1>2. p.name = <<>> /\ p.symbol = <<r.fields[k][1]>> /\ p.headers = h
  BY DEF InField
<1>3. Len(r.fields[k][2]) \in Nat
  BY ResponseParts DEF Sendable, Text
<1>4. With(h, name, <<>>) = h \cup {<<name, <<>>>>} /\ 2 \in 2 .. Len(r.fields[k][2]) + 4
  <2>1. With(h, name, <<>>) = h \cup {<<name, <<>>>>}
    BY FieldRead, Zenon
  <2> QED
    BY <1>3, <2>1
<1>5. Read([p EXCEPT !.endOfLine = 0, !.name = name, !.symbol = <<>>,
                     !.headers = With(p.headers, name, <<>>)])
  BY <1>1, <1>2 DEF ReadColon
<1> HIDE DEF name, h
<1>6. p' = [p EXCEPT !.endOfLine = 0, !.name = name, !.symbol = <<>>,
                     !.headers = h \cup {<<name, <<>>>>}, !.prev = "colon"]
  BY <1>1, <1>2, <1>4, <1>5 DEF Read, Go, Fields
<1>7. /\ p'.endOfLine = 0 /\ p'.name = name /\ p'.symbol = <<>>
      /\ p'.headers = h \cup {<<name, <<>>>>} /\ p'.prev = "colon" /\ Kept(p, p')
  BY <1>6 DEF Fields, Kept
<1>8. InField(r, p', k, 2)
  BY <1>3, <1>4, <1>7 DEF InField, name, h
<1> QED
  BY <1>5, <1>7, <1>8 DEF Read, Go

\* ... the space, ...
LEMMA SpacePhase ==
    ASSUME p \in Fields, NEW r \in Sendable, NEW k \in 1 .. Len(r.fields), NEW t,
           InField(r, p, k, t), t = 2, FieldByte(r, k, t, Byte),
           \/ ReadColon \/ ReadField \/ ReadReturn \/ EndOfLine \/ EndOfHeaders \/ ReportLength
    PROVE  Go(1, p') /\ out' = out /\ Kept(p, p') /\ InField(r, p', k, 3)
<1>1. Byte = "sp" /\ ReadField
  BY OnlyHeaders DEF FieldByte
<1>2. PICK v \in Text : v = r.fields[k][2]
  BY ResponseParts DEF Sendable
<1>3. Len(v) \in Nat /\ SubSeq(v, 1, 3 - 3) = <<>> /\ (3 = Len(v) + 4 => FALSE)
  BY DEF Text
<1> DEFINE name == Lower(<<r.fields[k][1]>>)
           h == HeadersTo(r, k - 1) \cup {<<name, <<>>>>}
<1>4. p.name = name /\ p.symbol = <<>> /\ p.prev = "colon" /\ p.headers = h
  BY <1>2, <1>3 DEF InField
<1>5. Read([p EXCEPT !.endOfLine = 0])
  BY <1>1, <1>4 DEF ReadField
<1> HIDE DEF name, h
<1>6. p' = [p EXCEPT !.endOfLine = 0, !.prev = "sp"]
  BY <1>1, <1>5 DEF Read, Go, Fields
<1>7. /\ p'.endOfLine = 0 /\ p'.name = name /\ p'.symbol = <<>>
      /\ p'.headers = h /\ p'.prev = "sp" /\ Kept(p, p')
  BY <1>4, <1>6 DEF Fields, Kept
<1>8. InField(r, p', k, 3)
  BY <1>2, <1>3, <1>7 DEF InField, name, h
<1> QED
  BY <1>5, <1>7, <1>8 DEF Read, Go

\* ... the value, ...
LEMMA ValuePhase ==
    ASSUME p \in Fields, NEW r \in Sendable, NEW k \in 1 .. Len(r.fields),
           NEW t \in 3 .. Len(r.fields[k][2]) + 2,
           InField(r, p, k, t), FieldByte(r, k, t, Byte),
           \/ ReadColon \/ ReadField \/ ReadReturn \/ EndOfLine \/ EndOfHeaders \/ ReportLength
    PROVE  Go(1, p') /\ out' = out /\ Kept(p, p') /\ InField(r, p', k, t + 1)
<1>1. PICK v \in Text : v = r.fields[k][2]
  BY ResponseParts DEF Sendable
<1>2. PICK n \in Nat : n = Len(v)
  BY DEF Text
<1>3. t \in 3 .. n + 2 /\ t - 2 \in 1 .. n
  BY <1>1, <1>2
<1>4. Byte = v[t - 2]
  BY <1>1, <1>2, <1>3 DEF FieldByte
<1>5. Byte \notin {"cr", "lf"}
  <2>1. CleanFields(r) /\ DOMAIN r.fields = 1 .. Len(r.fields)
    BY ResponseParts DEF Sendable, Framed
  <2>2. ToSet(v) \cap {"cr", "lf"} = {}
    BY <1>1, <2>1 DEF CleanFields
  <2>3. v[t - 2] \in ToSet(v)
    BY <1>2, <1>3 DEF ToSet, Text
  <2> QED
    BY <1>4, <2>2, <2>3
<1> DEFINE name == Lower(<<r.fields[k][1]>>)
           h == HeadersTo(r, k - 1) \cup {<<name, <<>>>>}
<1>6. /\ p.name = name /\ p.headers = h /\ p.symbol = SubSeq(v, 1, t - 3)
      /\ t = 3 => p.prev = "sp"
  BY <1>1, <1>2, <1>3 DEF InField
<1>7. name # <<>>
  BY FieldRead
<1>8. p.symbol = <<>> => t = 3
  <2>1. Len(SubSeq(v, 1, t - 3)) = t - 3
    BY <1>2, <1>3 DEF Text
  <2> QED
    BY <1>6, <2>1
<1>9. Read([Append1 EXCEPT !.endOfLine = 0])
  <2>1. CASE Byte = "colon"
    BY <1>6, <1>7, <2>1, OnlyHeaders DEF ReadColon
  <2>2. CASE Byte # "colon"
    BY <1>5, <1>6, <1>8, <2>2, OnlyHeaders DEF ReadField
  <2> QED
    BY <2>1, <2>2
<1>10. Append(SubSeq(v, 1, t - 3), v[t - 2]) = SubSeq(v, 1, t - 2)
  <2>1. /\ SubSeq(v, 1, t - 3) \in Seq(Symbols) /\ SubSeq(v, 1, t - 2) \in Seq(Symbols)
        /\ Len(SubSeq(v, 1, t - 3)) = t - 3 /\ Len(SubSeq(v, 1, t - 2)) = t - 2
        /\ v[t - 2] \in Symbols
        /\ \A j \in 1 .. t - 3 : SubSeq(v, 1, t - 3)[j] = v[j]
        /\ \A j \in 1 .. t - 2 : SubSeq(v, 1, t - 2)[j] = v[j]
    BY <1>2, <1>3 DEF Text
  <2> QED
    BY <1>3, <2>1
<1> HIDE DEF name, h
<1>11. p' = [p EXCEPT !.symbol = SubSeq(v, 1, t - 2), !.endOfLine = 0, !.prev = Byte]
  BY <1>4, <1>6, <1>9, <1>10 DEF Read, Go, Append1, Fields
<1>12. /\ p'.endOfLine = 0 /\ p'.name = name /\ p'.symbol = SubSeq(v, 1, t - 2)
       /\ p'.headers = h /\ Kept(p, p')
  BY <1>6, <1>11 DEF Fields, Kept
<1>13. t + 1 - 3 = t - 2 /\ t + 1 \in 4 .. n + 3
  BY <1>3
<1>14. InField(r, p', k, t + 1)
  BY <1>1, <1>2, <1>12, <1>13 DEF InField, name, h
<1> QED
  BY <1>9, <1>12, <1>14 DEF Read, Go

\* ... the return ...
LEMMA ReturnPhase ==
    ASSUME p \in Fields, NEW r \in Sendable, NEW k \in 1 .. Len(r.fields),
           NEW t, t = Len(r.fields[k][2]) + 3,
           InField(r, p, k, t), FieldByte(r, k, t, Byte),
           \/ ReadColon \/ ReadField \/ ReadReturn \/ EndOfLine \/ EndOfHeaders \/ ReportLength
    PROVE  Go(1, p') /\ out' = out /\ Kept(p, p') /\ InField(r, p', k, t + 1)
<1>1. PICK v \in Text : v = r.fields[k][2]
  BY ResponseParts DEF Sendable
<1>2. PICK n \in Nat : n = Len(v)
  BY DEF Text
<1>3. t = n + 3 /\ t \in Nat
  BY <1>1, <1>2
<1>4. Byte = "cr" /\ ReadReturn
  BY OnlyHeaders DEF FieldByte
<1> DEFINE name == Lower(<<r.fields[k][1]>>)
           h == HeadersTo(r, k - 1) \cup {<<name, <<>>>>}
<1>5. SubSeq(v, 1, t - 3) = v
  <2>1. t - 3 = Len(v)
    BY <1>2, <1>3
  <2> QED
    BY <2>1 DEF Text
<1>6. p.name = name /\ p.headers = h /\ p.symbol = v /\ p.endOfLine = 0
  <2>1. t \in 3 .. n + 3 /\ t # 0 /\ t # 1
    BY <1>3
  <2>2. /\ p.name = name /\ p.headers = h /\ p.endOfLine = 0
        /\ p.symbol = SubSeq(v, 1, t - 3)
    BY <1>1, <1>2, <2>1, Zenon DEF InField
  <2> QED
    BY <1>5, <2>2
<1>7. Read(p)
  BY <1>4 DEF ReadReturn
<1> HIDE DEF name, h
<1>8. p' = [p EXCEPT !.prev = "cr"]
  BY <1>4, <1>7 DEF Read, Go
<1>9. /\ p'.endOfLine = 0 /\ p'.name = name /\ p'.symbol = v
      /\ p'.headers = h /\ Kept(p, p')
  BY <1>6, <1>8 DEF Fields, Kept
<1>10. t + 1 = n + 4 /\ t + 1 \in 4 .. n + 4 /\ t + 1 \notin 3 .. n + 3
  BY <1>3
<1>11. InField(r, p', k, t + 1)
  BY <1>1, <1>2, <1>9, <1>10 DEF InField, name, h
<1> QED
  BY <1>7, <1>9, <1>11 DEF Read, Go

\* ... and the line feed.
LEMMA LineEndPhase ==
    ASSUME p \in Fields, NEW r \in Sendable, NEW k \in 1 .. Len(r.fields),
           NEW t, t = Len(r.fields[k][2]) + 4,
           InField(r, p, k, t), FieldByte(r, k, t, Byte),
           \/ ReadColon \/ ReadField \/ ReadReturn \/ EndOfLine \/ EndOfHeaders \/ ReportLength
    PROVE  /\ Go(1, p') /\ out' = out /\ Kept(p, p')
           /\ p'.name = <<>> /\ p'.symbol = <<>> /\ p'.endOfLine = 1 /\ p'.prev = "lf"
           /\ p'.headers = HeadersTo(r, k)
<1>1. PICK v \in Text : v = r.fields[k][2]
  BY ResponseParts DEF Sendable
<1>2. PICK n \in Nat : n = Len(v)
  BY DEF Text
<1>3. t = n + 4 /\ t \in Nat
  BY <1>1, <1>2
<1> DEFINE name == Lower(<<r.fields[k][1]>>)
           h == HeadersTo(r, k - 1) \cup {<<name, <<>>>>}
<1>4. p.name = name /\ p.headers = h /\ p.symbol = v /\ p.endOfLine = 0
  BY <1>1, <1>2, <1>3 DEF InField
<1>5. Byte = "lf" /\ EndOfLine
  BY <1>4, OnlyHeaders DEF FieldByte
<1>6. With(h, name, v) = HeadersTo(r, k)
  BY <1>1, FieldRead
<1>7. Read([p EXCEPT !.endOfLine = 1, !.headers = With(p.headers, p.name, p.symbol),
                     !.name = <<>>, !.symbol = <<>>])
  BY <1>5 DEF EndOfLine
<1>8. With(p.headers, p.name, p.symbol) = HeadersTo(r, k)
  BY <1>4, <1>6, Zenon
<1> HIDE DEF name, h
<1>9. p' = [p EXCEPT !.endOfLine = 1, !.headers = HeadersTo(r, k),
                     !.name = <<>>, !.symbol = <<>>, !.prev = "lf"]
  BY <1>5, <1>7, <1>8 DEF Read, Go, Fields
<1> QED
  BY <1>7, <1>9 DEF Read, Go, Fields, Kept

-----------------------------------------------------------------------------
(***************************************************************************)
(* The end of the head, where the response is announced.                   *)
(***************************************************************************)
\* All the fields read are the fields of the response.
LEMMA HeadersRead ==
    ASSUME NEW r \in Response PROVE HeadersTo(r, Len(r.fields)) = FieldsOf(r)
<1>1. DOMAIN r.fields = 1 .. Len(r.fields)
  BY ResponseParts
<1>2. ToSet(r.fields) = {r.fields[j] : j \in 1 .. Len(r.fields)}
  BY <1>1 DEF ToSet
<1> QED
  BY <1>2 DEF HeadersTo, FieldsOf

\* The parser finds out how the body is delimited.
LEMMA Delimiting ==
    ASSUME NEW r \in Sendable, p.headers = FieldsOf(r), p.length = LengthOf(r.code)
    PROVE  /\ IsChunked <=> r.coding = "chunked"
           /\ InvalidLength <=> r.coding = "length" /\ ~r.wellFormed
           /\ ~InvalidLength => BodyLength = SizeOf(r)
           /\ HeadersOf(r) = IF HasEncoding THEN With(Without(p.headers, ContentLength),
                                                      TransferEncoding, Encoding)
                             ELSE p.headers
<1>1. r \in Response /\ r.coding = CodingOf(r) /\ Delimited(r)
  BY DEF Sendable, Framed
<1>2. Len(<<>>) = 0
  OBVIOUS
<1>3. CASE TransferEncoding \in Names(FieldsOf(r))
  <2>1. r.coding = IF "chunked" \in ToSet(Lower(Value(FieldsOf(r), TransferEncoding)))
                   THEN "chunked" ELSE "close"
    BY <1>1, <1>3, Zenon DEF CodingOf
  <2>2. HasEncoding /\ Encoding = Lower(Value(FieldsOf(r), TransferEncoding)) /\ ~HasLength
    BY <1>3 DEF HasEncoding, Encoding, HasLength
  <2>3. IsChunked <=> r.coding = "chunked"
    BY <2>1, <2>2 DEF IsChunked
  <2>4. ~InvalidLength /\ r.coding # "length" /\ BodyLength = Undefined
    BY <2>1, <2>2 DEF InvalidLength, BodyLength
  <2>5. SizeOf(r) = Undefined
    BY <2>1 DEF SizeOf, ModeOf
  <2>6. HeadersOf(r) = With(Without(p.headers, ContentLength), TransferEncoding, Encoding)
    BY <1>3, <2>2 DEF HeadersOf
  <2> QED
    BY <2>2, <2>3, <2>4, <2>5, <2>6
<1>4. CASE TransferEncoding \notin Names(FieldsOf(r)) /\ ContentLength \in Names(FieldsOf(r))
  <2>1. r.coding = "length"
    BY <1>1, <1>4 DEF CodingOf
  <2>2. ~HasEncoding /\ HasLength /\ ~IsChunked
    BY <1>4 DEF HasEncoding, HasLength, IsChunked
  <2>3. /\ r.wellFormed <=> IsNumber(Value(FieldsOf(r), ContentLength))
        /\ r.wellFormed =>
              ParseInt(Value(FieldsOf(r), ContentLength)) = Len(FlattenSeq(r.content))
    BY <1>1, <2>1, Zenon DEF Delimited
  <2>4. InvalidLength <=> ~r.wellFormed
    BY <2>2, <2>3 DEF InvalidLength
  <2>5. SizeOf(r) = Len(FlattenSeq(r.content))
    BY <2>1 DEF SizeOf, ModeOf
  <2>6. ~InvalidLength => BodyLength = SizeOf(r)
    BY <2>2, <2>3, <2>4, <2>5 DEF BodyLength
  <2>7. HeadersOf(r) = p.headers
    BY <1>4 DEF HeadersOf
  <2> QED
    BY <2>1, <2>2, <2>4, <2>6, <2>7
<1>5. CASE TransferEncoding \notin Names(FieldsOf(r)) /\ ContentLength \notin Names(FieldsOf(r))
  <2>1. r.coding = IF r.code \in {"100", "204", "304", "302", "307"} THEN "none" ELSE "close"
    BY <1>1, <1>5 DEF CodingOf
  <2>2. ~HasEncoding /\ ~HasLength /\ ~IsChunked /\ ~InvalidLength
    BY <1>5 DEF HasEncoding, HasLength, IsChunked, InvalidLength
  <2>3. BodyLength = LengthOf(r.code)
    BY <2>2 DEF BodyLength
  <2>4. r.coding = "none" => SizeOf(r) = 0
    BY <1>1, <1>2 DEF SizeOf, ModeOf, Delimited
  <2>5. r.coding = "close" => SizeOf(r) = Undefined
    BY DEF SizeOf, ModeOf
  <2>6. LengthOf(r.code) = SizeOf(r)
    BY <2>1, <2>4, <2>5 DEF LengthOf
  <2>7. HeadersOf(r) = p.headers
    BY <1>5 DEF HeadersOf
  <2> QED
    BY <2>1, <2>2, <2>3, <2>6, <2>7
<1> QED
  BY <1>3, <1>4, <1>5

\* A response that was announced, before its body.
LEMMA Beginning ==
    ASSUME NEW r \in Sendable, NEW x, NEW o,
           r.coding = "length" => r.wellFormed,
           x.at = "body", Plain(x), x.symbol = <<>>,
           x.chunked <=> r.coding = "chunked", x.length = SizeOf(r),
           Says(o, r, 0)
    PROVE  InBody(r, x, BodyAt(r), o)
<1>1. r \in Response /\ r.coding \in {"length", "chunked", "close", "none"} /\ Delimited(r)
  BY DEF Sendable, Framed, Response
<1>2. BodyAt(r) \in Nat
  BY <1>1, HeadType
<1>3. BodyAt(r) - BodyAt(r) = 0
  BY <1>2
<1>4. CASE r.coding \in {"length", "none"}
  <2>1. /\ ModeOf(r) = "FIXED" /\ r.wellFormed /\ SizeOf(r) = Len(FlattenSeq(r.content))
    BY <1>1, <1>4 DEF ModeOf, SizeOf, Delimited
  <2>2. Len(FlattenSeq(r.content)) \in Nat
    BY <1>1, ContentOffsets
  <2>3. x.read = 0 /\ ~x.chunked
    BY <1>4 DEF Plain
  <2>4. InFixed(r, x, BodyAt(r), o)
    BY <1>3, <2>1, <2>2, <2>3 DEF InFixed
  <2> QED
    BY <2>4 DEF InBody
<1>5. CASE r.coding = "close"
  <2>1. ModeOf(r) = "UNTIL_CLOSE" /\ SizeOf(r) = Undefined /\ r.wellFormed
    BY <1>1, <1>5 DEF ModeOf, SizeOf, Delimited
  <2>2. InClose(r, x, o)
    BY <1>5, <2>1 DEF InClose, Says, Begun
  <2> QED
    BY <2>2 DEF InBody
<1>6. CASE r.coding = "chunked"
  <2>1. ModeOf(r) = "CHUNKED" /\ x.length = Undefined /\ x.chunked
    BY <1>6 DEF ModeOf, SizeOf
  <2>2. /\ ChunkAt(r, 1) = BodyAt(r) /\ Len(r.content) \in Nat
        /\ Offset(r.content, 1) = 0 /\ Len(Extension) \in Nat
    BY <1>1, <1>6, ChunkOffsets, ContentOffsets, ResponseParts, ExtensionType
  <2>3. \A d : InSize(x, 0, d)
    BY <2>2 DEF InSize, Plain
  <2>4. CASE Len(r.content) > 0
    <3>1. 1 \in 1 .. Len(r.content)
      BY <2>2, <2>4
    <3>2. InChunk(r, x, 1, 0, o)
      BY <2>2, <2>3 DEF InChunk
    <3>3. InChunks(r, x, BodyAt(r), o)
      BY <1>3, <2>1, <2>2, <3>1, <3>2, Zenon DEF InChunks
    <3> QED
      BY <3>3 DEF InBody
  <2>5. CASE Len(r.content) = 0
    <3>1. Len(FlattenSeq(r.content)) = 0 /\ ChunkAt(r, Len(r.content) + 1) = BodyAt(r)
      <4>1. Offset(r.content, Len(r.content) + 1) = Len(FlattenSeq(r.content))
        BY <1>1, ContentOffsets
      <4> QED
        BY <2>2, <2>5, <4>1
    <3>2. InLast(r, x, 0, o)
      BY <2>3, <3>1 DEF InLast, Plain
    <3>3. InChunks(r, x, BodyAt(r), o)
      BY <1>3, <2>1, <3>1, <3>2, Zenon DEF InChunks
    <3> QED
      BY <3>3 DEF InBody
  <2> QED
    BY <2>2, <2>4, <2>5
<1> QED
  BY <1>1, <1>4, <1>5, <1>6

\* The line after the fields: a return, ...
LEMMA BlankReturnPhase ==
    ASSUME p \in Fields, NEW r \in Sendable, NEW q, InBlank(r, p, q), q = BodyAt(r) - 2,
           Byte = "cr",
           \/ ReadColon \/ ReadField \/ ReadReturn \/ EndOfLine \/ EndOfHeaders \/ ReportLength
    PROVE  Go(1, p') /\ out' = out /\ Kept(p, p') /\ InBlank(r, p', q + 1)
<1>1. BodyAt(r) \in Nat
  BY HeadType DEF Sendable
<1>2. Read(p)
  BY OnlyHeaders DEF ReadReturn
<1>3. p' = [p EXCEPT !.prev = "cr"]
  BY <1>2 DEF Read, Go
<1>4. /\ p'.name = <<>> /\ p'.symbol = <<>> /\ p'.endOfLine = 1
      /\ p'.headers = HeadersTo(r, Len(r.fields)) /\ Kept(p, p')
  BY <1>3 DEF Fields, InBlank, Kept
<1>5. q + 1 = BodyAt(r) - 1
  BY <1>1
<1> QED
  BY <1>2, <1>3, <1>4, <1>5 DEF InBlank, Read, Go

\* ... and a line feed, which ends the head.
LEMMA BlankEndPhase ==
    ASSUME p \in Fields, NEW r \in Sendable, NEW q, InBlank(r, p, q), q = BodyAt(r) - 1,
           Byte = "lf", p.at = "headers", Plain(p),
           p.statusCode = r.code, p.length = LengthOf(r.code),
           \/ ReadColon \/ ReadField \/ ReadReturn \/ EndOfLine \/ EndOfHeaders \/ ReportLength
    PROVE  /\ Go(1, p')
           /\ \/ \E o : out' = Append(out, o) /\ InBody(r, p', BodyAt(r), o)
              \/ /\ \E o : out' = Append(out, o) /\ Failed(o)
                 /\ ~r.wellFormed /\ p'.at # "body"
<1>1. /\ p.headers = FieldsOf(r) /\ p.symbol = <<>> /\ p.endOfLine # 0
  BY HeadersRead DEF InBlank, Sendable
<1>2. EndOfHeaders \/ ReportLength
  BY <1>1, OnlyHeaders
<1>3. CASE ReportLength
  <2>1. InvalidLength /\ Go(1, Fresh)
        /\ out' = Append(out, [Announced(Fresh) EXCEPT !.ended = TRUE, !.error = TRUE])
    BY <1>3 DEF ReportLength
  <2>2. ~r.wellFormed
    BY <1>1, <2>1, Delimiting
  <2>3. Failed([Announced(Fresh) EXCEPT !.ended = TRUE, !.error = TRUE])
    BY DEF Announced, Failed
  <2>4. p' = Fresh /\ Fresh.at = "version"
    BY <2>1 DEF Go, Fresh
  <2> QED
    BY <2>1, <2>2, <2>3, <2>4
<1>4. CASE EndOfHeaders
  <2> DEFINE y == [p EXCEPT !.at = "body", !.endOfLine = 0, !.name = <<>>, !.prev = Byte,
                   !.headers = IF HasEncoding
                               THEN With(Without(@, ContentLength), TransferEncoding, Encoding)
                               ELSE @,
                   !.chunked = IsChunked, !.length = BodyLength]
  <2>1. ~InvalidLength /\ Go(1, y) /\ out' = Append(out, Announced(y))
    BY <1>4 DEF EndOfHeaders
  <2>2. /\ IsChunked <=> r.coding = "chunked"
        /\ r.coding = "length" => r.wellFormed
        /\ BodyLength = SizeOf(r)
        /\ HeadersOf(r) = IF HasEncoding THEN With(Without(p.headers, ContentLength),
                                                   TransferEncoding, Encoding)
                          ELSE p.headers
    BY <1>1, <2>1, Delimiting
  <2>3. y = [p EXCEPT !.at = "body", !.endOfLine = 0, !.name = <<>>, !.prev = Byte,
                      !.headers = HeadersOf(r), !.chunked = IsChunked, !.length = SizeOf(r)]
    BY <2>2 DEF Fields
  <2> HIDE DEF y
  <2>4. IsChunked \in BOOLEAN
    BY DEF IsChunked, HasEncoding
  <2>5. /\ y.at = "body" /\ Plain(y) /\ y.symbol = <<>> /\ y.headers = HeadersOf(r)
        /\ y.chunked = IsChunked /\ y.length = SizeOf(r) /\ y.statusCode = r.code
    BY <1>1, <2>3 DEF Fields, Plain
  <2>6. Mode(y) = ModeOf(r)
    <3>1. r \in Response /\ r.coding \in {"length", "chunked", "close", "none"}
      BY DEF Sendable, Response
    <3>2. Len(FlattenSeq(r.content)) \in Nat
      BY <3>1, ContentOffsets
    <3>3. Mode(y) = IF r.coding = "chunked" THEN "CHUNKED"
                    ELSE IF SizeOf(r) = Undefined THEN "UNTIL_CLOSE" ELSE "FIXED"
      BY <2>2, <2>5 DEF Mode
    <3> QED
      BY <3>1, <3>2, <3>3 DEF ModeOf, SizeOf, Undefined
  <2>7. Says(Announced(y), r, 0)
    <3>1. Len(FlattenSeq(r.content)) \in Nat
      BY ContentOffsets DEF Sendable
    <3>2. /\ Announced(y).statusCode = r.code /\ Announced(y).headers = HeadersOf(r)
          /\ Announced(y).mode = ModeOf(r) /\ Announced(y).size = SizeOf(r)
          /\ ~Announced(y).ended /\ ~Announced(y).error /\ Len(Announced(y).body) = 0
      BY <2>5, <2>6 DEF Announced
    <3> QED
      BY <3>1, <3>2 DEF Says, Begun
  <2>8. p' = y
    BY <2>1 DEF Go
  <2>9. InBody(r, p', BodyAt(r), Announced(y))
    <3>1. InBody(r, y, BodyAt(r), Announced(y))
      BY <2>2, <2>5, <2>7, Beginning
    <3> QED
      BY <2>8, <3>1
  <2> QED
    BY <2>1, <2>8, <2>9
<1> QED
  BY <1>2, <1>3, <1>4

-----------------------------------------------------------------------------
(***************************************************************************)
(* The body of a response: what an event adds to what was said of it.      *)
(***************************************************************************)
\* Which step reads a byte of a body.
LEMMA OnlyBody ==
    ASSUME ReadHead \/ ReadBody, p.at = "body"
    PROVE  /\ i <= Len(data)
           /\ p.length = 0 => ReadNoBody
           /\ p.length \notin {0, Undefined} /\ ~p.chunked => ReadFixed
           /\ p.length = Undefined /\ ~p.chunked => ReadUntilClose
           /\ p.length # 0 /\ p.chunked /\ p.chunk = "header" =>
                 ReadChunkSize \/ ReportChunkSize \/ BeginChunk \/ EndChunked
           /\ p.length # 0 /\ p.chunked /\ p.chunk = "data" => ReadChunkData
           /\ p.length # 0 /\ p.chunked /\ p.chunk = "end" => EndChunk
<1>1. ~ReadHead
  BY DEF ReadHead, ReadVersion, ReadStatusCode, ReadStatusMessage, ReadColon, ReadField,
         ReadReturn, EndOfLine, EndOfHeaders, ReportLength, More
<1>0. 0 # Undefined
  BY DEF Undefined
<1>2. CASE ReadNoBody
  <2>1. i <= Len(data) /\ p.length = 0
    BY <1>2 DEF ReadNoBody, More
  <2> QED
    BY <1>0, <1>2, <2>1
<1>3. CASE ReadFixed
  BY <1>3 DEF ReadFixed, More
<1>4. CASE ReadUntilClose
  <2>1. i <= Len(data) /\ p.length = Undefined /\ ~p.chunked
    BY <1>4 DEF ReadUntilClose, More
  <2> QED
    BY <1>0, <1>4, <2>1
<1>5. CASE ReadChunkSize \/ ReportChunkSize \/ BeginChunk \/ EndChunked
  <2>1. i <= Len(data) /\ p.length # 0 /\ p.chunked /\ p.chunk = "header"
    BY <1>5 DEF ReadChunkSize, ReportChunkSize, BeginChunk, EndChunked, ChunkPart, More
  <2> QED
    BY <1>5, <2>1
<1>6. CASE ReadChunkData
  BY <1>6 DEF ReadChunkData, ChunkPart, More
<1>7. CASE EndChunk
  BY <1>7 DEF EndChunk, ChunkPart, More
<1> QED
  BY <1>1, <1>2, <1>3, <1>4, <1>5, <1>6, <1>7, Zenon DEF ReadBody

\* The response told last, more of it told; the responses before it are left alone.
Emitted(o, units, last) == [o EXCEPT !.body = o.body \o units, !.ended = last]
Others(k) == Len(out') = k /\ \A j \in 1 .. k - 1 : out'[j] = out[j]

\* The body_chunk event changes the last response told.
LEMMA EmitLast ==
    ASSUME out \in Seq(Told), NEW k, k = Len(out), k # 0, NEW units, NEW last, Emit(units, last)
    PROVE  Others(k) /\ out[k] \in Told /\ out'[k] = Emitted(out[k], units, last)
<1>1. k \in Nat /\ k \in 1 .. k
  OBVIOUS
<1>2. out[k] \in Told
  BY <1>1
<1> DEFINE e == [out[k] EXCEPT !.body = out[k].body \o units, !.ended = last]
<1>3. out' = [out EXCEPT ![k] = e]
  BY <1>2 DEF Emit, Told
<1> HIDE DEF e
<1>4. out \in [1 .. k -> Told] /\ DOMAIN out = 1 .. k
  BY <1>1
<1>5. DOMAIN out' = 1 .. k /\ out'[k] = e /\ \A j \in 1 .. k - 1 : out'[j] = out[j]
  BY <1>1, <1>3, <1>4
<1>6. Len(out') = k
  BY <1>1, <1>3, <1>4
<1> QED
  BY <1>2, <1>5, <1>6 DEF e, Emitted, Others

\* Units of the body are added to what was said of it.
LEMMA SaysMore ==
    ASSUME NEW r \in Response, NEW o \in Told, NEW n \in Nat, Says(o, r, n),
           NEW units \in Text, n + Len(units) <= Len(FlattenSeq(r.content)),
           \A j \in 1 .. Len(units) : units[j] = FlattenSeq(r.content)[n + j]
    PROVE  /\ Says(Emitted(o, units, FALSE), r, n + Len(units))
           /\ n + Len(units) = Len(FlattenSeq(r.content)) /\ r.wellFormed /\ r.coding # "close" =>
                 Done(Emitted(o, units, TRUE), r)
<1> DEFINE f == FlattenSeq(r.content)
           b == o.body \o units
<1>1. PICK m \in Nat : m = Len(units)
  BY DEF Text
<1>2. o.body \in Text /\ Len(o.body) = n /\ \A j \in 1 .. n : o.body[j] = f[j]
  BY DEF Told, Says, Begun
<1>3. f \in Text /\ Len(f) \in Nat
  BY ContentOffsets
<1> HIDE DEF f
<1>4. b \in Text /\ Len(b) = n + m
  BY <1>1, <1>2, TextConcat
<1>5. ASSUME NEW j \in 1 .. n + m PROVE b[j] = f[j]
  <2>1. CASE j \in 1 .. n
    BY <1>2, <2>1 DEF Text
  <2>2. CASE j \notin 1 .. n
    <3>1. j - n \in 1 .. m /\ n + (j - n) = j
      BY <2>2
    <3>4. PICK a \in Seq(Symbols) : a = o.body /\ Len(a) = n
      BY <1>2 DEF Text
    <3>5. PICK u \in Seq(Symbols) : u = units /\ Len(u) = m
      BY <1>1 DEF Text
    <3>6. (a \o u)[Len(a) + (j - n)] = u[j - n]
      BY <3>1, <3>5
    <3>2. b[j] = units[j - n]
      BY <3>1, <3>4, <3>5, <3>6
    <3>3. units[j - n] = f[n + (j - n)]
      BY <1>1, <3>1 DEF f
    <3> QED
      BY <3>1, <3>2, <3>3
  <2> QED
    BY <2>1, <2>2
<1> HIDE DEF b
<1> DEFINE e(last) == [o EXCEPT !.body = b, !.ended = last]
<1>6. \A last : /\ e(last).statusCode = o.statusCode /\ e(last).headers = o.headers
                /\ e(last).mode = o.mode /\ e(last).size = o.size /\ e(last).error = o.error
                /\ e(last).body = b /\ e(last).ended = last
  BY DEF Told
<1>7. n + m <= Len(f)
  BY <1>1 DEF f
<1> HIDE DEF e
<1>8. Says(e(FALSE), r, n + m)
  BY <1>4, <1>5, <1>6, <1>7 DEF Says, Begun, f
<1>9. ASSUME n + m = Len(f), r.wellFormed, r.coding # "close" PROVE Done(e(TRUE), r)
  <2>1. b = f
    BY <1>3, <1>4, <1>5, <1>9 DEF Text
  <2>2. IsPrefix(b, f)
    BY <1>3, <2>1 DEF IsPrefix, Text
  <2>3. /\ ~e(TRUE).error /\ e(TRUE).statusCode = r.code /\ e(TRUE).headers = HeadersOf(r)
        /\ e(TRUE).mode = ModeOf(r) /\ e(TRUE).size = SizeOf(r) /\ e(TRUE).body = b
    BY <1>6, Zenon DEF Says, Begun
  <2>4. Describes(e(TRUE), r)
    BY <1>9, <2>1, <2>2, <2>3, Zenon DEF Describes, f
  <2> QED
    BY <1>6, <1>9, <2>4 DEF Done, Says, Begun
<1> QED
  BY <1>1, <1>8, <1>9 DEF e, b, f, Emitted

\* The part of the buffer that is emitted, where it was sent.
LEMMA Units ==
    ASSUME TypeOK, sent \in Seq(Sendable), Arrived, i <= Len(data), NEW n \in 1 .. Left
    PROVE  LET units == SubSeq(data, i, i + n - 1)
           IN  units \in Text /\ Len(units) = n /\ \A j \in 1 .. n : units[j] = Whole[Pos + j]
<1> DEFINE units == SubSeq(data, i, i + n - 1)
<1>1. units \in Text /\ Len(units) = n
  BY PartType
<1>2. PICK d \in Nat : d = Len(data)
  BY RestType
<1>3. i \in 1 .. d /\ Left = d - i + 1
  BY <1>2, RestType DEF Left
<1>4. ASSUME NEW j \in 1 .. n PROVE units[j] = Whole[Pos + j]
  <2>1. j \in 1 .. Left
    BY <1>3
  <2>2. data[i + j - 1] = Whole[Pos + j]
    BY <2>1, Ahead
  <2>3. units[j] = data[i + j - 1]
    BY <1>2, <1>3 DEF TypeOK, Text
  <2> QED
    BY <2>2, <2>3
<1> QED
  BY <1>1, <1>4

\* The next n units are those of f, of which m were read, and f begins at a.
Within(f, a, m, n) ==
    /\ HasAt(Whole, a, f) /\ a \in Nat /\ Len(f) \in Nat /\ m \in Nat /\ Pos = a + m
    /\ n \in 1 .. Left /\ m + n <= Len(f)
Cut(n) == SubSeq(data, i, i + n - 1)
CutFrom(f, m, n) ==
    Cut(n) \in Text /\ Len(Cut(n)) = n /\ \A j \in 1 .. n : Cut(n)[j] = f[m + j]

\* They are the next units in the buffer.
LEMMA UnitsOf ==
    ASSUME TypeOK, sent \in Seq(Sendable), Arrived, i <= Len(data),
           NEW f, NEW a, NEW m, NEW n, Within(f, a, m, n)
    PROVE  CutFrom(f, m, n)
<1> DEFINE units == SubSeq(data, i, i + n - 1)
<1>0. /\ HasAt(Whole, a, f) /\ a \in Nat /\ Len(f) \in Nat /\ m \in Nat /\ Pos = a + m
      /\ n \in 1 .. Left /\ m + n <= Len(f)
  BY DEF Within
<1>1. units \in Text /\ Len(units) = n /\ \A j \in 1 .. n : units[j] = Whole[Pos + j]
  BY <1>0, Units
<1> HIDE DEF units
<1>2. n \in Nat
  BY <1>0, Ahead
<1>3. ASSUME NEW j \in 1 .. n PROVE units[j] = f[m + j]
  <2>1. m + j \in 1 .. Len(f) /\ a + (m + j) = Pos + j
    BY <1>0, <1>2
  <2>2. Whole[a + (m + j)] = f[m + j]
    BY <1>0, <2>1, Zenon DEF HasAt
  <2> QED
    BY <1>1, <2>1, <2>2
<1> QED
  BY <1>1, <1>3 DEF units, Cut, CutFrom

\* A body whose size was announced.
LEMMA NoBodyPhase ==
    ASSUME TypeOK, NEW k, k = Len(out), k # 0, NEW r \in Sendable, NEW q,
           p.at = "body", InFixed(r, p, q, out[k]), p.length = 0, ReadNoBody
    PROVE  Go(1, p') /\ p' = Fresh /\ Others(k) /\ Done(out'[k], r)
<1>1. Emit(<<>>, TRUE) /\ Go(1, Fresh)
  BY DEF ReadNoBody
<1>2. PICK z : z = <<>>
  OBVIOUS
<1>3. z \in Text /\ Len(z) = 0 /\ \A j \in 1 .. Len(z) : FALSE
  BY <1>2 DEF Text
<1>4. out \in Seq(Told)
  BY DEF TypeOK
<1>5. Others(k) /\ out[k] \in Told /\ out'[k] = Emitted(out[k], z, TRUE)
  BY <1>1, <1>2, <1>4, EmitLast
<1>9. p.read \in Nat
  BY DEF TypeOK, Fields
<1>6. /\ Says(out[k], r, 0) /\ r.wellFormed /\ SizeOf(r) = 0 /\ ModeOf(r) = "FIXED"
  <2>1. p.read = 0
    BY <1>9 DEF InFixed
  <2> QED
    BY <2>1 DEF InFixed
<1>7. Len(FlattenSeq(r.content)) = 0 /\ r.coding # "close" /\ r \in Response
  BY <1>6 DEF SizeOf, ModeOf, Sendable
<1>8. Done(out'[k], r)
  <2>1. 0 + Len(z) = 0 /\ 0 + Len(z) <= Len(FlattenSeq(r.content)) /\ 0 \in Nat
    BY <1>3, <1>7
  <2>2. \A j \in 1 .. Len(z) : z[j] = FlattenSeq(r.content)[0 + j]
    BY <1>3
  <2>3. 0 + Len(z) = Len(FlattenSeq(r.content))
    BY <1>7, <2>1
  <2>4. Done(Emitted(out[k], z, TRUE), r)
    BY <1>3, <1>5, <1>6, <1>7, <2>1, <2>2, <2>3, SaysMore
  <2> QED
    BY <1>5, <2>4
<1> QED
  BY <1>1, <1>5, <1>8 DEF Go, Others

\* Of z units x were read, and l are in the buffer.
LEMMA LesserOf ==
    ASSUME NEW l \in Nat \ {0}, NEW x \in Nat, NEW z \in Nat, x < z
    PROVE  LET n == Min2(l, z - x)
           IN  n \in 1 .. l /\ x + n <= z /\ (x + n # z => n = l /\ x + n < z)
<1>1. CASE l <= z - x
  BY <1>1 DEF Min2
<1>2. CASE ~(l <= z - x)
  BY <1>2 DEF Min2
<1> QED
  BY <1>1, <1>2

\* A body whose size is not 0.
LEMMA FixedPhase ==
    ASSUME TypeOK, sent \in Seq(Sendable), Arrived, i <= Len(data),
           NEW k, k = Len(out), k # 0, NEW r \in Sendable, NEW a \in Nat, Pos - a \in Nat,
           p.at = "body", InFixed(r, p, Pos - a, out[k]), p.length # 0, ReadFixed,
           HasAt(Whole, a + BodyAt(r), FlattenSeq(r.content))
    PROVE  \E n \in 1 .. Left :
              /\ Go(n + 1, p') /\ Others(k)
              /\ \/ /\ n = Left /\ p'.at = "body"
                    /\ InFixed(r, p', Pos - a + n, out'[k])
                 \/ /\ p' = Fresh /\ Done(out'[k], r)
                    /\ Pos - a + n = BodyAt(r) + Len(FlattenSeq(r.content))
<1> DEFINE f == FlattenSeq(r.content)
           n == Min2(Left, p.length - p.read)
           units == Cut(n)
           last == p.read + n = p.length
           y == [p EXCEPT !.read = p.read + n, !.prev = Byte]
<1>1. Emit(units, last) /\ Go(n + 1, IF last THEN Fresh ELSE y)
  BY DEF ReadFixed, Cut
<1>2. /\ r \in Response /\ r.wellFormed /\ ModeOf(r) = "FIXED" /\ p.length = Len(f)
      /\ p.read = Pos - a - BodyAt(r) /\ p.read < p.length
      /\ Says(out[k], r, p.read) /\ p.length = SizeOf(r) /\ ~p.chunked /\ r.coding # "close"
  BY DEF InFixed, SizeOf, ModeOf, Sendable
<1>3. Len(f) \in Nat /\ f \in Text /\ BodyAt(r) \in Nat
  BY <1>2, ContentOffsets, HeadType
<1>4. p.read \in Nat /\ p \in Fields
  BY DEF TypeOK, Fields
<1>5. Left \in Nat \ {0} /\ Pos \in Nat
  BY Ahead
<1> HIDE DEF f
<1>6. n \in 1 .. Left /\ p.read + n <= p.length /\ (~last => n = Left)
  <2>1. PICK l \in Nat \ {0} : l = Left
    BY <1>5
  <2>2. PICK x \in Nat : x = p.read
    BY <1>4
  <2>3. PICK z \in Nat : z = p.length /\ x < z
    BY <1>2, <1>3, <2>2
  <2>4. n = Min2(l, z - x)
    BY <2>1, <2>2, <2>3
  <2>5. n \in 1 .. l /\ x + n <= z /\ (x + n # z => n = l)
    <3> HIDE DEF n
    <3> QED
      BY <2>1, <2>2, <2>3, <2>4, LesserOf, Zenon
  <2> QED
    BY <2>1, <2>2, <2>3, <2>5, Zenon
<1> HIDE DEF n, units
<1>7. /\ units \in Text /\ Len(units) = n
      /\ \A j \in 1 .. n : units[j] = f[p.read + j]
  <2>1. PICK b \in Nat : b = a + BodyAt(r)
    BY <1>3
  <2>2. Pos = b + p.read
    BY <1>2, <1>3, <1>4, <1>5, <2>1
  <2>3. HasAt(Whole, b, f)
    BY <2>1, Zenon DEF f
  <2>4. p.read + n <= Len(f)
    BY <1>2, <1>6
  <2> QED
    <3>1. Within(f, b, p.read, n)
      BY <1>3, <1>4, <1>6, <2>1, <2>2, <2>3, <2>4, Zenon DEF Within
    <3>2. CutFrom(f, p.read, n)
      BY <3>1, UnitsOf, Zenon
    <3> QED
      BY <3>2, Zenon DEF units, CutFrom
<1> HIDE DEF last
<1>8. out \in Seq(Told)
  BY DEF TypeOK
<1>9. Others(k) /\ out[k] \in Told /\ out'[k] = Emitted(out[k], units, last)
  BY <1>1, <1>8, EmitLast
<1>10. /\ Says(Emitted(out[k], units, FALSE), r, p.read + n)
       /\ p.read + n = Len(f) =>
             Done(Emitted(out[k], units, TRUE), r)
  BY <1>2, <1>4, <1>6, <1>7, <1>9, SaysMore DEF f
<1>11. CASE last
  <2>1. p.read + n = p.length /\ last = TRUE
    BY <1>11 DEF last
  <2>2. Done(out'[k], r)
    BY <1>2, <1>9, <1>10, <2>1
  <2>3. p' = Fresh
    BY <1>1, <1>11 DEF Go
  <2>4. Pos - a + n = BodyAt(r) + Len(f)
    BY <1>2, <1>3, <1>4, <1>5, <1>6, <2>1
  <2> QED
    BY <1>1, <1>6, <1>9, <1>11, <2>2, <2>3, <2>4 DEF Others, f
<1>12. CASE ~last
  <2>1. p.read + n # p.length /\ last = FALSE
    BY <1>12 DEF last
  <2>2. p' = y
    BY <1>1, <1>12 DEF Go
  <2>3. /\ p'.at = "body" /\ p'.read = p.read + n /\ p'.length = p.length
        /\ p'.chunked = p.chunked
    BY <1>4, <2>2 DEF Fields
  <2>4. Says(out'[k], r, p.read + n)
    BY <1>9, <1>10, <2>1
  <2>5. p.read + n = (Pos - a + n) - BodyAt(r) /\ p.read + n < p.length
    <3>1. PICK x \in Nat : x = p.read
      BY <1>4
    <3>2. PICK z \in Nat : z = p.length
      BY <1>2, <1>3
    <3>3. PICK c \in Nat : c = BodyAt(r)
      BY <1>3
    <3>4. PICK m \in Nat : m = n
      BY <1>6
    <3>5. x = Pos - a - c /\ x + m <= z /\ x + m # z
      BY <1>2, <1>6, <2>1, <3>1, <3>2, <3>3, <3>4, Zenon
    <3>6. x + m = (Pos - a + m) - c /\ x + m < z
      BY <1>5, <3>5
    <3> QED
      BY <3>1, <3>2, <3>3, <3>4, <3>6, Zenon
  <2>6. InFixed(r, p', Pos - a + n, out'[k])
    BY <1>2, <2>3, <2>4, <2>5 DEF InFixed
  <2> QED
    BY <1>1, <1>6, <1>9, <1>12, <2>2, <2>3, <2>6 DEF Others
<1> QED
  BY <1>11, <1>12

\* A body that ends with the connection.
LEMMA ClosePhase ==
    ASSUME TypeOK, NEW k, k = Len(out), k # 0, NEW r, InClose(r, p, out[k]), ReadUntilClose
    PROVE  Go(1, p') /\ Others(k) /\ InClose(r, p', out'[k]) /\ p'.at = p.at
<1>1. Emit(data, FALSE) /\ Go(1, [p EXCEPT !.prev = Byte])
  BY DEF ReadUntilClose
<1>2. out \in Seq(Told) /\ p \in Fields
  BY DEF TypeOK
<1>3. Others(k) /\ out[k] \in Told /\ out'[k] = Emitted(out[k], data, FALSE)
  BY <1>1, <1>2, EmitLast
<1>4. /\ ~out'[k].ended /\ out'[k].error = out[k].error
      /\ out'[k].statusCode = out[k].statusCode /\ out'[k].headers = out[k].headers
      /\ out'[k].mode = out[k].mode /\ out'[k].size = out[k].size
  BY <1>3 DEF Told, Emitted
<1>5. p' = [p EXCEPT !.prev = Byte]
  BY <1>1 DEF Go
<1>6. p'.length = p.length /\ p'.chunked = p.chunked /\ p'.at = p.at
  BY <1>2, <1>5 DEF Fields
<1> QED
  BY <1>1, <1>3, <1>4, <1>5, <1>6 DEF InClose, Begun, Others

-----------------------------------------------------------------------------
(***************************************************************************)
(* The chunks of a body.                                                   *)
(***************************************************************************)
\* What the bytes of the line before a chunk are.
SizeByte(t, d, b) ==
    /\ t = 0 => b = d
    /\ t \in 1 .. Len(Extension) => b = Extension[t]
    /\ t = Len(Extension) + 1 => b = "cr"
    /\ t = Len(Extension) + 2 => b = "lf"

\* The fields of p that the chunks leave alone.
BodyKept(x, y) == y.at = x.at /\ y.length = x.length /\ y.chunked = x.chunked

\* Which step reads a byte of the size of a chunk.
LEMMA OnlySize ==
    ASSUME ReadChunkSize \/ ReportChunkSize \/ BeginChunk \/ EndChunked
    PROVE  /\ Byte # "lf" => ReadChunkSize
           /\ Byte = "lf" /\ ~IsNumber(p.symbol) => ReportChunkSize
           /\ Byte = "lf" /\ IsNumber(p.symbol) =>
                 IF ParseInt(p.symbol) = 0 THEN EndChunked ELSE BeginChunk
<1>1. CASE ReadChunkSize
  BY <1>1 DEF ReadChunkSize
<1>2. CASE ReportChunkSize
  BY <1>2 DEF ReportChunkSize
<1>3. CASE BeginChunk
  BY <1>3 DEF BeginChunk
<1>4. CASE EndChunked
  BY <1>4 DEF EndChunked
<1> QED
  BY <1>1, <1>2, <1>3, <1>4

\* A byte of that line, but for the last.
LEMMA SizePhase ==
    ASSUME p \in Fields, NEW d \in Symbols \ Marks, NEW t, InSize(p, t, d),
           t # Len(Extension) + 2, SizeByte(t, d, Byte),
           ReadChunkSize \/ ReportChunkSize \/ BeginChunk \/ EndChunked
    PROVE  Go(1, p') /\ out' = out /\ BodyKept(p, p') /\ InSize(p', t + 1, d)
<1>1. PICK z \in Nat : z = Len(Extension)
  BY ExtensionType
<1>2. t \in 0 .. z + 1
  BY <1>1 DEF InSize
<1>3. p.chunk = "header" /\ p.chunkRead = 0
  BY DEF InSize
<1>4. CASE t = 0
  <2>1. p.symbol = <<>> /\ ~p.extension
    BY <1>4 DEF InSize
  <2>2. Byte = d /\ Byte \notin {"cr", "semi", "lf"}
    BY <1>4 DEF SizeByte, Marks
  <2>3. Read(Append1)
    BY <2>1, <2>2, OnlySize DEF ReadChunkSize
  <2>4. Append(p.symbol, Byte) = <<d>>
    BY <2>1, <2>2
  <2>5. p' = [p EXCEPT !.symbol = <<d>>, !.prev = Byte]
    BY <2>3, <2>4 DEF Read, Go, Append1, Fields
  <2>6. /\ p'.symbol = <<d>> /\ p'.chunk = "header" /\ p'.chunkRead = 0 /\ BodyKept(p, p')
    BY <1>3, <2>5 DEF Fields, BodyKept
  <2>7. t + 1 \in 0 .. z + 2 /\ t + 1 # 0 /\ t + 1 \notin 2 .. z
    BY <1>4
  <2>8. InSize(p', t + 1, d)
    BY <1>1, <2>6, <2>7 DEF InSize
  <2> QED
    BY <2>3, <2>5, <2>6, <2>8 DEF Read, Go
<1>5. CASE t # 0
  <2>1. p.symbol = <<d>>
    BY <1>2, <1>5 DEF InSize
  <2>2. t \in 2 .. z => p.extension
    BY <1>1 DEF InSize
  <2>3. /\ t \in 1 .. z => Byte = Extension[t] /\ Byte # "lf"
        /\ t = 1 /\ z > 0 => Byte = "semi"
        /\ t = z + 1 => Byte = "cr"
    BY <1>1, ExtensionType DEF SizeByte
  <2>4. Byte # "lf" /\ ReadChunkSize
    BY <1>2, <1>5, <2>3, OnlySize
  <2>5. \/ Read(p) /\ (t \in 1 .. z => p.extension \/ Byte = "cr")
        \/ Byte = "semi" /\ Read([p EXCEPT !.extension = TRUE])
    <3>1. CASE Byte = "cr"
      BY <2>4, <3>1 DEF ReadChunkSize
    <3>2. CASE Byte = "semi"
      BY <2>4, <3>2 DEF ReadChunkSize
    <3>3. CASE Byte \notin {"cr", "semi"}
      <4>1. t \in 2 .. z
        BY <1>2, <1>5, <2>3, <3>3
      <4> QED
        BY <2>2, <2>4, <3>3, <4>1 DEF ReadChunkSize
    <3> QED
      BY <3>1, <3>2, <3>3
  <2>6. t + 1 \in 0 .. z + 2 /\ t + 1 # 0
    BY <1>2
  <2>7. CASE Read(p) /\ (t \in 1 .. z => p.extension \/ Byte = "cr")
    <3>1. p' = [p EXCEPT !.prev = Byte]
      BY <2>7 DEF Read, Go
    <3>2. /\ p'.symbol = <<d>> /\ p'.chunk = "header" /\ p'.chunkRead = 0 /\ BodyKept(p, p')
          /\ p'.extension = p.extension
      BY <1>3, <2>1, <3>1 DEF Fields, BodyKept
    <3>3. t + 1 \in 2 .. z => p.extension
      BY <1>2, <2>2, <2>3, <2>7
    <3>4. InSize(p', t + 1, d)
      BY <1>1, <2>6, <3>2, <3>3 DEF InSize
    <3> QED
      BY <2>7, <3>1, <3>2, <3>4 DEF Read, Go
  <2>8. CASE Read([p EXCEPT !.extension = TRUE])
    <3>1. p' = [p EXCEPT !.extension = TRUE, !.prev = Byte]
      BY <2>8 DEF Read, Go, Fields
    <3>2. /\ p'.symbol = <<d>> /\ p'.chunk = "header" /\ p'.chunkRead = 0 /\ BodyKept(p, p')
          /\ p'.extension
      BY <1>3, <2>1, <3>1 DEF Fields, BodyKept
    <3>3. InSize(p', t + 1, d)
      BY <1>1, <2>6, <3>2 DEF InSize
    <3> QED
      BY <2>8, <3>1, <3>2, <3>3 DEF Read, Go
  <2> QED
    BY <2>5, <2>7, <2>8
<1> QED
  BY <1>4, <1>5

\* The line feed after the size of a chunk.
LEMMA SizeEnd ==
    ASSUME p \in Fields, NEW d \in Digits, NEW t, InSize(p, t, d),
           t = Len(Extension) + 2, SizeByte(t, d, Byte),
           ReadChunkSize \/ ReportChunkSize \/ BeginChunk \/ EndChunked
    PROVE  IF Numerals[d] = 0 THEN EndChunked
           ELSE /\ Go(1, p') /\ out' = out /\ BodyKept(p, p')
                /\ p'.chunk = "data" /\ p'.chunkSize = Numerals[d] /\ p'.chunkRead = 0
<1>1. Byte = "lf" /\ t > 0 /\ p.symbol = <<d>>
  <2>1. Len(Extension) \in Nat
    BY ExtensionType
  <2>2. t > 0
    BY <2>1
  <2> QED
    BY <2>2 DEF InSize, SizeByte
<1>2. IsNumber(p.symbol) /\ ParseInt(p.symbol) = Numerals[d]
  BY <1>1 DEF IsNumber, ParseInt
<1>3. CASE Numerals[d] = 0
  BY <1>1, <1>2, <1>3, OnlySize
<1>4. CASE Numerals[d] # 0
  <2>1. BeginChunk
    BY <1>1, <1>2, <1>4, OnlySize
  <2>2. Read([p EXCEPT !.chunk = "data", !.chunkSize = Numerals[d], !.symbol = <<>>])
    BY <1>2, <2>1 DEF BeginChunk
  <2>3. p' = [p EXCEPT !.chunk = "data", !.chunkSize = Numerals[d], !.symbol = <<>>,
                       !.prev = Byte]
    BY <2>2 DEF Read, Go, Fields
  <2>4. p'.chunk = "data" /\ p'.chunkSize = Numerals[d] /\ p'.chunkRead = 0 /\ BodyKept(p, p')
    BY <2>3 DEF Fields, BodyKept, InSize
  <2> QED
    BY <1>4, <2>2, <2>3, <2>4 DEF Read, Go
<1> QED
  BY <1>3, <1>4

\* The chunk without data, after the others.
LEMMA LastPhase ==
    ASSUME TypeOK, NEW k, k = Len(out), k # 0, NEW r \in Sendable, r.coding = "chunked",
           r.wellFormed, Says(out[k], r, Len(FlattenSeq(r.content))), EndChunked
    PROVE  Go(1, p') /\ p' = Fresh /\ Others(k) /\ Done(out'[k], r)
<1>1. Emit(<<>>, TRUE) /\ Go(1, Fresh)
  BY DEF EndChunked
<1>2. PICK z : z = <<>>
  OBVIOUS
<1>3. z \in Text /\ Len(z) = 0 /\ \A j \in 1 .. Len(z) : FALSE
  BY <1>2 DEF Text
<1>4. out \in Seq(Told) /\ r \in Response
  BY DEF TypeOK, Sendable
<1>5. Others(k) /\ out[k] \in Told /\ out'[k] = Emitted(out[k], z, TRUE)
  BY <1>1, <1>2, <1>4, EmitLast
<1>6. PICK n \in Nat : n = Len(FlattenSeq(r.content))
  BY <1>4, ContentOffsets
<1>7. n + Len(z) = n /\ n + Len(z) <= n /\ r.coding # "close"
  BY <1>3
<1>8. \A j \in 1 .. Len(z) : z[j] = FlattenSeq(r.content)[n + j]
  BY <1>3
<1>9. Done(Emitted(out[k], z, TRUE), r)
  BY <1>3, <1>4, <1>5, <1>6, <1>7, <1>8, SaysMore
<1> QED
  BY <1>1, <1>5, <1>9 DEF Go

\* A chunk without size.
LEMMA MalformedPhase ==
    ASSUME out \in Seq(Told), NEW k, k = Len(out), k # 0, ReportChunkSize
    PROVE  Go(Left, p') /\ p' = Fresh /\ Others(k) /\ Failed(out'[k])
<1>1. /\ out' = [out EXCEPT ![Len(out)].ended = TRUE, ![Len(out)].error = TRUE]
      /\ Go(Left, Fresh)
  BY DEF ReportChunkSize
<1>2. k \in Nat /\ k \in 1 .. k /\ DOMAIN out = 1 .. k /\ out[k] \in Told
  OBVIOUS
<1> DEFINE e == [out[k] EXCEPT !.ended = TRUE, !.error = TRUE]
<1>3. out' = [out EXCEPT ![k] = e]
  BY <1>1, <1>2 DEF Told
<1>4. Failed(e)
  BY <1>2 DEF Told, Failed
<1> HIDE DEF e
<1>5. Len(out') = k /\ out'[k] = e /\ \A j \in 1 .. k - 1 : out'[j] = out[j]
  BY <1>2, <1>3
<1> QED
  BY <1>1, <1>4, <1>5 DEF Go, Others

\* What is in the buffer of a chunk was emitted.
MoreOfChunk(k, r, c) ==
    \E n \in 1 .. Left :
       /\ Go(n + 1, p') /\ Others(k) /\ BodyKept(p, p')
       /\ p.chunkRead + n <= p.chunkSize
       /\ Says(out'[k], r, Offset(r.content, c) + p.chunkRead + n)
       /\ \/ /\ n = Left /\ p'.chunk = "data" /\ p'.chunkSize = p.chunkSize
             /\ p'.chunkRead = p.chunkRead + n /\ p'.chunkRead < p'.chunkSize
          \/ p'.chunk = "end" /\ p.chunkRead + n = p.chunkSize

\* The data of the c-th chunk.
LEMMA ChunkDataPhase ==
    ASSUME TypeOK, sent \in Seq(Sendable), Arrived, i <= Len(data),
           NEW k, k = Len(out), k # 0, NEW r \in Sendable, NEW a \in Nat,
           NEW c \in 1 .. Len(r.content), p.at = "body", ReadChunkData,
           HasAt(Whole, a, r.content[c]), Pos = a + p.chunkRead,
           p.chunkSize = Len(r.content[c]), p.chunkRead < p.chunkSize,
           Says(out[k], r, Offset(r.content, c) + p.chunkRead)
    PROVE  MoreOfChunk(k, r, c)
<1> DEFINE f == FlattenSeq(r.content)
           n == Min2(Left, p.chunkSize - p.chunkRead)
           units == Cut(n)
           y == [p EXCEPT !.read = @ + n, !.chunkRead = @ + n, !.prev = Byte,
                          !.chunk = IF p.chunkRead + n = p.chunkSize THEN "end" ELSE @]
<1>1. Emit(units, FALSE) /\ Go(n + 1, y) /\ p.chunk = "data"
  BY DEF ReadChunkData, ChunkPart, Cut
<1>2. r \in Response /\ r.content[c] \in Text
  BY ResponseParts DEF Sendable
<1>3. Len(r.content[c]) \in Nat /\ Len(f) \in Nat
  BY <1>2, ContentOffsets DEF Text
<1>4. p.chunkRead \in Nat /\ p \in Fields /\ out \in Seq(Told)
  BY DEF TypeOK, Fields
<1>5. Left \in Nat \ {0}
  BY Ahead
<1>6. n \in 1 .. Left /\ p.chunkRead + n <= p.chunkSize
      /\ (p.chunkRead + n # p.chunkSize => n = Left /\ p.chunkRead + n < p.chunkSize)
  <2>1. PICK l \in Nat \ {0} : l = Left
    BY <1>5
  <2>2. PICK x \in Nat : x = p.chunkRead
    BY <1>4
  <2>3. PICK s \in Nat : s = p.chunkSize
    BY <1>3
  <2>4. x < s /\ n = Min2(l, s - x)
    BY <2>1, <2>2, <2>3
  <2>5. n \in 1 .. l /\ x + n <= s /\ (x + n # s => n = l /\ x + n < s)
    <3> HIDE DEF n
    <3> QED
      BY <2>1, <2>2, <2>3, <2>4, LesserOf, Zenon
  <2> QED
    BY <2>1, <2>2, <2>3, <2>5
<1> HIDE DEF n, units, f
<1>7. PICK b \in Nat : b = Offset(r.content, c)
  <2>1. c \in 1 .. Len(r.content) + 1
    BY <1>2, ResponseParts
  <2> QED
    BY <1>2, <2>1, ContentOffsets
<1>8. /\ b + Len(r.content[c]) <= Len(f)
      /\ \A j \in 1 .. Len(r.content[c]) : f[b + j] = r.content[c][j]
  BY <1>2, <1>7, ContentOffsets DEF f
<1>9. /\ units \in Text /\ Len(units) = n
      /\ \A j \in 1 .. n : units[j] = r.content[c][p.chunkRead + j]
  <2>1. p.chunkRead + n <= Len(r.content[c])
    BY <1>6
  <2>2. Within(r.content[c], a, p.chunkRead, n)
    BY <1>3, <1>4, <1>6, <2>1, Zenon DEF Within
  <2>3. CutFrom(r.content[c], p.chunkRead, n)
    BY <2>2, UnitsOf, Zenon
  <2> QED
    BY <2>3, Zenon DEF units, CutFrom
<1>10. Others(k) /\ out[k] \in Told /\ out'[k] = Emitted(out[k], units, FALSE)
  BY <1>1, <1>4, EmitLast
<1>11. Says(out'[k], r, b + p.chunkRead + n)
  <2>0. n \in Nat
    BY <1>5, <1>6
  <2>5. PICK x \in Nat : x = p.chunkRead
    BY <1>4
  <2>6. PICK l \in Nat : l = Len(r.content[c])
    BY <1>3
  <2>7. x + n <= l
    BY <1>6, <2>5, <2>6
  <2>1. PICK m \in Nat : m = b + x
    OBVIOUS
  <2>2. m + n <= Len(f)
    BY <1>3, <1>8, <2>0, <2>1, <2>6, <2>7
  <2>3. ASSUME NEW j \in 1 .. n PROVE units[j] = f[m + j]
    <3>1. x + j \in 1 .. l /\ b + (x + j) = m + j
      BY <2>0, <2>1, <2>7
    <3>2. f[b + (x + j)] = r.content[c][x + j]
      BY <1>8, <2>6, <3>1
    <3> QED
      BY <1>9, <2>5, <3>1, <3>2
  <2>4. Says(Emitted(out[k], units, FALSE), r, m + n)
    <3>1. Says(out[k], r, m)
      BY <1>7, <2>1, <2>5
    <3> QED
      BY <1>2, <1>9, <1>10, <2>2, <2>3, <3>1, SaysMore DEF f
  <2> QED
    BY <1>10, <2>1, <2>4, <2>5
<1>12. p' = y
  BY <1>1 DEF Go
<1>13. /\ BodyKept(p, p') /\ p'.chunkSize = p.chunkSize /\ p'.chunkRead = p.chunkRead + n
       /\ p'.chunk = IF p.chunkRead + n = p.chunkSize THEN "end" ELSE "data"
  BY <1>1, <1>4, <1>12 DEF Fields, BodyKept
<1>14. Go(n + 1, p')
  BY <1>1, <1>12 DEF Go
<1> HIDE DEF y
<1>15. \/ /\ n = Left /\ p'.chunk = "data" /\ p'.chunkSize = p.chunkSize
          /\ p'.chunkRead = p.chunkRead + n /\ p'.chunkRead < p'.chunkSize
       \/ p'.chunk = "end" /\ p.chunkRead + n = p.chunkSize
  BY <1>6, <1>13
<1>16. Says(out'[k], r, Offset(r.content, c) + p.chunkRead + n)
  BY <1>7, <1>11
<1> QED
  BY <1>6, <1>10, <1>13, <1>14, <1>15, <1>16 DEF MoreOfChunk

\* The line end after a chunk.
LEMMA ChunkEndPhase ==
    ASSUME p \in Fields, EndChunk
    PROVE  /\ Go(1, p') /\ out' = out /\ BodyKept(p, p')
           /\ Byte # "lf" => p'.chunk = "end"
           /\ Byte = "lf" => \A d : InSize(p', 0, d)
<1>1. CASE Byte # "lf"
  <2>1. Read(p) /\ p.chunk = "end"
    BY <1>1 DEF EndChunk, ChunkPart
  <2>2. p' = [p EXCEPT !.prev = Byte]
    BY <2>1 DEF Read, Go
  <2>3. p'.chunk = "end" /\ BodyKept(p, p')
    BY <2>1, <2>2 DEF Fields, BodyKept
  <2> QED
    BY <1>1, <2>1, <2>2, <2>3 DEF Read, Go
<1>2. CASE Byte = "lf"
  <2>1. Read([p EXCEPT !.chunk = "header", !.extension = FALSE,
                       !.chunkRead = 0, !.chunkSize = Undefined, !.symbol = <<>>])
    BY <1>2 DEF EndChunk
  <2>2. p' = [p EXCEPT !.chunk = "header", !.extension = FALSE,
                       !.chunkRead = 0, !.chunkSize = Undefined, !.symbol = <<>>, !.prev = "lf"]
    BY <1>2, <2>1 DEF Read, Go, Fields
  <2>3. /\ p'.chunk = "header" /\ ~p'.extension /\ p'.chunkRead = 0 /\ p'.symbol = <<>>
        /\ BodyKept(p, p')
    BY <2>2 DEF Fields, BodyKept
  <2>4. \A d : InSize(p', 0, d)
    BY <2>3, ExtensionType DEF InSize
  <2> QED
    BY <1>2, <2>1, <2>2, <2>3, <2>4 DEF Read, Go
<1> QED
  BY <1>1, <1>2

-----------------------------------------------------------------------------
(***************************************************************************)
(* Every byte of a head.                                                   *)
(***************************************************************************)
\* What the bytes of a head are, q bytes after its beginning.
HeadText(r, q, b) ==
    /\ q = 0 => b = "H"
    /\ q = 1 => b = "TTP"
    /\ q \in {2, 4, 6} => b = "sp"
    /\ q = 3 => b = r.code
    /\ q = 5 => b = "Reason"
    /\ q = 7 => b = "phrase"
    /\ q = 8 => b = "cr"
    /\ q = 9 => b = "lf"
    /\ \A c \in 1 .. Len(r.fields) : FieldByte(r, c, q - FieldAt(r, c), b)
    /\ q = BodyAt(r) - 2 => b = "cr"
    /\ q = BodyAt(r) - 1 => b = "lf"

\* A field in a text has these bytes ...
LEMMA FieldByteAt ==
    ASSUME NEW w, Len(w) \in Nat, NEW a, NEW r \in Response, NEW c \in 1 .. Len(r.fields),
           HasAt(w, a, FieldLine(<<r.fields[c][1], r.fields[c][2]>>)), NEW t \in Int
    PROVE  FieldByte(r, c, t, w[a + t + 1])
<1>1. PICK n \in Symbols : n = r.fields[c][1]
  BY ResponseParts
<1>2. PICK v \in Text : v = r.fields[c][2]
  BY ResponseParts
<1>3. PICK l \in Nat : l = Len(v)
  BY DEF Text
<1>4. HasAt(w, a, FieldLine(<<n, v>>))
  BY <1>1, <1>2
<1>5. /\ w[a + 1] = n /\ w[a + 2] = "colon" /\ w[a + 3] = "sp"
      /\ HasAt(w, a + 3, v)
      /\ w[a + l + 4] = "cr" /\ w[a + l + 5] = "lf"
  <2>1. FieldIn(w, a, n, v)
    BY <1>4, HasFieldLine, Zenon
  <2> QED
    BY <1>3, <2>1 DEF FieldIn
<1>6. a \in Nat
  BY <1>4 DEF HasAt
<1>7. PICK b : b = w[a + t + 1]
  OBVIOUS
<1>8. t = 0 => b = n
  <2>1. t = 0 => a + t + 1 = a + 1
    BY <1>6
  <2> QED
    BY <1>5, <1>7, <2>1
<1>9. t = 1 => b = "colon"
  <2>1. t = 1 => a + t + 1 = a + 2
    BY <1>6
  <2> QED
    BY <1>5, <1>7, <2>1
<1>10. t = 2 => b = "sp"
  <2>1. t = 2 => a + t + 1 = a + 3
    BY <1>6
  <2> QED
    BY <1>5, <1>7, <2>1
<1>11. ASSUME t \in 3 .. l + 2 PROVE b = v[t - 2]
  <2>1. a + 3 + (t - 2) = a + t + 1 /\ t - 2 \in 1 .. l
    BY <1>6, <1>11
  <2>2. w[a + 3 + (t - 2)] = v[t - 2]
    BY <1>3, <1>5, <2>1, Zenon DEF HasAt
  <2> QED
    BY <1>7, <2>1, <2>2
<1>12. t = l + 3 => b = "cr"
  <2>1. t = l + 3 => a + t + 1 = a + l + 4
    BY <1>6
  <2> QED
    BY <1>5, <1>7, <2>1
<1>13. t = l + 4 => b = "lf"
  <2>1. t = l + 4 => a + t + 1 = a + l + 5
    BY <1>6
  <2> QED
    BY <1>5, <1>7, <2>1
<1>14. FieldByte(r, c, t, b)
  BY <1>1, <1>2, <1>3, <1>8, <1>9, <1>10, <1>11, <1>12, <1>13 DEF FieldByte
<1> QED
  BY <1>7, <1>14

\* ... and a head in a text has these.
LEMMA HeadTextAt ==
    ASSUME NEW w, Len(w) \in Nat, NEW a, NEW r \in Response, HasAt(w, a, HeadOf(r)),
           NEW q \in Int
    PROVE  HeadText(r, q, w[a + q + 1])
<1>1. /\ HasAt(w, a, StatusLine(r))
      /\ \A c \in 1 .. Len(r.fields) :
            HasAt(w, a + FieldAt(r, c), FieldLine(<<r.fields[c][1], r.fields[c][2]>>))
      /\ w[a + BodyAt(r) - 1] = "cr" /\ w[a + BodyAt(r)] = "lf"
  BY HasHead
<1>2. a \in Nat
  BY <1>1 DEF HasAt
<1>3. /\ w[a + 1] = "H" /\ w[a + 2] = "TTP" /\ w[a + 3] = "sp"
      /\ w[a + 4] = r.code /\ w[a + 5] = "sp"
      /\ w[a + 6] = "Reason" /\ w[a + 7] = "sp" /\ w[a + 8] = "phrase"
      /\ w[a + 9] = "cr" /\ w[a + 10] = "lf"
  BY <1>1, HasStatusLine
<1>4. PICK b : b = w[a + q + 1]
  OBVIOUS
<1>5. /\ q = 0 => a + q + 1 = a + 1
      /\ q = 1 => a + q + 1 = a + 2
      /\ q = 2 => a + q + 1 = a + 3
      /\ q = 3 => a + q + 1 = a + 4
      /\ q = 4 => a + q + 1 = a + 5
      /\ q = 5 => a + q + 1 = a + 6
      /\ q = 6 => a + q + 1 = a + 7
      /\ q = 7 => a + q + 1 = a + 8
      /\ q = 8 => a + q + 1 = a + 9
      /\ q = 9 => a + q + 1 = a + 10
  BY <1>2
<1>6. PICK h \in Nat : h = BodyAt(r)
  BY HeadType
<1>7. /\ q = h - 2 => b = "cr"
      /\ q = h - 1 => b = "lf"
  <2>1. /\ q = h - 2 => a + q + 1 = a + h - 1
        /\ q = h - 1 => a + q + 1 = a + h
    BY <1>2
  <2> QED
    BY <1>1, <1>4, <1>6, <2>1
<1>8. ASSUME NEW c \in 1 .. Len(r.fields) PROVE FieldByte(r, c, q - FieldAt(r, c), b)
  <2>1. PICK f \in Nat : f = FieldAt(r, c)
    <3>1. c \in 1 .. Len(r.fields) + 1
      BY ResponseParts
    <3> QED
      BY <3>1, HeadType
  <2>2. PICK t \in Int : t = q - f
    OBVIOUS
  <2>3. PICK d : d = a + f
    OBVIOUS
  <2>4. HasAt(w, d, FieldLine(<<r.fields[c][1], r.fields[c][2]>>))
    BY <1>1, <2>1, <2>3
  <2>5. FieldByte(r, c, t, w[d + t + 1])
    BY <2>4, FieldByteAt
  <2>6. d + t + 1 = a + q + 1
    BY <1>2, <2>2, <2>3
  <2> QED
    BY <1>4, <2>1, <2>2, <2>5, <2>6
<1>9. /\ q = 0 => b = "H"
      /\ q = 1 => b = "TTP"
      /\ q \in {2, 4, 6} => b = "sp"
      /\ q = 3 => b = r.code
      /\ q = 5 => b = "Reason"
      /\ q = 7 => b = "phrase"
      /\ q = 8 => b = "cr"
      /\ q = 9 => b = "lf"
  BY <1>3, <1>4, <1>5
<1>10. HeadText(r, q, b)
  BY <1>6, <1>7, <1>8, <1>9 DEF HeadText
<1> QED
  BY <1>4, <1>10

\* A byte of a field.
LEMMA FieldPhase ==
    ASSUME p \in Fields, NEW r \in Sendable, NEW q, NEW c \in 1 .. Len(r.fields),
           p.at = "headers", Plain(p), p.statusCode = r.code, p.length = LengthOf(r.code),
           InField(r, p, c, q - FieldAt(r, c)), q \in Int, FieldByte(r, c, q - FieldAt(r, c), Byte),
           \/ ReadColon \/ ReadField \/ ReadReturn \/ EndOfLine \/ EndOfHeaders \/ ReportLength
    PROVE  Go(1, p') /\ out' = out /\ InHeaders(r, p', q + 1)
<1>1. r \in Response
  BY DEF Sendable
<1>2. PICK n \in Nat : n = Len(r.fields[c][2])
  BY <1>1, ResponseParts DEF Text
<1>3. PICK f \in Nat : f = FieldAt(r, c)
  <2>1. c \in 1 .. Len(r.fields) + 1
    BY <1>1, ResponseParts
  <2> QED
    BY <1>1, <2>1, HeadType
<1>4. PICK t \in Int : t = q - f
  OBVIOUS
<1>5. InField(r, p, c, t) /\ FieldByte(r, c, t, Byte)
  BY <1>3, <1>4
<1>6. t \in 0 .. n + 4
  <2>1. t = 0 \/ t = 1 \/ t \in 2 .. n + 4
    BY <1>2, <1>5, Zenon DEF InField
  <2> QED
    BY <2>1
<1>7. CASE t \in 0 .. n + 3
  <2>1. Go(1, p') /\ out' = out /\ Kept(p, p') /\ InField(r, p', c, t + 1)
    <3>1. CASE t = 0
      BY <1>5, <3>1, NamePhase
    <3>2. CASE t = 1
      BY <1>5, <3>2, ColonPhase
    <3>3. CASE t = 2
      BY <1>5, <3>3, SpacePhase
    <3>4. CASE t \in 3 .. n + 2
      BY <1>2, <1>5, <3>4, ValuePhase
    <3>5. CASE t = n + 3
      BY <1>2, <1>5, <3>5, ReturnPhase
    <3> QED
      BY <1>7, <3>1, <3>2, <3>3, <3>4, <3>5
  <2>2. t + 1 = (q + 1) - FieldAt(r, c)
    BY <1>3, <1>4
  <2>3. InField(r, p', c, (q + 1) - FieldAt(r, c))
    BY <2>1, <2>2
  <2>4. p'.at = "headers" /\ Plain(p') /\ p'.statusCode = r.code /\ p'.length = LengthOf(r.code)
    BY <2>1 DEF Kept, Plain
  <2> QED
    BY <2>1, <2>3, <2>4, Zenon DEF InHeaders
<1>8. CASE t = n + 4
  <2>1. /\ Go(1, p') /\ out' = out /\ Kept(p, p')
        /\ p'.name = <<>> /\ p'.symbol = <<>> /\ p'.endOfLine = 1 /\ p'.prev = "lf"
        /\ p'.headers = HeadersTo(r, c)
    BY <1>2, <1>5, <1>8, LineEndPhase
  <2>2. p'.at = "headers" /\ Plain(p') /\ p'.statusCode = r.code /\ p'.length = LengthOf(r.code)
    BY <2>1 DEF Kept, Plain
  <2>3. FieldAt(r, c + 1) = q + 1
    <3>1. FieldAt(r, c + 1) = f + n + 5
      BY <1>1, <1>2, <1>3, HeadType
    <3> QED
      BY <1>4, <1>8, <3>1
  <2>4. CASE c < Len(r.fields)
    <3>1. c + 1 \in 1 .. Len(r.fields) /\ (c + 1) - 1 = c
      BY <1>1, <2>4, ResponseParts
    <3>2. InField(r, p', c + 1, 0)
      BY <2>1, <3>1 DEF InField
    <3>3. (q + 1) - FieldAt(r, c + 1) = 0
      BY <2>3
    <3>4. InField(r, p', c + 1, (q + 1) - FieldAt(r, c + 1))
      BY <3>2, <3>3
    <3> QED
      BY <2>1, <2>2, <3>1, <3>4, Zenon DEF InHeaders
  <2>5. CASE c = Len(r.fields)
    <3>1. q + 1 = BodyAt(r) - 2
      BY <1>1, <2>3, <2>5, HeadType
    <3>2. InBlank(r, p', q + 1)
      BY <2>1, <2>5, <3>1 DEF InBlank
    <3> QED
      BY <2>1, <2>2, <3>2, Zenon DEF InHeaders
  <2> QED
    BY <1>1, <2>4, <2>5, ResponseParts
<1> QED
  BY <1>6, <1>7, <1>8

\* A byte of the head of the k-th response, or of the line end before it.
LEMMA HeadPhase ==
    ASSUME p \in Fields, sent \in Seq(Sendable), NEW k \in 1 .. Len(sent) + 1, NEW q \in Int,
           InHead(k, p, q), ReadHead \/ ReadBody,
           k <= Len(sent) => HeadText(sent[k], q, Byte),
           k > Len(sent) => q < 0,
           q = -2 => Byte = "cr", q = -1 => Byte = "lf"
    PROVE  /\ Go(1, p')
           /\ \/ out' = out /\ InHead(k, p', q + 1)
              \/ /\ k <= Len(sent) /\ q + 1 = BodyAt(sent[k])
                 /\ \E o : out' = Append(out, o) /\ InBody(sent[k], p', q + 1, o)
              \/ /\ k <= Len(sent) /\ ~sent[k].wellFormed /\ p'.at # "body"
                 /\ \E o : out' = Append(out, o) /\ Failed(o)
<1>1. CASE InVersion(p, q)
  <2>1. ReadVersion
    <3>1. p.at = "version"
      BY <1>1 DEF InVersion
    <3> QED
      BY <3>1, OnlyHead
  <2>2. q \in -2 .. 2
    BY <1>1 DEF InVersion
  <2>3. (q < 2 => Byte # "sp") /\ (q = 2 => k <= Len(sent) /\ Byte = "sp")
    <3>1. Len(sent) \in Nat
      BY WiresType
    <3>2. q = -2 \/ q = -1 \/ q = 0 \/ q = 1 \/ q = 2
      BY <2>2
    <3>3. q \in {0, 1, 2} => k <= Len(sent)
      BY <3>1
    <3> QED
      BY <3>2, <3>3 DEF HeadText
  <2>4. PICK r : r = sent[k]
    OBVIOUS
  <2>5. Go(1, p') /\ out' = out /\ (InVersion(p', q + 1) \/ InCode(r, p', q + 1))
    BY <1>1, <2>1, <2>3, VersionPhase
  <2>6. InCode(r, p', q + 1) => q = 2
    <3>1. InCode(r, p', q + 1) => q + 1 \in {3, 4}
      BY DEF InCode
    <3> QED
      BY <2>2, <3>1
  <2>7. InHead(k, p', q + 1)
    BY <2>3, <2>4, <2>5, <2>6 DEF InHead
  <2> QED
    BY <2>5, <2>7
<1>2. CASE k <= Len(sent) /\ (InCode(sent[k], p, q) \/ InMessage(sent[k], p, q) \/ InHeaders(sent[k], p, q))
  <2>1. PICK r \in Sendable : r = sent[k]
    BY <1>2, WiresType
  <2>2. HeadText(r, q, Byte) /\ k <= Len(sent) /\ r \in Response
    BY <1>2, <2>1 DEF Sendable
  <2>3. CASE InCode(r, p, q)
    <3>1. ReadStatusCode
      <4>1. p.at = "statusCode"
        BY <2>3 DEF InCode
      <4> QED
        BY <4>1, OnlyHead
    <3>2. (q = 3 => Byte = r.code) /\ (q = 4 => Byte = "sp")
      BY <2>2 DEF HeadText
    <3>3. Go(1, p') /\ out' = out /\ (InCode(r, p', q + 1) \/ InMessage(r, p', q + 1))
      BY <2>2, <2>3, <3>1, <3>2, CodePhase
    <3> QED
      BY <2>1, <2>2, <3>3 DEF InHead
  <2>4. CASE InMessage(r, p, q)
    <3>1. ReadStatusMessage
      <4>1. p.at = "statusMessage"
        BY <2>4 DEF InMessage
      <4> QED
        BY <4>1, OnlyHead
    <3>2. (q < 8 => Byte \notin {"cr", "lf"}) /\ (q = 8 => Byte = "cr") /\ (q = 9 => Byte = "lf")
      <4>1. q \in 5 .. 9
        BY <2>4 DEF InMessage
      <4>2. q = 5 \/ q = 6 \/ q = 7 \/ q = 8 \/ q = 9
        BY <4>1
      <4> QED
        BY <2>2, <4>2 DEF HeadText
    <3>3. Go(1, p') /\ out' = out /\ (InMessage(r, p', q + 1) \/ InHeaders(r, p', q + 1))
      BY <2>1, <2>4, <3>1, <3>2, MessagePhase
    <3> QED
      BY <2>1, <2>2, <3>3 DEF InHead
  <2>5. CASE InHeaders(r, p, q)
    <3>1. /\ p.at = "headers" /\ Plain(p) /\ p.statusCode = r.code /\ p.length = LengthOf(r.code)
      BY <2>5 DEF InHeaders
    <3>2. \/ ReadColon \/ ReadField \/ ReadReturn \/ EndOfLine \/ EndOfHeaders \/ ReportLength
      BY <3>1, OnlyHead
    <3>3. ASSUME NEW c \in 1 .. Len(r.fields), InField(r, p, c, q - FieldAt(r, c))
          PROVE  Go(1, p') /\ out' = out /\ InHeaders(r, p', q + 1)
      <4>1. FieldByte(r, c, q - FieldAt(r, c), Byte)
        BY <2>2 DEF HeadText
      <4> QED
        BY <2>1, <3>1, <3>2, <3>3, <4>1, FieldPhase
    <3>4. CASE InBlank(r, p, q)
      <4>1. BodyAt(r) \in Nat
        BY <2>2, HeadType
      <4>2. q = BodyAt(r) - 2 \/ q = BodyAt(r) - 1
        BY <3>4 DEF InBlank
      <4>3. CASE q = BodyAt(r) - 2
        <5>1. Byte = "cr"
          BY <2>2, <4>3 DEF HeadText
        <5>2. Go(1, p') /\ out' = out /\ Kept(p, p') /\ InBlank(r, p', q + 1)
          BY <2>1, <3>2, <3>4, <4>3, <5>1, BlankReturnPhase
        <5>3. p'.at = "headers" /\ Plain(p') /\ p'.statusCode = r.code /\ p'.length = LengthOf(r.code)
          BY <3>1, <5>2 DEF Kept, Plain
        <5>4. InHeaders(r, p', q + 1)
          BY <5>2, <5>3, Zenon DEF InHeaders
        <5> QED
          BY <2>1, <2>2, <5>2, <5>4 DEF InHead
      <4>4. CASE q = BodyAt(r) - 1
        <5>1. Byte = "lf"
          BY <2>2, <4>4 DEF HeadText
        <5>2. /\ Go(1, p')
              /\ \/ \E o : out' = Append(out, o) /\ InBody(r, p', BodyAt(r), o)
                 \/ /\ \E o : out' = Append(out, o) /\ Failed(o)
                    /\ ~r.wellFormed /\ p'.at # "body"
          BY <2>1, <3>1, <3>2, <3>4, <4>4, <5>1, BlankEndPhase
        <5>3. q + 1 = BodyAt(r)
          BY <4>1, <4>4
        <5> QED
          BY <2>1, <2>2, <5>2, <5>3
      <4> QED
        BY <4>2, <4>3, <4>4
    <3>5. CASE Go(1, p') /\ out' = out /\ InHeaders(r, p', q + 1)
      BY <2>1, <2>2, <3>5 DEF InHead
    <3> QED
      BY <2>5, <3>3, <3>4, <3>5 DEF InHeaders
  <2> QED
    BY <1>2, <2>1, <2>3, <2>4, <2>5
<1> QED
  BY <1>1, <1>2 DEF InHead

-----------------------------------------------------------------------------
(***************************************************************************)
(* Every byte of a body: the parser goes on in it, has told its end, or    *)
(* has found the response malformed.                                       *)
(***************************************************************************)
\* The parser goes on m bytes later, in the same body, or after it, or it has found
\* the response malformed.
Ends(k, q) ==
    LET e == Start(k) + Len(Wire(sent[k]))
    IN  /\ Done(out'[k], sent[k]) /\ InVersion(p', q - Len(Wire(sent[k])))
        /\ q < Len(Wire(sent[k])) => e > 1 /\ Whole[e - 1] = "cr" /\ Whole[e] = "lf"
Fails(k) == Failed(out'[k]) /\ ~sent[k].wellFormed /\ p'.at # "body"
BodyGoes(k, q) ==
    \E n \in 1 .. Left + 1 :
       /\ Go(n, p') /\ Others(k)
       /\ \/ InBody(sent[k], p', q + Min2(n, Left), out'[k])
          \/ Ends(k, q + Min2(n, Left))
          \/ Fails(k)

\* After a reset the parser is before a version.
LEMMA FreshVersion == \A d \in -2 .. 2 : InVersion(Fresh, d)
BY DEF InVersion, Fresh, Plain

\* What follows one byte.
LEMMA OneByte ==
    ASSUME Left \in Nat \ {0}, NEW k, NEW q \in Int, Go(1, p'), Others(k),
           InBody(sent[k], p', q + 1, out'[k]) \/ Ends(k, q + 1) \/ Fails(k)
    PROVE  BodyGoes(k, q)
<1>1. Min2(1, Left) = 1 /\ 1 \in 1 .. Left + 1
  BY DEF Min2
<1> QED
  BY <1>1 DEF BodyGoes

\* ... or n units of a body and the byte after them.
LEMMA ManyBytes ==
    ASSUME Left \in Nat \ {0}, NEW k, NEW q \in Int, NEW n \in 1 .. Left, Go(n + 1, p'), Others(k),
           NEW m, m = IF n = Left THEN n ELSE n + 1,
           InBody(sent[k], p', q + m, out'[k]) \/ Ends(k, q + m)
    PROVE  BodyGoes(k, q)
<1>1. Min2(n + 1, Left) = m /\ n + 1 \in 1 .. Left + 1
  BY DEF Min2
<1> QED
  BY <1>1 DEF BodyGoes

\* The length of a message whose body is not chunked.
LEMMA PlainBody ==
    ASSUME NEW r \in Sendable, r.coding # "chunked"
    PROVE  /\ BodyOf(r) = FlattenSeq(r.content) /\ Len(FlattenSeq(r.content)) \in Nat
           /\ Len(Wire(r)) = BodyAt(r) + Len(FlattenSeq(r.content)) /\ BodyAt(r) \in Nat
<1>1. r \in Response
  BY DEF Sendable
<1> QED
  BY <1>1, WireType, HeadType, ContentOffsets DEF BodyOf

\* A step in a body whose size was announced.
LEMMA FixedGoes ==
    ASSUME TypeOK, sent \in Seq(Sendable), Arrived, ReadHead \/ ReadBody,
           NEW k \in 1 .. Len(sent), k = Len(out), NEW q \in Int, q = Pos - Start(k),
           p.at = "body", InFixed(sent[k], p, q, out[k])
    PROVE  BodyGoes(k, q)
<1>1. PICK r \in Sendable : r = sent[k]
  BY WiresType
<1>2. PICK a \in Nat : a = Start(k)
  <2>1. k \in 1 .. Len(sent) + 1
    BY WiresType
  <2> QED
    BY <2>1, WholeType
<1>3. i <= Len(data)
  BY OnlyBody
<1>4. Pos \in Nat /\ Left \in Nat \ {0}
  BY <1>3, Ahead
<1>5. k # 0 /\ InFixed(r, p, Pos - a, out[k]) /\ r.coding # "chunked" /\ p.length = SizeOf(r)
      /\ ~p.chunked /\ SizeOf(r) = Len(FlattenSeq(r.content))
  BY <1>1, <1>2 DEF InFixed, ModeOf, SizeOf
<1>6. /\ BodyOf(r) = FlattenSeq(r.content) /\ Len(FlattenSeq(r.content)) \in Nat
      /\ Len(Wire(r)) = BodyAt(r) + Len(FlattenSeq(r.content)) /\ BodyAt(r) \in Nat
  BY <1>5, PlainBody
<1>7. CASE p.length = 0
  <2>1. ReadNoBody
    BY <1>7, OnlyBody
  <2>2. Go(1, p') /\ p' = Fresh /\ Others(k) /\ Done(out'[k], r)
    BY <1>5, <1>7, <2>1, NoBodyPhase
  <2>3. q = Len(Wire(r))
    <3>1. p.read \in Nat
      BY DEF TypeOK, Fields
    <3>2. p.read = q - BodyAt(r) /\ p.read = 0
      BY <1>1, <1>7, <3>1 DEF InFixed
    <3> QED
      BY <1>5, <1>6, <1>7, <3>2
  <2>4. (q + 1) - Len(Wire(r)) = 1 /\ ~(q + 1 < Len(Wire(r)))
    BY <1>6, <2>3
  <2>5. InVersion(p', (q + 1) - Len(Wire(r)))
    BY <2>2, <2>4, FreshVersion
  <2>6. Ends(k, q + 1)
    BY <1>1, <2>2, <2>4, <2>5, Zenon DEF Ends
  <2> QED
    BY <1>4, <2>2, <2>6, OneByte
<1>8. CASE p.length # 0
  <2>1. ReadFixed
    <3>1. p.length # Undefined
      BY <1>5, <1>6 DEF Undefined
    <3> QED
      BY <1>5, <1>8, <3>1, OnlyBody
  <2>2. HasAt(Whole, a + BodyAt(r), FlattenSeq(r.content))
    <3>1. HasAt(Whole, a, Wire(r)) /\ Len(Whole) \in Nat
      BY <1>1, <1>2, WholeType
    <3> QED
      BY <1>6, <3>1, HasWire
  <2>0. Pos - a \in Nat
    <3>1. p.read \in Nat
      BY DEF TypeOK, Fields
    <3>2. p.read = (Pos - a) - BodyAt(r)
      BY <1>5 DEF InFixed
    <3> QED
      BY <1>4, <1>6, <3>1, <3>2
  <2>3. PICK n \in 1 .. Left :
              /\ Go(n + 1, p') /\ Others(k)
              /\ \/ /\ n = Left /\ p'.at = "body"
                    /\ InFixed(r, p', Pos - a + n, out'[k])
                 \/ /\ p' = Fresh /\ Done(out'[k], r)
                    /\ Pos - a + n = BodyAt(r) + Len(FlattenSeq(r.content))
    BY <1>3, <1>5, <1>8, <2>0, <2>1, <2>2, FixedPhase
  <2>4. Pos - a + n = q + n
    BY <1>2
  <2>5. CASE n = Left /\ p'.at = "body" /\ InFixed(r, p', Pos - a + n, out'[k])
    <3>1. InBody(r, p', q + n, out'[k])
      BY <2>4, <2>5 DEF InBody
    <3> QED
      BY <1>1, <1>4, <2>3, <2>5, <3>1, ManyBytes
  <2>6. CASE /\ p' = Fresh /\ Done(out'[k], r)
             /\ Pos - a + n = BodyAt(r) + Len(FlattenSeq(r.content))
    <3>1. PICK m : m = IF n = Left THEN n ELSE n + 1
      OBVIOUS
    <3>2. (q + m) - Len(Wire(r)) \in 0 .. 1 /\ ~(q + m < Len(Wire(r)))
      <4>1. q + n = Len(Wire(r)) /\ n \in Nat
        BY <1>4, <1>6, <2>4, <2>6
      <4> QED
        BY <3>1, <4>1
    <3>3. InVersion(p', (q + m) - Len(Wire(r)))
      BY <2>6, <3>2, FreshVersion
    <3>4. Ends(k, q + m)
      BY <1>1, <2>6, <3>2, <3>3, Zenon DEF Ends
    <3> QED
      BY <1>4, <2>3, <3>1, <3>4, ManyBytes
  <2> QED
    BY <2>3, <2>5, <2>6
<1> QED
  BY <1>7, <1>8

\* A step in a body that ends with the connection.
LEMMA CloseGoes ==
    ASSUME TypeOK, sent \in Seq(Sendable), Arrived, ReadHead \/ ReadBody,
           NEW k \in 1 .. Len(sent), k = Len(out), NEW q \in Int,
           p.at = "body", InClose(sent[k], p, out[k])
    PROVE  BodyGoes(k, q)
<1>1. i <= Len(data) /\ ReadUntilClose /\ k # 0
  BY OnlyBody DEF InClose
<1>2. Left \in Nat \ {0}
  BY <1>1, Ahead
<1>3. Go(1, p') /\ Others(k) /\ InClose(sent[k], p', out'[k]) /\ p'.at = p.at
  BY <1>1, ClosePhase
<1>4. InBody(sent[k], p', q + 1, out'[k])
  BY <1>3 DEF InBody
<1> QED
  BY <1>2, <1>3, <1>4, OneByte

-----------------------------------------------------------------------------
(***************************************************************************)
(* The parser's place in a chunked body.                                   *)
(***************************************************************************)
\* The k-th response is r, whose body is chunked, and q bytes of it were read.
Chunking(k, r, q) ==
    /\ k \in 1 .. Len(sent) /\ k = Len(out) /\ r = sent[k] /\ r \in Sendable
    /\ r.coding = "chunked" /\ q \in Int /\ q = Pos - Start(k)
    /\ p.at = "body" /\ p.length = Undefined /\ p.chunked

\* The line before a chunk has these bytes.
LEMMA SizeByteAt ==
    ASSUME NEW w, Len(w) \in Nat, NEW a, NEW c, Numeral(Len(c)) \in Symbols,
           HasAt(w, a, SizeLine(c)), NEW t \in Nat
    PROVE  SizeByte(t, Numeral(Len(c)), w[a + t + 1])
<1>1. PICK d : d = Numeral(Len(c))
  OBVIOUS
<1>2. PICK x : x = Extension
  OBVIOUS
<1>3. PICK e \in Nat : e = Len(x)
  BY <1>2, ExtensionType
<1>4. /\ w[a + 1] = d /\ HasAt(w, a + 1, x)
      /\ w[a + e + 2] = "cr" /\ w[a + e + 3] = "lf"
  BY <1>1, <1>2, <1>3, HasSizeLine
<1>5. a \in Nat
  BY DEF HasAt
<1>6. PICK b : b = w[a + t + 1]
  OBVIOUS
<1>7. t = 0 => b = d
  <2>1. t = 0 => a + t + 1 = a + 1
    BY <1>5
  <2> QED
    BY <1>4, <1>6, <2>1
<1>8. ASSUME t \in 1 .. e PROVE b = x[t]
  <2>1. w[(a + 1) + t] = x[t]
    BY <1>3, <1>4, <1>8, Zenon DEF HasAt
  <2>2. (a + 1) + t = a + t + 1
    BY <1>5
  <2> QED
    BY <1>6, <2>1, <2>2
<1>9. /\ t = e + 1 => b = "cr"
      /\ t = e + 2 => b = "lf"
  <2>1. /\ t = e + 1 => a + t + 1 = a + e + 2
        /\ t = e + 2 => a + t + 1 = a + e + 3
    BY <1>5
  <2> QED
    BY <1>4, <1>6, <2>1
<1>10. SizeByte(t, d, b)
  BY <1>2, <1>3, <1>7, <1>8, <1>9 DEF SizeByte
<1> QED
  BY <1>1, <1>6, <1>10

\* The parser goes on in the same body.
LEMMA KeepsChunking ==
    ASSUME NEW k, NEW r, NEW q, Chunking(k, r, q), BodyKept(p, p'), NEW m,
           \/ \E c \in 1 .. Len(r.content) : InChunk(r, p', c, m - ChunkAt(r, c), out'[k])
           \/ InLast(r, p', m - ChunkAt(r, Len(r.content) + 1), out'[k])
    PROVE  InBody(sent[k], p', m, out'[k])
<1>1. r = sent[k] /\ p'.at = "body" /\ p'.length = Undefined /\ p'.chunked /\ r.coding = "chunked"
  BY DEF Chunking, BodyKept
<1>2. ModeOf(r) = "CHUNKED"
  BY <1>1 DEF ModeOf
<1>3. InChunks(r, p', m, out'[k])
  BY <1>1, <1>2, Zenon DEF InChunks
<1> QED
  BY <1>1, <1>3, Zenon DEF InBody

\* A step without an event.
LEMMA Unsaid ==
    ASSUME NEW k, k = Len(out), out' = out
    PROVE  Others(k) /\ out'[k] = out[k]
BY DEF Others

\* What is sent where the parser reads.
LEMMA ChunkingAt ==
    ASSUME TypeOK, sent \in Seq(Sendable), Arrived, i <= Len(data),
           NEW k, NEW r, NEW q, Chunking(k, r, q)
    PROVE  /\ r \in Response /\ Len(r.content) \in Nat /\ k # 0
           /\ Start(k) \in Nat /\ Pos = Start(k) + q /\ Byte = Whole[Start(k) + q + 1]
           /\ HasAt(Whole, Start(k), Wire(r)) /\ HasAt(Whole, Start(k) + BodyAt(r), BodyOf(r))
           /\ Len(Whole) \in Nat /\ Left \in Nat \ {0}
<1>1. r \in Sendable /\ k \in 1 .. Len(sent) /\ r = sent[k] /\ q \in Int /\ q = Pos - Start(k)
  BY DEF Chunking
<1>2. PICK a \in Nat : a = Start(k)
  <2>1. k \in 1 .. Len(sent) + 1
    BY <1>1, WiresType
  <2> QED
    BY <2>1, WholeType
<1>3. PICK x \in Nat : x = Pos
  BY Ahead
<1>4. x = a + q /\ x + 1 = a + q + 1
  BY <1>1, <1>2, <1>3
<1>5. Byte = Whole[x + 1] /\ Left \in Nat \ {0}
  BY <1>3, Ahead
<1>6. PICK w : w = Whole
  OBVIOUS
<1>7. Len(w) \in Nat /\ HasAt(w, a, Wire(r))
  BY <1>1, <1>2, <1>6, WholeType
<1>8. HasAt(w, a + BodyAt(r), BodyOf(r))
  BY <1>1, <1>7, HasWire, Zenon
<1>9. r \in Response /\ Len(r.content) \in Nat
  BY <1>1, ResponseParts DEF Sendable
<1>10. Pos = a + q /\ Byte = Whole[a + q + 1]
  BY <1>3, <1>4, <1>5
<1>11. k # 0
  BY <1>1
<1> QED
  BY <1>1, <1>2, <1>5, <1>6, <1>7, <1>8, <1>9, <1>10, <1>11, Zenon

\* The parser is t symbols after the beginning of the c-th chunk.
ChunkHere(r, c, t) ==
    \E b \in Nat :
       /\ Pos = b + t /\ Byte = Whole[b + t + 1] /\ Len(Whole) \in Nat
       /\ HasAt(Whole, b, Chunk(r.content[c]))
       /\ r.content[c] \in Text /\ Numeral(Len(r.content[c])) \in Symbols \ Marks

\* The c-th chunk is where it is expected.
LEMMA ChunkIsAt ==
    ASSUME TypeOK, sent \in Seq(Sendable), Arrived, i <= Len(data),
           NEW k, NEW r, NEW q, Chunking(k, r, q), NEW c \in 1 .. Len(r.content),
           NEW t \in Nat, t = q - ChunkAt(r, c)
    PROVE  ChunkHere(r, c, t)
<1>1. PICK a \in Nat : a = Start(k)
  BY ChunkingAt
<1>2. /\ r \in Response /\ Len(r.content) \in Nat /\ Pos = a + q /\ Byte = Whole[a + q + 1]
      /\ HasAt(Whole, a + BodyAt(r), BodyOf(r)) /\ Len(Whole) \in Nat
  BY <1>1, ChunkingAt
<1>3. r \in Sendable /\ r.coding = "chunked" /\ q \in Int
  BY DEF Chunking
<1>4. PICK w : w = Whole
  OBVIOUS
<1>5. PICK h \in Nat : h = ChunkAt(r, c)
  <2>1. c \in 1 .. Len(r.content) + 1
    BY <1>2
  <2> QED
    BY <1>3, <2>1, ChunkOffsets
<1>6. HasAt(w, a + ChunkAt(r, c), Chunk(r.content[c]))
  <2>1. HasAt(w, a + BodyAt(r), BodyOf(r)) /\ Len(w) \in Nat
    BY <1>2, <1>4, Zenon
  <2> QED
    BY <1>3, <2>1, HasChunks, Zenon DEF ChunksIn
<1>7. PICK b \in Nat : b = a + h
  OBVIOUS
<1>8. HasAt(w, b, Chunk(r.content[c]))
  BY <1>5, <1>6, <1>7, Zenon
<1>9. a + q = b + t /\ a + q + 1 = b + t + 1
  BY <1>3, <1>5, <1>7
<1>10. r.content[c] \in Text /\ Numeral(Len(r.content[c])) \in Symbols \ Marks
  BY <1>2, <1>3, ResponseParts, SendableNumerals
<1> QED
  BY <1>2, <1>4, <1>7, <1>8, <1>9, <1>10, Zenon DEF ChunkHere

\* In the size of a chunk.
LEMMA SizeGoes ==
    ASSUME TypeOK, sent \in Seq(Sendable), Arrived, ReadHead \/ ReadBody,
           NEW k, NEW r, NEW q, Chunking(k, r, q), NEW c \in 1 .. Len(r.content),
           NEW t, t = q - ChunkAt(r, c), InSize(p, t, Numeral(Len(r.content[c]))),
           Says(out[k], r, Offset(r.content, c))
    PROVE  BodyGoes(k, q)
<1>1. /\ r \in Sendable /\ r.coding = "chunked" /\ k = Len(out) /\ q \in Int /\ p.at = "body"
      /\ p.length = Undefined /\ p.chunked
  BY DEF Chunking
<1>2. p.chunk = "header" /\ t \in 0 .. Len(Extension) + 2
  BY DEF InSize
<1>3. PICK e \in Nat : e = Len(Extension)
  BY ExtensionType
<1>4. i <= Len(data) /\ (ReadChunkSize \/ ReportChunkSize \/ BeginChunk \/ EndChunked)
  <2>1. p.length # 0
    BY <1>1 DEF Undefined
  <2> QED
    BY <1>1, <1>2, <2>1, OnlyBody
<1>5. t \in Nat
  BY <1>2, <1>3
<1>6. PICK d : d = Numeral(Len(r.content[c]))
  OBVIOUS
<1>7. d \in Digits /\ Numerals[d] = Len(r.content[c]) /\ d \in Symbols \ Marks
      /\ Len(r.content[c]) \in Nat \ {0}
  BY <1>1, <1>6, SendableNumerals
<1>8. SizeByte(t, d, Byte)
  <2>0. ChunkHere(r, c, t)
    BY <1>4, <1>5, ChunkIsAt
  <2>1. PICK b \in Nat :
              /\ Pos = b + t /\ Byte = Whole[b + t + 1] /\ Len(Whole) \in Nat
              /\ HasAt(Whole, b, Chunk(r.content[c]))
              /\ r.content[c] \in Text /\ Numeral(Len(r.content[c])) \in Symbols \ Marks
    BY <2>0 DEF ChunkHere
  <2>2. PICK w : w = Whole
    OBVIOUS
  <2>3. Len(w) \in Nat /\ HasAt(w, b, Chunk(r.content[c])) /\ Numeral(Len(r.content[c])) \in Symbols
    BY <2>1, <2>2
  <2>4. HasAt(w, b, SizeLine(r.content[c]))
    BY <2>1, <2>3, HasChunk, Zenon DEF ChunkIn
  <2>5. SizeByte(t, Numeral(Len(r.content[c])), w[b + t + 1])
    BY <1>5, <2>3, <2>4, SizeByteAt
  <2> QED
    BY <1>6, <2>1, <2>2, <2>5
<1>9. p \in Fields /\ Left \in Nat \ {0}
  BY <1>4, Ahead DEF TypeOK
<1>10. (q + 1) - ChunkAt(r, c) = t + 1
  <2>1. c \in 1 .. Len(r.content) + 1
    BY <1>4, ChunkingAt
  <2>2. ChunkAt(r, c) \in Nat
    BY <1>1, <2>1, ChunkOffsets
  <2> QED
    BY <1>1, <2>2
<1>11. ASSUME Go(1, p'), out' = out, BodyKept(p, p'), InChunk(r, p', c, t + 1, out'[k])
       PROVE  BodyGoes(k, q)
  <2>1. InBody(sent[k], p', q + 1, out'[k])
    <3>1. InChunk(r, p', c, (q + 1) - ChunkAt(r, c), out'[k])
      BY <1>10, <1>11
    <3> QED
      BY <1>11, <3>1, KeepsChunking
  <2> QED
    BY <1>1, <1>9, <1>11, <2>1, Unsaid, OneByte
<1>12. CASE t # e + 2
  <2>1. Go(1, p') /\ out' = out /\ BodyKept(p, p') /\ InSize(p', t + 1, d)
    BY <1>3, <1>4, <1>6, <1>7, <1>8, <1>9, <1>12, SizePhase
  <2>2. InChunk(r, p', c, t + 1, out'[k])
    BY <1>6, <2>1 DEF InChunk
  <2> QED
    BY <1>11, <2>1, <2>2
<1>13. CASE t = e + 2
  <2>1. /\ Go(1, p') /\ out' = out /\ BodyKept(p, p')
        /\ p'.chunk = "data" /\ p'.chunkSize = Numerals[d] /\ p'.chunkRead = 0
    BY <1>3, <1>4, <1>6, <1>7, <1>8, <1>9, <1>13, SizeEnd
  <2>2. InChunk(r, p', c, t + 1, out'[k])
    <3>1. t + 1 = e + 3 + 0 /\ 0 \in 0 .. Len(r.content[c]) - 1
      BY <1>7, <1>13
    <3>2. Offset(r.content, c) + 0 = Offset(r.content, c)
      <4>1. c \in 1 .. Len(r.content) + 1 /\ r \in Response
        BY <1>4, ChunkingAt
      <4> QED
        BY <4>1, ContentOffsets
    <3> QED
      BY <1>3, <1>7, <2>1, <3>1, <3>2 DEF InChunk
  <2> QED
    BY <1>11, <2>1, <2>2
<1> QED
  BY <1>12, <1>13

\* In the data of a chunk.
LEMMA DataGoes ==
    ASSUME TypeOK, sent \in Seq(Sendable), Arrived, ReadHead \/ ReadBody,
           NEW k, NEW r, NEW q, Chunking(k, r, q), NEW c \in 1 .. Len(r.content),
           NEW t, t = q - ChunkAt(r, c), p.chunk = "data",
           p.chunkSize = Len(r.content[c]), p.chunkRead \in 0 .. Len(r.content[c]) - 1,
           t = Len(Extension) + 3 + p.chunkRead,
           Says(out[k], r, Offset(r.content, c) + p.chunkRead)
    PROVE  BodyGoes(k, q)
<1>1. /\ r \in Sendable /\ r.coding = "chunked" /\ k = Len(out) /\ q \in Int /\ p.at = "body"
      /\ p.length = Undefined /\ p.chunked
  BY DEF Chunking
<1>2. i <= Len(data) /\ ReadChunkData
  <2>1. p.length # 0
    BY <1>1 DEF Undefined
  <2> QED
    BY <1>1, <2>1, OnlyBody
<1>3. PICK e \in Nat : e = Len(Extension)
  BY ExtensionType
<1>4. PICK n \in Nat \ {0} : n = Len(r.content[c])
  BY <1>1, SendableNumerals
<1>5. PICK x \in Nat : x = p.chunkRead /\ x < n
  BY <1>4
<1>6. t \in Nat /\ t = e + 3 + x
  BY <1>3, <1>5
<1>7. /\ r \in Response /\ Len(r.content) \in Nat /\ k # 0 /\ Left \in Nat \ {0}
  BY <1>2, ChunkingAt
<1>8. ChunkHere(r, c, t)
  BY <1>2, <1>6, ChunkIsAt
<1>9. PICK b \in Nat :
            /\ Pos = b + t /\ Len(Whole) \in Nat
            /\ HasAt(Whole, b, Chunk(r.content[c]))
            /\ r.content[c] \in Text /\ Numeral(Len(r.content[c])) \in Symbols
  BY <1>8 DEF ChunkHere
<1>10. PICK a \in Nat : a = b + e + 3
  OBVIOUS
<1>11. HasAt(Whole, a, r.content[c])
  <2>1. PICK w : w = Whole
    OBVIOUS
  <2>2. Len(w) \in Nat /\ HasAt(w, b, Chunk(r.content[c]))
    BY <1>9, <2>1
  <2>3. HasAt(w, b + Len(Extension) + 3, r.content[c])
    BY <1>9, <2>2, HasChunk, Zenon DEF ChunkIn
  <2> QED
    BY <1>3, <1>10, <2>1, <2>3
<1>12. Pos = a + p.chunkRead
  <2>1. b + (e + 3 + x) = (b + e + 3) + x
    OBVIOUS
  <2> QED
    BY <1>5, <1>6, <1>9, <1>10, <2>1, Zenon
<1>13. PICK m \in 1 .. Left :
              /\ Go(m + 1, p') /\ Others(k) /\ BodyKept(p, p')
              /\ p.chunkRead + m <= p.chunkSize
              /\ Says(out'[k], r, Offset(r.content, c) + p.chunkRead + m)
              /\ \/ /\ m = Left /\ p'.chunk = "data" /\ p'.chunkSize = p.chunkSize
                    /\ p'.chunkRead = p.chunkRead + m /\ p'.chunkRead < p'.chunkSize
                 \/ p'.chunk = "end" /\ p.chunkRead + m = p.chunkSize
  <2>1. p.chunkSize = Len(r.content[c]) /\ p.chunkRead < p.chunkSize
    BY <1>4, <1>5
  <2> QED
    <3>1. MoreOfChunk(k, r, c)
      BY <1>1, <1>2, <1>7, <1>11, <1>12, <2>1, ChunkDataPhase
    <3> QED
      BY <3>1 DEF MoreOfChunk
<1>14. PICK j : j = IF m = Left THEN m ELSE m + 1
  OBVIOUS
<1>15. j \in {m, m + 1} /\ m \in Nat
  BY <1>7, <1>14
<1>16. PICK h \in Nat : h = ChunkAt(r, c)
  <2>1. c \in 1 .. Len(r.content) + 1
    BY <1>7
  <2> QED
    BY <1>1, <2>1, ChunkOffsets
<1>17. PICK o \in Nat : o = Offset(r.content, c)
  <2>1. c \in 1 .. Len(r.content) + 1
    BY <1>7
  <2> QED
    BY <1>7, <2>1, ContentOffsets
<1>18. (q + j) - ChunkAt(r, c) = t + j
  BY <1>1, <1>15, <1>16
<1>19. InChunk(r, p', c, t + j, out'[k])
  <2>1. CASE /\ m = Left /\ p'.chunk = "data" /\ p'.chunkSize = p.chunkSize
             /\ p'.chunkRead = p.chunkRead + m /\ p'.chunkRead < p'.chunkSize
    <3>1. PICK y \in Nat : y = x + m
      BY <1>15
    <3>5. p'.chunkRead = y /\ p'.chunkSize = n /\ y < n
      BY <1>4, <1>5, <2>1, <3>1, Zenon
    <3>2. p'.chunkRead = y /\ p'.chunkSize = n /\ y \in 0 .. n - 1
      BY <3>5
    <3>6. j = m
      BY <1>14, <2>1
    <3>3. t + j = e + 3 + y /\ o + x + m = o + y
      BY <1>6, <1>15, <3>1, <3>6
    <3>4. Says(out'[k], r, o + y)
      BY <1>5, <1>13, <1>17, <3>3
    <3> QED
      BY <1>3, <1>4, <1>17, <2>1, <3>2, <3>3, <3>4 DEF InChunk
  <2>2. CASE p'.chunk = "end" /\ p.chunkRead + m = p.chunkSize
    <3>1. x + m = n
      BY <1>4, <1>5, <2>2
    <3>4. e + 3 + x + m = e + 3 + n /\ e + 3 + x + (m + 1) = e + 3 + n + 1 /\ o + x + m = o + n
      BY <1>15, <3>1
    <3>2. t + j \in {e + 3 + n, e + 3 + n + 1} /\ o + x + m = o + n
      BY <1>6, <1>15, <3>4, Zenon
    <3>3. Says(out'[k], r, o + n)
      BY <1>5, <1>13, <1>17, <3>2
    <3> QED
      BY <1>3, <1>4, <1>17, <2>2, <3>2, <3>3 DEF InChunk
  <2> QED
    BY <1>13, <2>1, <2>2
<1>20. InBody(sent[k], p', q + j, out'[k])
  <2>1. InChunk(r, p', c, (q + j) - ChunkAt(r, c), out'[k])
    BY <1>18, <1>19
  <2> QED
    BY <1>13, <2>1, KeepsChunking
<1> QED
  BY <1>1, <1>7, <1>13, <1>14, <1>20, ManyBytes

\* After them.
LEMMA EndGoes ==
    ASSUME TypeOK, sent \in Seq(Sendable), Arrived, ReadHead \/ ReadBody,
           NEW k, NEW r, NEW q, Chunking(k, r, q), NEW c \in 1 .. Len(r.content),
           NEW t, t = q - ChunkAt(r, c), p.chunk = "end",
           t \in {Len(Extension) + 3 + Len(r.content[c]), Len(Extension) + 3 + Len(r.content[c]) + 1},
           Says(out[k], r, Offset(r.content, c) + Len(r.content[c]))
    PROVE  BodyGoes(k, q)
<1>1. /\ r \in Sendable /\ r.coding = "chunked" /\ k = Len(out) /\ q \in Int /\ p.at = "body"
      /\ p.length = Undefined /\ p.chunked
  BY DEF Chunking
<1>2. i <= Len(data) /\ EndChunk
  <2>1. p.length # 0
    BY <1>1 DEF Undefined
  <2> QED
    BY <1>1, <2>1, OnlyBody
<1>3. PICK e \in Nat : e = Len(Extension)
  BY ExtensionType
<1>4. PICK n \in Nat \ {0} : n = Len(r.content[c])
  BY <1>1, SendableNumerals
<1>5. t \in Nat /\ t \in {e + 3 + n, e + 3 + n + 1}
  <2>1. t \in {e + 3 + n, e + 3 + n + 1}
    BY <1>3, <1>4, Zenon
  <2> QED
    BY <2>1
<1>6. r \in Response /\ Len(r.content) \in Nat /\ Left \in Nat \ {0} /\ p \in Fields
  BY <1>2, ChunkingAt DEF TypeOK
<1>7. ChunkHere(r, c, t)
  BY <1>2, <1>5, ChunkIsAt
<1>8. PICK b \in Nat :
            /\ Byte = Whole[b + t + 1] /\ Len(Whole) \in Nat
            /\ HasAt(Whole, b, Chunk(r.content[c]))
            /\ r.content[c] \in Text /\ Numeral(Len(r.content[c])) \in Symbols
  BY <1>7 DEF ChunkHere
<1>9. Whole[b + e + n + 4] = "cr" /\ Whole[b + e + n + 5] = "lf"
  <2>1. PICK w : w = Whole
    OBVIOUS
  <2>2. Len(w) \in Nat /\ HasAt(w, b, Chunk(r.content[c]))
    BY <1>8, <2>1
  <2>3. /\ w[b + Len(Extension) + Len(r.content[c]) + 4] = "cr"
        /\ w[b + Len(Extension) + Len(r.content[c]) + 5] = "lf"
    <3>1. ChunkIn(w, b, r.content[c])
      BY <1>8, <2>2, HasChunk, Zenon
    <3> QED
      BY <3>1 DEF ChunkIn
  <2> QED
    BY <1>3, <1>4, <2>1, <2>3
<1>10. PICK h \in Nat : h = ChunkAt(r, c) /\ ChunkAt(r, c + 1) = h + e + n + 5
  <2>1. c \in 1 .. Len(r.content) + 1
    BY <1>6
  <2> QED
    BY <1>1, <1>3, <1>4, <2>1, ChunkOffsets
<1>11. q = h + t
  BY <1>1, <1>10
<1>12. Go(1, p') /\ out' = out /\ BodyKept(p, p') /\ (Byte # "lf" => p'.chunk = "end")
       /\ (Byte = "lf" => \A d : InSize(p', 0, d))
  BY <1>2, <1>6, ChunkEndPhase
<1>13. CASE t = e + 3 + n
  <2>1. Byte # "lf"
    <3>1. b + t + 1 = b + e + n + 4
      <4>1. b + (e + 3 + n) + 1 = b + e + n + 4
        OBVIOUS
      <4> QED
        BY <1>13, <4>1, Zenon
    <3> QED
      BY <1>8, <1>9, <3>1
  <2>2. InChunk(r, p', c, t + 1, out'[k])
    BY <1>3, <1>4, <1>12, <1>13, <2>1 DEF InChunk
  <2>3. (q + 1) - ChunkAt(r, c) = t + 1
    BY <1>5, <1>10, <1>11
  <2>4. InBody(sent[k], p', q + 1, out'[k])
    <3>1. InChunk(r, p', c, (q + 1) - ChunkAt(r, c), out'[k])
      BY <2>2, <2>3
    <3> QED
      BY <1>12, <3>1, KeepsChunking
  <2> QED
    BY <1>1, <1>6, <1>12, <2>4, Unsaid, OneByte
<1>14. CASE t = e + 3 + n + 1
  <2>1. Byte = "lf"
    <3>1. b + t + 1 = b + e + n + 5
      BY <1>14
    <3> QED
      BY <1>8, <1>9, <3>1
  <2>2. (q + 1) - ChunkAt(r, c + 1) = 0
    <3>1. ((h + t) + 1) - (h + e + n + 5) = 0
      BY <1>14
    <3> QED
      BY <1>10, <1>11, <3>1, Zenon
  <2>3. Says(out'[k], r, Offset(r.content, c + 1))
    BY <1>6, <1>12, ContentOffsets
  <2>4. \/ \E x \in 1 .. Len(r.content) : InChunk(r, p', x, (q + 1) - ChunkAt(r, x), out'[k])
        \/ InLast(r, p', (q + 1) - ChunkAt(r, Len(r.content) + 1), out'[k])
    <3>1. CASE c < Len(r.content)
      <4>1. c + 1 \in 1 .. Len(r.content)
        BY <1>6, <3>1
      <4>2. InSize(p', 0, Numeral(Len(r.content[c + 1])))
        BY <1>12, <2>1
      <4>3. InChunk(r, p', c + 1, 0, out'[k])
        BY <2>3, <4>2 DEF InChunk
      <4> QED
        BY <2>2, <4>1, <4>3
    <3>2. CASE c = Len(r.content)
      <4>1. Says(out'[k], r, Len(FlattenSeq(r.content)))
        BY <1>6, <2>3, <3>2, ContentOffsets
      <4>2. InSize(p', 0, Numeral(0))
        BY <1>12, <2>1
      <4>3. p'.chunk = "header" /\ p'.symbol = <<>>
        BY <4>2 DEF InSize
      <4>4. InLast(r, p', 0, out'[k])
        BY <4>1, <4>2, <4>3 DEF InLast
      <4> QED
        BY <2>2, <3>2, <4>4
    <3> QED
      BY <1>6, <3>1, <3>2
  <2>5. InBody(sent[k], p', q + 1, out'[k])
    BY <1>12, <2>4, KeepsChunking
  <2> QED
    BY <1>1, <1>6, <1>12, <2>5, Unsaid, OneByte
<1> QED
  BY <1>5, <1>13, <1>14

\* The parser is t symbols after the beginning of the last chunk, which is followed
\* by the end of the message.
LastHere(k, r, q, t) ==
    \E b \in Nat :
       /\ Byte = Whole[b + t + 1] /\ Len(Whole) \in Nat
       /\ HasAt(Whole, b, LastChunk(r))
       /\ LET e == b + Len(LastChunk(r))
          IN  /\ Whole[e + 1] = "cr" /\ Whole[e + 2] = "lf"
              /\ e + 2 = Start(k) + Len(Wire(r)) /\ q - Len(Wire(r)) = t - Len(LastChunk(r)) - 2

\* The last chunk is where it is expected.
LEMMA LastIsAt ==
    ASSUME TypeOK, sent \in Seq(Sendable), Arrived, i <= Len(data),
           NEW k, NEW r, NEW q, Chunking(k, r, q),
           NEW t \in Nat, t = q - ChunkAt(r, Len(r.content) + 1)
    PROVE  LastHere(k, r, q, t)
<1>1. PICK a \in Nat : a = Start(k)
  BY ChunkingAt
<1>2. /\ r \in Response /\ Len(r.content) \in Nat /\ Byte = Whole[a + q + 1]
      /\ HasAt(Whole, a + BodyAt(r), BodyOf(r)) /\ Len(Whole) \in Nat
  BY <1>1, ChunkingAt
<1>3. r \in Sendable /\ r.coding = "chunked" /\ q \in Int
  BY DEF Chunking
<1>4. PICK w : w = Whole
  OBVIOUS
<1>5. PICK h \in Nat : h = ChunkAt(r, Len(r.content) + 1)
  <2>1. Len(r.content) + 1 \in 1 .. Len(r.content) + 1
    BY <1>2
  <2> QED
    BY <1>3, <2>1, ChunkOffsets
<1>6. PICK l \in Nat : l = Len(LastChunk(r))
  BY <1>3, LastChunkType DEF Text
<1>7. PICK b \in Nat : b = a + h
  OBVIOUS
<1>8. /\ HasAt(w, a + h, LastChunk(r))
      /\ w[a + h + l + 1] = "cr" /\ w[a + h + l + 2] = "lf"
      /\ a + h + l + 2 = a + Len(Wire(r))
  <2>1. HasAt(w, a + BodyAt(r), BodyOf(r)) /\ Len(w) \in Nat
    BY <1>2, <1>4, Zenon
  <2>2. /\ HasAt(w, a + ChunkAt(r, Len(r.content) + 1), LastChunk(r))
        /\ LET e == a + ChunkAt(r, Len(r.content) + 1) + Len(LastChunk(r))
           IN  w[e + 1] = "cr" /\ w[e + 2] = "lf" /\ e + 2 = a + Len(Wire(r))
    <3>1. ChunksIn(w, a, r)
      BY <1>3, <2>1, HasChunks, Zenon
    <3> QED
      BY <3>1, Zenon DEF ChunksIn
  <2> QED
    BY <1>5, <1>6, <2>2
<1>9. a + q + 1 = b + t + 1 /\ q = h + t
  BY <1>3, <1>5, <1>7
<1>10. PICK m \in Nat : m = Len(Wire(r))
  BY <1>3, WireType DEF Text
<1>11. q - m = t - l - 2
  <2>1. m = h + l + 2
    BY <1>8, <1>10
  <2> QED
    BY <1>9, <2>1
<1> QED
  BY <1>1, <1>2, <1>4, <1>6, <1>7, <1>8, <1>9, <1>10, <1>11, Zenon DEF LastHere

\* In the last chunk.
LEMMA LastGoes ==
    ASSUME TypeOK, sent \in Seq(Sendable), Arrived, ReadHead \/ ReadBody,
           NEW k, NEW r, NEW q, Chunking(k, r, q), r.wellFormed,
           NEW t, t = q - ChunkAt(r, Len(r.content) + 1), InSize(p, t, Numeral(0)),
           Says(out[k], r, Len(FlattenSeq(r.content)))
    PROVE  BodyGoes(k, q)
<1>1. /\ r \in Sendable /\ r.coding = "chunked" /\ k = Len(out) /\ q \in Int /\ p.at = "body"
      /\ p.length = Undefined /\ p.chunked /\ r = sent[k]
  BY DEF Chunking
<1>2. p.chunk = "header" /\ t \in 0 .. Len(Extension) + 2
  BY DEF InSize
<1>3. PICK e \in Nat : e = Len(Extension)
  BY ExtensionType
<1>4. i <= Len(data) /\ (ReadChunkSize \/ ReportChunkSize \/ BeginChunk \/ EndChunked)
  <2>1. p.length # 0
    BY <1>1 DEF Undefined
  <2> QED
    BY <1>1, <1>2, <2>1, OnlyBody
<1>5. t \in Nat
  BY <1>2, <1>3
<1>6. PICK d : d = Numeral(0)
  OBVIOUS
<1>7. d \in Digits /\ Numerals[d] = 0 /\ d \in Symbols \ Marks
  BY <1>1, <1>6, SendableNumerals
<1>8. LastHere(k, r, q, t)
  BY <1>4, <1>5, LastIsAt
<1>9. PICK b \in Nat :
            /\ Byte = Whole[b + t + 1] /\ Len(Whole) \in Nat
            /\ HasAt(Whole, b, LastChunk(r))
            /\ LET x == b + Len(LastChunk(r))
               IN  /\ Whole[x + 1] = "cr" /\ Whole[x + 2] = "lf"
                   /\ x + 2 = Start(k) + Len(Wire(r))
                   /\ q - Len(Wire(r)) = t - Len(LastChunk(r)) - 2
  BY <1>8 DEF LastHere
<1>10. PICK z : z = <<>> /\ Len(z) = 0
  OBVIOUS
<1>11. SizeByte(t, d, Byte)
  <2>1. PICK w : w = Whole
    OBVIOUS
  <2>2. LastChunk(r) = SizeLine(z) /\ Numeral(Len(z)) = d
    BY <1>6, <1>10 DEF LastChunk
  <2>3. Len(w) \in Nat /\ HasAt(w, b, SizeLine(z)) /\ Numeral(Len(z)) \in Symbols
    BY <1>7, <1>9, <2>1, <2>2
  <2>4. SizeByte(t, Numeral(Len(z)), w[b + t + 1])
    BY <1>5, <2>3, SizeByteAt
  <2> QED
    BY <1>9, <2>1, <2>2, <2>4
<1>12. p \in Fields /\ Left \in Nat \ {0} /\ r \in Response /\ Len(r.content) \in Nat /\ k # 0
  BY <1>4, ChunkingAt DEF TypeOK
<1>13. CASE t # e + 2
  <2>1. Go(1, p') /\ out' = out /\ BodyKept(p, p') /\ InSize(p', t + 1, d)
    BY <1>3, <1>4, <1>6, <1>7, <1>11, <1>12, <1>13, SizePhase
  <2>2. InLast(r, p', t + 1, out'[k])
    BY <1>6, <2>1 DEF InLast
  <2>3. (q + 1) - ChunkAt(r, Len(r.content) + 1) = t + 1
    <3>1. Len(r.content) + 1 \in 1 .. Len(r.content) + 1
      BY <1>12
    <3>2. ChunkAt(r, Len(r.content) + 1) \in Nat
      BY <1>1, <3>1, ChunkOffsets
    <3> QED
      BY <1>1, <3>2
  <2>4. InBody(sent[k], p', q + 1, out'[k])
    <3>1. InLast(r, p', (q + 1) - ChunkAt(r, Len(r.content) + 1), out'[k])
      BY <2>2, <2>3
    <3> QED
      BY <2>1, <3>1, KeepsChunking
  <2> QED
    BY <1>1, <1>12, <2>1, <2>4, Unsaid, OneByte
<1>14. CASE t = e + 2
  <2>1. EndChunked
    BY <1>3, <1>4, <1>6, <1>7, <1>11, <1>12, <1>14, SizeEnd
  <2>2. Go(1, p') /\ p' = Fresh /\ Others(k) /\ Done(out'[k], r)
    BY <1>1, <1>12, <2>1, LastPhase
  <2>3. Len(LastChunk(r)) = e + 3
    BY <1>1, <1>3, LastChunkType
  <2>4. PICK m \in Nat : m = Len(Wire(r))
    BY <1>1, WireType DEF Text
  <2>5. (q + 1) - m = -2
    <3>1. q - m = -3
      BY <1>9, <1>14, <2>3, <2>4
    <3> QED
      BY <1>1, <3>1
  <2>6. InVersion(p', (q + 1) - m)
    BY <2>2, <2>5, FreshVersion
  <2>7. PICK y : y = Start(k) + m
    OBVIOUS
  <2>8. y > 1 /\ Whole[y - 1] = "cr" /\ Whole[y] = "lf"
    <3>1. PICK x \in Nat : x = b + Len(LastChunk(r))
      BY <2>3
    <3>2. x + 2 = y /\ Whole[x + 1] = "cr" /\ Whole[x + 2] = "lf"
      BY <1>9, <2>4, <2>7, <3>1
    <3>3. y - 1 = x + 1 /\ y > 1
      BY <3>2
    <3> QED
      BY <3>2, <3>3
  <2>9. Ends(k, q + 1)
    BY <1>1, <2>2, <2>4, <2>6, <2>7, <2>8, Zenon DEF Ends
  <2> QED
    BY <1>1, <1>12, <2>2, <2>9, OneByte
<1> QED
  BY <1>13, <1>14

\* In a chunk without size.
LEMMA MalformedGoes ==
    ASSUME TypeOK, sent \in Seq(Sendable), Arrived, ReadHead \/ ReadBody,
           NEW k, NEW r, NEW q, Chunking(k, r, q), ~r.wellFormed,
           NEW t, t = q - ChunkAt(r, Len(r.content) + 1), t \in {0, 1},
           p.chunk = "header", p.symbol = <<>>,
           Says(out[k], r, Len(FlattenSeq(r.content)))
    PROVE  BodyGoes(k, q)
<1>1. /\ r \in Sendable /\ r.coding = "chunked" /\ k = Len(out) /\ q \in Int /\ p.at = "body"
      /\ p.length = Undefined /\ p.chunked /\ r = sent[k]
  BY DEF Chunking
<1>2. i <= Len(data) /\ (ReadChunkSize \/ ReportChunkSize \/ BeginChunk \/ EndChunked)
  <2>1. p.length # 0
    BY <1>1 DEF Undefined
  <2> QED
    BY <1>1, <2>1, OnlyBody
<1>3. p \in Fields /\ Left \in Nat \ {0} /\ r \in Response /\ Len(r.content) \in Nat /\ k # 0
  BY <1>2, ChunkingAt DEF TypeOK
<1>4. t \in Nat
  OBVIOUS
<1>5. LastHere(k, r, q, t)
  BY <1>2, <1>4, LastIsAt
<1>6. PICK b \in Nat : /\ Byte = Whole[b + t + 1] /\ Len(Whole) \in Nat
                       /\ HasAt(Whole, b, LastChunk(r))
  BY <1>5 DEF LastHere
<1>7. Whole[b + 1] = "cr" /\ Whole[b + 2] = "lf"
  <2>1. PICK x : x = Line(<<>>) /\ Len(x) = 2 /\ x[1] = "cr" /\ x[2] = "lf"
    BY EmptyLine, Zenon
  <2>2. HasAt(Whole, b, x)
    BY <1>6, <2>1 DEF LastChunk
  <2> QED
    BY <2>1, <2>2 DEF HasAt
<1>8. CASE t = 0
  <2>1. Byte = "cr"
    <3>1. b + t + 1 = b + 1
      BY <1>8
    <3> QED
      BY <1>6, <1>7, <3>1
  <2>2. ReadChunkSize
    BY <1>2, <2>1, OnlySize
  <2>3. Go(1, [p EXCEPT !.prev = Byte]) /\ out' = out
    BY <2>1, <2>2 DEF ReadChunkSize, Read
  <2>4. /\ Go(1, p') /\ out' = out /\ BodyKept(p, p')
        /\ p'.chunk = p.chunk /\ p'.symbol = p.symbol
    BY <1>3, <2>3 DEF Go, BodyKept, Fields
  <2>5. InLast(r, p', t + 1, out'[k])
    BY <1>8, <2>4 DEF InLast
  <2>6. (q + 1) - ChunkAt(r, Len(r.content) + 1) = t + 1
    <3>1. Len(r.content) + 1 \in 1 .. Len(r.content) + 1
      BY <1>3
    <3>2. ChunkAt(r, Len(r.content) + 1) \in Nat
      BY <1>1, <3>1, ChunkOffsets
    <3> QED
      BY <1>1, <3>2
  <2>7. InBody(sent[k], p', q + 1, out'[k])
    <3>1. InLast(r, p', (q + 1) - ChunkAt(r, Len(r.content) + 1), out'[k])
      BY <2>5, <2>6
    <3> QED
      BY <2>4, <3>1, KeepsChunking
  <2> QED
    BY <1>1, <1>3, <2>4, <2>7, Unsaid, OneByte
<1>9. CASE t = 1
  <2>1. Byte = "lf"
    <3>1. b + t + 1 = b + 2
      BY <1>9
    <3> QED
      BY <1>6, <1>7, <3>1
  <2>2. ReportChunkSize
    <3>1. ~IsNumber(p.symbol)
      BY DEF IsNumber
    <3> QED
      BY <1>2, <2>1, <3>1, OnlySize
  <2>3. Go(Left, p') /\ p' = Fresh /\ Others(k) /\ Failed(out'[k])
    BY <1>1, <1>3, <2>2, MalformedPhase DEF TypeOK
  <2>4. Fails(k)
    BY <1>1, <2>3 DEF Fails, Fresh
  <2>5. Left \in 1 .. Left + 1
    BY <1>3
  <2> QED
    BY <2>3, <2>4, <2>5 DEF BodyGoes
<1> QED
  BY <1>8, <1>9

\* A step in a chunked body.
LEMMA ChunksGoes ==
    ASSUME TypeOK, sent \in Seq(Sendable), Arrived, ReadHead \/ ReadBody,
           NEW k \in 1 .. Len(sent), k = Len(out), NEW q \in Int, q = Pos - Start(k),
           p.at = "body", InChunks(sent[k], p, q, out[k])
    PROVE  BodyGoes(k, q)
<1>1. PICK r \in Sendable : r = sent[k]
  BY WiresType
<1>2. /\ ModeOf(r) = "CHUNKED" /\ p.length = Undefined /\ p.chunked
      /\ \/ \E c \in 1 .. Len(r.content) : InChunk(r, p, c, q - ChunkAt(r, c), out[k])
         \/ InLast(r, p, q - ChunkAt(r, Len(r.content) + 1), out[k])
  BY <1>1, Zenon DEF InChunks
<1>3. r.coding = "chunked"
  BY <1>2 DEF ModeOf
<1>4. Chunking(k, r, q)
  BY <1>1, <1>2, <1>3 DEF Chunking
<1>5. ASSUME NEW c \in 1 .. Len(r.content), InChunk(r, p, c, q - ChunkAt(r, c), out[k])
      PROVE  BodyGoes(k, q)
  <2>1. PICK t : t = q - ChunkAt(r, c)
    OBVIOUS
  <2>2. InChunk(r, p, c, t, out[k])
    BY <1>5, <2>1
  <2>3. CASE InSize(p, t, Numeral(Len(r.content[c]))) /\ Says(out[k], r, Offset(r.content, c))
    BY <1>4, <2>1, <2>3, SizeGoes
  <2>4. CASE /\ p.chunk = "data" /\ p.chunkSize = Len(r.content[c])
             /\ p.chunkRead \in 0 .. Len(r.content[c]) - 1
             /\ t = Len(Extension) + 3 + p.chunkRead
             /\ Says(out[k], r, Offset(r.content, c) + p.chunkRead)
    BY <1>4, <2>1, <2>4, DataGoes
  <2>5. CASE /\ p.chunk = "end"
             /\ t \in {Len(Extension) + 3 + Len(r.content[c]),
                       Len(Extension) + 3 + Len(r.content[c]) + 1}
             /\ Says(out[k], r, Offset(r.content, c) + Len(r.content[c]))
    BY <1>4, <2>1, <2>5, EndGoes
  <2> QED
    BY <2>2, <2>3, <2>4, <2>5, Zenon DEF InChunk
<1>6. CASE InLast(r, p, q - ChunkAt(r, Len(r.content) + 1), out[k])
  <2>1. PICK t : t = q - ChunkAt(r, Len(r.content) + 1)
    OBVIOUS
  <2>2. InLast(r, p, t, out[k])
    BY <1>6, <2>1
  <2>3. CASE r.wellFormed
    <3>1. InSize(p, t, Numeral(0)) /\ Says(out[k], r, Len(FlattenSeq(r.content)))
      BY <2>2, <2>3 DEF InLast
    <3> QED
      BY <1>4, <2>1, <2>3, <3>1, LastGoes
  <2>4. CASE ~r.wellFormed
    <3>1. /\ p.chunk = "header" /\ p.symbol = <<>> /\ t \in {0, 1}
          /\ Says(out[k], r, Len(FlattenSeq(r.content)))
      BY <2>2, <2>4 DEF InLast
    <3> QED
      BY <1>4, <2>1, <2>4, <3>1, MalformedGoes
  <2> QED
    BY <2>3, <2>4
<1> QED
  BY <1>2, <1>5, <1>6

\* Every step in a body.
LEMMA BodyStep ==
    ASSUME TypeOK, sent \in Seq(Sendable), Arrived, ReadHead \/ ReadBody,
           NEW k \in 1 .. Len(sent), k = Len(out), NEW q \in Int, q = Pos - Start(k),
           InBody(sent[k], p, q, out[k])
    PROVE  BodyGoes(k, q)
<1>1. p.at = "body"
  BY DEF InBody
<1>2. CASE InFixed(sent[k], p, q, out[k])
  BY <1>1, <1>2, FixedGoes
<1>3. CASE InClose(sent[k], p, out[k])
  BY <1>1, <1>3, CloseGoes
<1>4. CASE InChunks(sent[k], p, q, out[k])
  BY <1>1, <1>4, ChunksGoes
<1> QED
  BY <1>2, <1>3, <1>4 DEF InBody

-----------------------------------------------------------------------------
(***************************************************************************)
(* Steps from one response to the next: the parser never loses its place.  *)
(***************************************************************************)
\* What the other responses are said to be stays.
LEMMA BehindStays ==
    ASSUME NEW k, Behind(k), sent' = sent, Len(out) \in Nat, Len(out') \in Nat,
           Len(out') >= k - 1, \A j \in 1 .. k - 1 : out'[j] = out[j]
    PROVE  Behind(k)'
BY DEF Behind

\* Where the next response begins.
LEMMA StartsAt ==
    ASSUME sent \in Seq(Sendable), NEW k \in 1 .. Len(sent) + 1
    PROVE  /\ Len(sent) \in Nat /\ k \in Nat /\ Start(k) \in Nat
           /\ k \in 1 .. Len(sent) =>
                 /\ k + 1 \in 1 .. Len(sent) + 1 /\ Start(k + 1) \in Nat
                 /\ Start(k + 1) = Start(k) + Len(Wire(sent[k])) /\ Len(Wire(sent[k])) \in Nat
<1>1. Len(sent) \in Nat
  BY WiresType
<1>2. k \in Nat /\ (k \in 1 .. Len(sent) => k + 1 \in 1 .. Len(sent) + 1)
  BY <1>1
<1>3. ASSUME k \in 1 .. Len(sent) PROVE Len(Wire(sent[k])) \in Nat
  BY <1>3, WiresType, WireType DEF Text
<1> QED
  BY <1>1, <1>2, <1>3, WholeType

\* A step in the body of the k-th response.
LEMMA BodyFollows ==
    ASSUME TypeOK, sent \in Seq(Sendable), Arrived, ReadHead \/ ReadBody, NEW k, ReadingBody(k)
    PROVE  Following'
<1>1. /\ k \in 1 .. Len(sent) /\ k = Len(out) /\ Behind(k)
      /\ InBody(sent[k], p, Pos - Start(k), out[k])
  BY DEF ReadingBody
<1>2. /\ Len(sent) \in Nat /\ k \in 1 .. Len(sent) + 1 /\ k \in Nat
      /\ k + 1 \in 1 .. Len(sent) + 1
  BY <1>1, WiresType
<1>3. PICK a \in Nat : a = Start(k)
  BY <1>2, StartsAt
<1>4. PICK l \in Nat : l = Len(Wire(sent[k])) /\ Start(k + 1) = a + l
  BY <1>1, <1>2, <1>3, StartsAt
<1>5. i <= Len(data)
  <2>1. p.at = "body"
    BY <1>1 DEF InBody
  <2> QED
    BY <2>1, OnlyBody
<1>6. PICK x \in Nat : x = Pos
  BY <1>5, Ahead
<1>7. PICK q \in Int : q = x - a
  OBVIOUS
<1>8. BodyGoes(k, q)
  BY <1>1, <1>3, <1>6, <1>7, BodyStep
<1>9. PICK n \in 1 .. Left + 1 :
            /\ Go(n, p') /\ Others(k)
            /\ \/ InBody(sent[k], p', q + Min2(n, Left), out'[k])
               \/ Ends(k, q + Min2(n, Left))
               \/ Fails(k)
  BY <1>8 DEF BodyGoes
<1>10. /\ Arrived' /\ Pos' = Pos + Min2(n, Left)
       /\ sent' = sent /\ Whole' = Whole /\ \A j : Start(j)' = Start(j)
  BY <1>5, <1>9, Advance
<1>11. PICK m \in Nat : m = Min2(n, Left)
  <2>1. Left \in Nat
    BY <1>5, Ahead
  <2> QED
    BY <2>1 DEF Min2
<1>12. Pos' = x + m /\ Start(k)' = a /\ Start(k + 1)' = a + l
  BY <1>3, <1>4, <1>6, <1>10, <1>11
<1>13. Behind(k)' /\ Len(out') = k
  <2>1. Len(out') = k /\ \A j \in 1 .. k - 1 : out'[j] = out[j]
    BY <1>9 DEF Others
  <2>2. Len(out') >= k - 1 /\ Len(out') \in Nat /\ Len(out) \in Nat
    BY <1>1, <1>2, <2>1
  <2> QED
    BY <1>1, <1>10, <2>1, <2>2, BehindStays
<1>14. CASE InBody(sent[k], p', q + m, out'[k])
  <2>1. Pos' - Start(k)' = q + m
    BY <1>7, <1>12
  <2>2. ReadingBody(k)'
    BY <1>1, <1>10, <1>13, <1>14, <2>1 DEF ReadingBody
  <2> QED
    BY <1>2, <1>10, <2>2 DEF Following
<1>15. CASE Ends(k, q + m)
  <2>1. /\ Done(out'[k], sent[k]) /\ InVersion(p', (q + m) - l)
        /\ q + m < l => a + l > 1 /\ Whole[a + l - 1] = "cr" /\ Whole[a + l] = "lf"
    BY <1>3, <1>4, <1>15 DEF Ends
  <2>2. (x + m) - (a + l) = (q + m) - l /\ (x + m < a + l <=> q + m < l)
    BY <1>7
  <2>3. Behind(k + 1)'
    <3>1. k - 1 <= Len(out') /\ \A j \in 1 .. k - 1 : Done(out'[j], sent'[j])
      BY <1>13 DEF Behind
    <3>2. \A j \in 1 .. (k + 1) - 1 : j = k \/ j \in 1 .. k - 1
      BY <1>2
    <3>3. (k + 1) - 1 = k
      BY <1>2
    <3> QED
      BY <1>10, <1>13, <2>1, <3>1, <3>2, <3>3 DEF Behind
  <2>4. InHead(k + 1, p, Pos - Start(k + 1))'
    <3>1. Pos' - Start(k + 1)' = (q + m) - l
      BY <1>12, <2>2
    <3> QED
      BY <2>1, <3>1 DEF InHead
  <2>5. ReadingHead(k + 1)'
    <3>1. (k + 1) - 1 = k
      BY <1>2
    <3>2. Pos' < Start(k + 1)' =>
             /\ Start(k + 1)' > 1
             /\ Whole'[Start(k + 1)' - 1] = "cr" /\ Whole'[Start(k + 1)'] = "lf"
      BY <1>10, <1>12, <2>1, <2>2
    <3> QED
      BY <1>2, <1>10, <1>13, <2>3, <2>4, <3>1, <3>2 DEF ReadingHead
  <2> QED
    BY <1>2, <1>10, <2>5 DEF Following
<1>16. CASE Fails(k)
  <2>1. Lost(k)'
    BY <1>1, <1>2, <1>10, <1>13, <1>16 DEF Lost, Fails
  <2> QED
    BY <1>2, <1>10, <2>1 DEF Following
<1> QED
  BY <1>9, <1>11, <1>14, <1>15, <1>16

\* A step in the head of the k-th response, or in the line end before it.
LEMMA HeadFollows ==
    ASSUME TypeOK, sent \in Seq(Sendable), Arrived, ReadHead \/ ReadBody, NEW k, ReadingHead(k)
    PROVE  Following'
<1>1. /\ k \in 1 .. Len(sent) + 1 /\ Len(out) = k - 1 /\ Behind(k)
      /\ InHead(k, p, Pos - Start(k))
      /\ Pos < Start(k) =>
            Start(k) > 1 /\ Whole[Start(k) - 1] = "cr" /\ Whole[Start(k)] = "lf"
  BY DEF ReadingHead
<1>2. Len(sent) \in Nat /\ k \in Nat
  BY <1>1, StartsAt
<1>3. PICK a \in Nat : a = Start(k)
  BY <1>1, StartsAt
<1>4. i <= Len(data)
  <2>1. p.at # "body"
    BY <1>1 DEF InHead, InVersion, InCode, InMessage, InHeaders
  <2> QED
    BY <2>1, OnlyHead
<1>5. PICK x \in Nat : x = Pos
  BY <1>4, Ahead
<1>6. PICK w : w = Whole
  OBVIOUS
<1>7. Byte = w[x + 1] /\ Len(w) \in Nat /\ x + 1 <= Len(w) /\ Left \in Nat \ {0}
  <2>1. Byte = w[x + 1] /\ x + Left <= Len(w) /\ Left \in Nat \ {0}
    BY <1>4, <1>5, <1>6, Ahead
  <2>2. Len(w) \in Nat
    BY <1>6, WholeType
  <2> QED
    BY <2>1, <2>2
<1>8. PICK q \in Int : q = x - a
  OBVIOUS
<1>9. k <= Len(sent) => HeadText(sent[k], q, Byte)
  <2> SUFFICES ASSUME k <= Len(sent) PROVE HeadText(sent[k], q, Byte)
    OBVIOUS
  <2>1. k \in 1 .. Len(sent)
    BY <1>1, <1>2
  <2>2. PICK r \in Sendable : r = sent[k]
    BY <2>1, WiresType
  <2>3. HasAt(w, a, Wire(r))
    BY <1>3, <1>6, <2>1, <2>2, WholeType
  <2>4. HasAt(w, a, HeadOf(r))
    BY <1>7, <2>3, HasWire
  <2>5. HeadText(r, q, w[a + q + 1])
    BY <1>7, <2>4, HeadTextAt DEF Sendable
  <2>6. a + q + 1 = x + 1
    BY <1>8
  <2> QED
    BY <1>7, <2>2, <2>5, <2>6
<1>10. k > Len(sent) => q < 0
  <2> SUFFICES ASSUME k > Len(sent) PROVE q < 0
    OBVIOUS
  <2>1. k = Len(sent) + 1
    BY <1>1, <1>2
  <2>2. a = Len(w)
    BY <1>3, <1>6, <2>1, WholeType
  <2> QED
    BY <1>7, <1>8, <2>2
<1>11. q < 0 => a > 1 /\ w[a - 1] = "cr" /\ w[a] = "lf"
  BY <1>1, <1>3, <1>5, <1>6, <1>8
<1>12. (q = -2 => Byte = "cr") /\ (q = -1 => Byte = "lf")
  <2>1. (q = -2 => x + 1 = a - 1) /\ (q = -1 => x + 1 = a)
    BY <1>8
  <2> QED
    BY <1>7, <1>11, <2>1
<1>13. /\ Go(1, p')
       /\ \/ out' = out /\ InHead(k, p', q + 1)
          \/ /\ k <= Len(sent) /\ q + 1 = BodyAt(sent[k])
             /\ \E o : out' = Append(out, o) /\ InBody(sent[k], p', q + 1, o)
          \/ /\ k <= Len(sent) /\ ~sent[k].wellFormed /\ p'.at # "body"
             /\ \E o : out' = Append(out, o) /\ Failed(o)
  <2>1. p \in Fields
    BY DEF TypeOK
  <2>2. InHead(k, p, q)
    BY <1>1, <1>3, <1>5, <1>8
  <2> QED
    BY <1>1, <1>9, <1>10, <1>12, <2>1, <2>2, HeadPhase
<1>14. /\ Arrived' /\ Pos' = x + 1
       /\ sent' = sent /\ Whole' = w /\ Start(k)' = a
  <2>1. 1 \in 1 .. Left + 1 /\ Min2(1, Left) = 1
    BY <1>7 DEF Min2
  <2> QED
    BY <1>3, <1>4, <1>5, <1>6, <1>13, <2>1, Advance
<1>15. Pos' - Start(k)' = q + 1
  BY <1>8, <1>14
<1>16. CASE out' = out /\ InHead(k, p', q + 1)
  <2>1. Behind(k)'
    <3>1. Len(out) \in Nat /\ Len(out) >= k - 1
      BY <1>1, <1>2
    <3> QED
      BY <1>1, <1>14, <1>16, <3>1, BehindStays
  <2>2. InHead(k, p, Pos - Start(k))'
    BY <1>14, <1>15, <1>16 DEF InHead
  <2>3. Pos' < Start(k)' =>
           Start(k)' > 1 /\ Whole'[Start(k)' - 1] = "cr" /\ Whole'[Start(k)'] = "lf"
    <3>1. x + 1 < a => q < 0
      BY <1>8
    <3> QED
      BY <1>11, <1>14, <3>1
  <2>4. ReadingHead(k)'
    BY <1>1, <1>14, <1>16, <2>1, <2>2, <2>3 DEF ReadingHead
  <2> QED
    BY <1>1, <1>14, <2>4 DEF Following
<1>17. ASSUME k <= Len(sent), NEW o, out' = Append(out, o)
       PROVE  /\ k \in 1 .. Len(sent) /\ Len(out') = k /\ out'[k] = o /\ Behind(k)'
  <2>1. out \in Seq(Told) /\ k \in 1 .. Len(sent)
    BY <1>1, <1>2, <1>17 DEF TypeOK
  <2>2. /\ Len(out') = k /\ out'[k] = o /\ \A j \in 1 .. k - 1 : out'[j] = out[j]
    BY <1>1, <1>2, <1>17, <2>1
  <2>3. Len(out) \in Nat /\ Len(out') \in Nat /\ Len(out') >= k - 1
    BY <1>2, <2>1, <2>2
  <2>4. Behind(k)'
    BY <1>1, <1>14, <2>2, <2>3, BehindStays
  <2> QED
    BY <2>1, <2>2, <2>4
<1>18. ASSUME k <= Len(sent), NEW o, out' = Append(out, o), InBody(sent[k], p', q + 1, o)
       PROVE  Following'
  <2>1. k \in 1 .. Len(sent) /\ Len(out') = k /\ out'[k] = o /\ Behind(k)'
    BY <1>17, <1>18
  <2>2. ReadingBody(k)'
    BY <1>14, <1>15, <1>18, <2>1 DEF ReadingBody
  <2> QED
    BY <1>1, <1>14, <2>2 DEF Following
<1>19. ASSUME k <= Len(sent), ~sent[k].wellFormed, p'.at # "body",
              NEW o, out' = Append(out, o), Failed(o)
       PROVE  Following'
  <2>1. k \in 1 .. Len(sent) /\ Len(out') = k /\ out'[k] = o /\ Behind(k)'
    BY <1>17, <1>19
  <2>2. Lost(k)'
    BY <1>2, <1>14, <1>19, <2>1 DEF Lost
  <2> QED
    BY <1>1, <1>14, <2>2 DEF Following
<1> QED
  BY <1>13, <1>16, <1>18, <1>19

\* How far any step goes, and what it does to what was told.
LEMMA HeadShape ==
    ASSUME ReadHead
    PROVE  /\ p.at # "body" /\ i <= Len(data) /\ Go(1, p')
           /\ (out' = out /\ (p \in Fields => p'.at # "body")) \/ \E o : out' = Append(out, o)
<1> DEFINE Quiet == /\ p.at # "body" /\ i <= Len(data)
                    /\ Go(1, p') /\ out' = out /\ (p \in Fields => p'.at # "body")
<1>1. ReadVersion => Quiet
  BY DEF ReadVersion, More, Read, Go, Append1, Fields
<1>2. ReadStatusCode => Quiet
  BY DEF ReadStatusCode, More, Read, Go, Append1, Fields
<1>3. ReadStatusMessage => Quiet
  BY DEF ReadStatusMessage, More, Read, Go, Append1, Fields
<1>4. ReadColon => Quiet
  BY DEF ReadColon, More, Read, Go, Append1, Fields
<1>5. ReadField => Quiet
  BY DEF ReadField, More, Read, Go, Append1, Fields
<1>6. ReadReturn => Quiet
  BY DEF ReadReturn, More, Read, Go, Append1, Fields
<1>7. EndOfLine => Quiet
  BY DEF EndOfLine, More, Read, Go, Append1, Fields
<1>8. ASSUME EndOfHeaders \/ ReportLength
      PROVE  /\ p.at # "body" /\ i <= Len(data) /\ Go(1, p') /\ \E o : out' = Append(out, o)
  BY <1>8 DEF EndOfHeaders, ReportLength, More, Go
<1> QED
  BY <1>1, <1>2, <1>3, <1>4, <1>5, <1>6, <1>7, <1>8, Zenon DEF ReadHead

\* An event about the last response says nothing of the others.
LEMMA EmitOthers ==
    ASSUME out \in Seq(Told), NEW f, out' = [out EXCEPT ![Len(out)] = f]
    PROVE  Others(Len(out))
<1>1. PICK k \in Nat : k = Len(out)
  OBVIOUS
<1>2. out \in [1 .. k -> Told] /\ DOMAIN out = 1 .. k
  BY <1>1
<1>3. DOMAIN out' = 1 .. k /\ \A j \in 1 .. k - 1 : out'[j] = out[j]
  BY <1>1, <1>2
<1>4. Len(out') = k
  BY <1>1, <1>2, <1>3
<1> QED
  BY <1>1, <1>3, <1>4 DEF Others

\* A step in a body reads some bytes and leaves the other responses alone.
LEMMA BodyShape ==
    ASSUME TypeOK, ReadBody
    PROVE  /\ p.at = "body" /\ i <= Len(data) /\ Others(Len(out))
           /\ \E n \in 1 .. Left + 1 : Go(n, p')
<1>1. p.at = "body" /\ i <= Len(data)
  BY DEF ReadBody, ReadNoBody, ReadFixed, ReadUntilClose, ReadChunkSize, ReportChunkSize,
         BeginChunk, EndChunked, ReadChunkData, EndChunk, ChunkPart, More
<1>2. Left \in Nat \ {0}
  BY <1>1, RestType DEF Left
<1>3. 1 \in 1 .. Left + 1 /\ Left \in 1 .. Left + 1
  BY <1>2
<1>4. out \in Seq(Told)
  BY DEF TypeOK
<1>5. ASSUME NEW units, NEW last, Emit(units, last) PROVE Others(Len(out))
  <2>1. \E f : out' = [out EXCEPT ![Len(out)] = f]
    BY <1>5 DEF Emit
  <2> QED
    BY <1>4, <2>1, EmitOthers
<1>6. ASSUME out' = out PROVE Others(Len(out))
  BY <1>6 DEF Others
<1>7. CASE ReadNoBody \/ EndChunked
  <2>1. Others(Len(out)) /\ Go(1, p')
    BY <1>5, <1>7 DEF ReadNoBody, EndChunked, Go
  <2> QED
    BY <1>1, <1>3, <2>1
<1>8. CASE ReadUntilClose
  <2>1. Others(Len(out)) /\ Go(1, p')
    BY <1>5, <1>8 DEF ReadUntilClose, Go
  <2> QED
    BY <1>1, <1>3, <2>1
<1>9. CASE ReadChunkSize \/ BeginChunk \/ EndChunk
  <2>1. Others(Len(out)) /\ Go(1, p')
    BY <1>6, <1>9 DEF ReadChunkSize, BeginChunk, EndChunk, Read, Go
  <2> QED
    BY <1>1, <1>3, <2>1
<1>10. CASE ReportChunkSize
  <2>1. \E f : out' = [out EXCEPT ![Len(out)] = f]
    BY <1>10 DEF ReportChunkSize
  <2>2. Go(Left, p')
    BY <1>10 DEF ReportChunkSize, Go
  <2> QED
    BY <1>1, <1>3, <1>4, <2>1, <2>2, EmitOthers
<1>11. CASE ReadFixed
  <2>1. p.length > 0 /\ p.read < p.length /\ p.length \in Nat /\ p.read \in Nat
    BY <1>1, <1>11 DEF ReadFixed, TypeOK, Fields, Sizes, Undefined
  <2>2. PICK n : /\ n = Min2(Left, p.length - p.read)
                 /\ Emit(SubSeq(data, i, i + n - 1), p.read + n = p.length) /\ Go(n + 1, p')
    BY <1>11 DEF ReadFixed, Go
  <2>3. n + 1 \in 1 .. Left + 1
    BY <1>2, <2>1, <2>2 DEF Min2
  <2> QED
    BY <1>1, <1>5, <2>2, <2>3
<1>12. CASE ReadChunkData
  <2>1. p.chunkRead < p.chunkSize /\ p.chunkSize \in Int /\ p.chunkRead \in Nat
    BY <1>1, <1>12 DEF ReadChunkData, ChunkPart, TypeOK, Fields, Sizes, Undefined
  <2>2. PICK n : /\ n = Min2(Left, p.chunkSize - p.chunkRead)
                 /\ Emit(SubSeq(data, i, i + n - 1), FALSE) /\ Go(n + 1, p')
    BY <1>12 DEF ReadChunkData, Go
  <2>3. n + 1 \in 1 .. Left + 1
    BY <1>2, <2>1, <2>2 DEF Min2
  <2> QED
    BY <1>1, <1>5, <2>2, <2>3
<1> QED
  BY <1>1, <1>7, <1>8, <1>9, <1>10, <1>11, <1>12, Zenon DEF ReadBody

\* After an error no step gives the malformed response another place.
LEMMA LostStays ==
    ASSUME TypeOK, sent \in Seq(Sendable), Arrived, ReadHead \/ ReadBody, NEW k, Lost(k)
    PROVE  Following'
<1>1. /\ k \in 1 .. Len(sent) /\ Len(out) >= k /\ Behind(k)
      /\ Failed(out[k]) /\ ~sent[k].wellFormed
      /\ Len(out) = k => p.at # "body"
  BY DEF Lost
<1>2. /\ k \in 1 .. Len(sent) + 1 /\ k \in Nat /\ out \in Seq(Told) /\ Len(out) \in Nat
      /\ p \in Fields
  BY <1>1, WiresType DEF TypeOK
<1>3. /\ i <= Len(data) /\ \E n \in 1 .. Left + 1 : Go(n, p')
      /\ Len(out') \in Nat /\ Len(out') >= k /\ \A j \in 1 .. k : out'[j] = out[j]
      /\ Len(out') = k => p'.at # "body"
  <2>1. CASE ReadHead
    <3>1. /\ p.at # "body" /\ i <= Len(data) /\ Go(1, p')
          /\ (out' = out /\ p'.at # "body") \/ \E o : out' = Append(out, o)
      BY <1>2, <2>1, HeadShape
    <3>2. 1 \in 1 .. Left + 1
      BY <3>1, RestType DEF Left
    <3>3. CASE out' = out /\ p'.at # "body"
      BY <1>1, <1>2, <3>1, <3>2, <3>3
    <3>4. ASSUME NEW o, out' = Append(out, o)
          PROVE  /\ Len(out') \in Nat /\ Len(out') > k /\ \A j \in 1 .. k : out'[j] = out[j]
      BY <1>1, <1>2, <3>4
    <3> QED
      BY <1>2, <3>1, <3>2, <3>3, <3>4
  <2>2. CASE ReadBody
    <3>1. /\ p.at = "body" /\ i <= Len(data) /\ Others(Len(out))
          /\ \E n \in 1 .. Left + 1 : Go(n, p')
      BY <2>2, BodyShape
    <3>2. Len(out) > k
      BY <1>1, <1>2, <3>1
    <3>3. Len(out') = Len(out) /\ \A j \in 1 .. Len(out) - 1 : out'[j] = out[j]
      BY <3>1 DEF Others
    <3>4. \A j \in 1 .. k : j \in 1 .. Len(out) - 1
      BY <1>2, <3>2
    <3> QED
      BY <1>2, <3>1, <3>2, <3>3, <3>4
  <2> QED
    BY <2>1, <2>2
<1>4. Arrived' /\ sent' = sent
  BY <1>3, Advance
<1>5. Behind(k)'
  <2>1. Len(out') >= k - 1 /\ \A j \in 1 .. k - 1 : out'[j] = out[j]
    BY <1>2, <1>3
  <2> QED
    BY <1>1, <1>2, <1>3, <1>4, <2>1, BehindStays
<1>6. out'[k] = out[k]
  BY <1>2, <1>3
<1>7. Lost(k)'
  BY <1>1, <1>3, <1>4, <1>5, <1>6 DEF Lost
<1> QED
  BY <1>2, <1>4, <1>7 DEF Following

\* A step that reads nothing.
LEMMA FollowingStays ==
    ASSUME Following, Arrived', Pos' = Pos, sent' = sent, Whole' = Whole,
           \A k : Start(k)' = Start(k), p' = p, out' = out
    PROVE  Following'
<1>1. \A k : Behind(k) => Behind(k)'
  BY DEF Behind
<1>2. ASSUME NEW k, ReadingHead(k) PROVE ReadingHead(k)'
  BY <1>1, <1>2 DEF ReadingHead, InHead
<1>3. ASSUME NEW k, ReadingBody(k) PROVE ReadingBody(k)'
  BY <1>1, <1>3 DEF ReadingBody
<1>4. ASSUME NEW k, Lost(k) PROVE Lost(k)'
  BY <1>1, <1>4 DEF Lost
<1> QED
  BY <1>2, <1>3, <1>4 DEF Following

\* Every step keeps the parser's place in what was sent ...
LEMMA FollowingStep ==
    ASSUME TypeOK, sent \in Seq(Sendable), Following, [Next]_vars
    PROVE  Following' /\ sent' = sent
<1>1. CASE ReadHead \/ ReadBody
  <2>1. Following'
    BY <1>1, BodyFollows, HeadFollows, LostStays DEF Following
  <2>2. sent' = sent
    <3>1. CASE ReadHead
      BY <3>1, HeadShape DEF Go
    <3>2. CASE ReadBody
      BY <3>2, BodyShape DEF Go
    <3> QED
      BY <1>1, <3>1, <3>2
  <2> QED
    BY <2>1, <2>2
<1>2. ASSUME NEW n \in Buffers, Feed(n) PROVE Following' /\ sent' = sent
  <2>1. /\ Arrived' /\ Pos' = Pos
        /\ sent' = sent /\ Whole' = Whole /\ \A k : Start(k)' = Start(k)
    BY <1>2, FeedArrives DEF Following
  <2>2. p' = p /\ out' = out
    BY <1>2 DEF Feed
  <2> QED
    BY <2>1, <2>2, FollowingStays
<1>3. CASE UNCHANGED vars
  <2>1. /\ sent' = sent /\ stream' = stream /\ data' = data /\ i' = i /\ p' = p /\ out' = out
    BY <1>3 DEF vars
  <2>2. Whole' = Whole /\ \A k : Start(k)' = Start(k)
    BY <2>1, SentStays
  <2>3. Before' = Before
    BY <2>1, <2>2 DEF Before
  <2>4. Arrived' /\ Pos' = Pos
    BY <2>1, <2>2, <2>3 DEF Arrived, Following, Pos
  <2> QED
    BY <2>1, <2>2, <2>4, FollowingStays
<1> QED
  BY <1>1, <1>2, <1>3 DEF Next

\* ... which it has at first.
LEMMA FollowingInit ==
    ASSUME WellEncoded, Init PROVE sent \in Seq(Sendable) /\ Following
<1>1. PICK s \in Streams : sent = s.responses /\ stream = s.bytes
  BY DEF Init
<1>2. data = <<>> /\ i = 1 /\ p = Fresh /\ out = <<>>
  BY DEF Init
<1>3. PICK rs \in Seq(Sendable) : s = Sent(rs)
  BY DEF WellEncoded, Sendable
<1>4. sent = rs /\ stream = Whole
  BY <1>1, <1>3 DEF Sent, Whole
<1>5. sent \in Seq(Sendable)
  BY <1>4
<1>6. Len(Whole) \in Nat /\ Start(1) = 0 /\ Len(sent) \in Nat
  BY <1>5, WholeType, WiresType
<1>7. Len(data) = 0
  BY <1>2
<1>8. Before = 0
  BY <1>4, <1>6, <1>7 DEF Before
<1>9. Arrived
  <2>1. \A j \in 1 .. Len(stream) : 0 + 0 + j = j
    OBVIOUS
  <2>2. \A j \in 1 .. Len(stream) : stream[j] = Whole[Before + Len(data) + j]
    BY <1>4, <1>7, <1>8, <2>1
  <2> QED
    BY <1>7, <1>8, <2>2 DEF Arrived
<1>10. Pos = 0
  BY <1>2, <1>7, <1>8 DEF Pos, Min2
<1>11. ReadingHead(1)
  <2>1. Behind(1) /\ Len(out) = 0
    BY <1>2 DEF Behind
  <2>2. Pos - Start(1) = 0 /\ ~(Pos < Start(1))
    BY <1>6, <1>10
  <2>3. InHead(1, p, Pos - Start(1))
    BY <1>2, <2>2, FreshVersion DEF InHead
  <2>4. 1 \in 1 .. Len(sent) + 1
    BY <1>6
  <2> QED
    BY <2>1, <2>2, <2>3, <2>4 DEF ReadingHead
<1> QED
  BY <1>5, <1>6, <1>9, <1>11 DEF Following

-----------------------------------------------------------------------------
(***************************************************************************)
(* What the parser's place says of what was told.                          *)
(***************************************************************************)
\* What was said of a response that is being read.
LEMMA SaysDescribes ==
    ASSUME NEW r \in Sendable, NEW o \in Told, NEW n \in Nat, Says(o, r, n)
    PROVE  Describes(o, r) /\ ~o.ended /\ ~o.error
<1>1. PICK f \in Seq(Symbols) : f = FlattenSeq(r.content)
  BY ContentOffsets DEF Sendable, Text
<1>2. PICK b \in Seq(Symbols) : b = o.body
  BY DEF Told, Text
<1>3. Len(b) = n /\ n <= Len(f) /\ \A j \in 1 .. n : b[j] = f[j]
  BY <1>1, <1>2 DEF Says
<1>4. IsPrefix(b, f)
  <2>1. SubSeq(b, 1, n) = SubSeq(f, 1, n)
    BY <1>3
  <2> QED
    BY <1>3, <2>1 DEF IsPrefix
<1> QED
  BY <1>1, <1>2, <1>4 DEF Describes, Says, Begun

\* That is true wherever the parser is in its body.
LEMMA BodyDescribes ==
    ASSUME NEW r \in Sendable, NEW o \in Told, NEW x \in Fields, NEW q, InBody(r, x, q, o)
    PROVE  Describes(o, r) /\ ~o.ended /\ ~o.error
<1>1. x.read \in Nat /\ x.chunkRead \in Nat /\ r \in Response /\ Len(r.content) \in Nat
  BY ResponseParts DEF Fields, Sendable
<1>2. CASE InFixed(r, x, q, o)
  BY <1>1, <1>2, SaysDescribes DEF InFixed
<1>3. CASE InClose(r, x, o)
  BY <1>3 DEF InClose, Begun, Describes
<1>4. CASE InChunks(r, x, q, o)
  <2>1. CASE InLast(r, x, q - ChunkAt(r, Len(r.content) + 1), o)
    <3>1. Says(o, r, Len(FlattenSeq(r.content)))
      BY <2>1 DEF InLast
    <3>2. Len(FlattenSeq(r.content)) \in Nat
      BY <1>1, ContentOffsets
    <3> QED
      BY <3>1, <3>2, SaysDescribes
  <2>2. ASSUME NEW c \in 1 .. Len(r.content), InChunk(r, x, c, q - ChunkAt(r, c), o)
        PROVE  Describes(o, r) /\ ~o.ended /\ ~o.error
    <3>1. PICK n \in Nat : n = Len(r.content[c])
      BY <1>1, ResponseParts DEF Text
    <3>2. PICK b \in Nat : b = Offset(r.content, c)
      <4>1. c \in 1 .. Len(r.content) + 1
        BY <1>1
      <4> QED
        BY <1>1, <4>1, ContentOffsets
    <3>3. PICK y \in Nat : y = x.chunkRead
      BY <1>1
    <3>4. Says(o, r, b) \/ Says(o, r, b + y) \/ Says(o, r, b + n)
      BY <2>2, <3>1, <3>2, <3>3, Zenon DEF InChunk
    <3>5. b + y \in Nat /\ b + n \in Nat
      OBVIOUS
    <3> QED
      BY <3>4, <3>5, SaysDescribes
  <2> QED
    BY <1>4, <2>1, <2>2, Zenon DEF InChunks
<1> QED
  BY <1>2, <1>3, <1>4 DEF InBody

\* All that was sent ends with a response of which only a part was read: not in its head ...
LEMMA HeadUnfinished ==
    ASSUME NEW w, Len(w) \in Nat, NEW a \in Nat, NEW r \in Sendable, HasAt(w, a, Wire(r)),
           NEW q \in Int, q = Len(w) - a, NEW x
    PROVE  ~(InVersion(x, q) \/ InCode(r, x, q) \/ InMessage(r, x, q) \/ InHeaders(r, x, q))
<1>1. HasAt(w, a, HeadOf(r)) /\ r \in Response
  BY HasWire DEF Sendable
<1>2. /\ HasAt(w, a, StatusLine(r))
      /\ \A k \in 1 .. Len(r.fields) :
            HasAt(w, a + FieldAt(r, k), FieldLine(<<r.fields[k][1], r.fields[k][2]>>))
  BY <1>1, HasHead
<1>3. q >= 10
  <2>1. Len(StatusLine(r)) = 10
    BY <1>1, StatusLineType
  <2>2. a + 10 <= Len(w)
    BY <1>2, <2>1 DEF HasAt
  <2> QED
    BY <2>2
<1>4. q >= BodyAt(r) /\ BodyAt(r) \in Nat
  <2>1. BodyAt(r) \in Nat
    BY <1>1, HeadType
  <2>2. a + BodyAt(r) <= Len(w)
    BY <1>1 DEF HasAt, BodyAt
  <2> QED
    BY <2>1, <2>2
<1>5. ~InVersion(x, q)
  BY <1>3 DEF InVersion
<1>6. ~InCode(r, x, q)
  BY <1>3 DEF InCode
<1>7. ~InMessage(r, x, q)
  BY <1>3 DEF InMessage
<1>8. ~InBlank(r, x, q)
  BY <1>4 DEF InBlank
<1>9. ASSUME NEW k \in 1 .. Len(r.fields), InField(r, x, k, q - FieldAt(r, k)) PROVE FALSE
  <2>1. PICK n \in Symbols, v \in Text : n = r.fields[k][1] /\ v = r.fields[k][2]
    BY <1>1, ResponseParts
  <2>2. PICK l \in Nat : l = Len(v)
    BY DEF Text
  <2>3. Len(FieldLine(<<n, v>>)) = l + 5
    BY <2>2, FieldLineType
  <2>4. PICK f \in Nat : f = FieldAt(r, k)
    <3>1. k \in 1 .. Len(r.fields) + 1
      BY <1>1, ResponseParts
    <3> QED
      BY <1>1, <3>1, HeadType
  <2>5. HasAt(w, a + f, FieldLine(<<n, v>>))
    BY <1>2, <2>1, <2>4
  <2>6. a + f + (l + 5) <= Len(w)
    BY <2>3, <2>5 DEF HasAt
  <2>7. PICK t \in Int : t = q - f
    BY <2>4
  <2>8. t = 0 \/ t = 1 \/ t \in 2 .. l + 4
    BY <1>9, <2>1, <2>2, <2>4, <2>7, Zenon DEF InField
  <2> QED
    BY <2>6, <2>7, <2>8
<1> QED
  BY <1>5, <1>6, <1>7, <1>8, <1>9 DEF InHeaders

\* ... nor in its body, unless that is empty or ends with the connection.
LEMMA BodyUnfinished ==
    ASSUME NEW w, Len(w) \in Nat, NEW a \in Nat, NEW r \in Sendable, HasAt(w, a, Wire(r)),
           NEW q \in Int, q = Len(w) - a, NEW x \in Fields, NEW o, InBody(r, x, q, o)
    PROVE  /\ r.wellFormed
           /\ r.coding = "close" \/ (o.size = 0 /\ q = Len(Wire(r)))
<1>1. r \in Response /\ Len(r.content) \in Nat
  BY ResponseParts DEF Sendable
<1>2. PICK m \in Nat : m = Len(Wire(r))
  BY WireType DEF Text
<1>3. q >= m
  <2>1. a + m <= Len(w)
    BY <1>2 DEF HasAt
  <2> QED
    BY <2>1
<1>4. CASE InFixed(r, x, q, o)
  <2>1. ModeOf(r) = "FIXED" /\ r.wellFormed /\ x.length = SizeOf(r) /\ o.size = SizeOf(r)
    BY <1>4 DEF InFixed, Says, Begun
  <2>2. r.coding # "chunked" /\ SizeOf(r) = Len(FlattenSeq(r.content))
    BY <2>1 DEF ModeOf, SizeOf
  <2>3. PICK l \in Nat : l = Len(FlattenSeq(r.content))
    BY <1>1, ContentOffsets
  <2>4. PICK h \in Nat : h = BodyAt(r)
    BY <1>1, HeadType
  <2>5. m = h + l
    BY <1>2, <2>2, <2>3, <2>4, PlainBody
  <2>6. PICK n \in Nat : n = x.read
    BY DEF Fields
  <2>7. n = q - h /\ (n < l \/ (l = 0 /\ n = 0))
    BY <1>4, <2>1, <2>2, <2>3, <2>4, <2>6 DEF InFixed
  <2>8. l = 0 /\ q = m
    BY <1>3, <2>5, <2>7
  <2> QED
    BY <1>2, <2>1, <2>2, <2>3, <2>8
<1>5. CASE InClose(r, x, o)
  BY <1>5 DEF InClose, ModeOf
<1>6. CASE InChunks(r, x, q, o)
  <2>1. r.coding = "chunked"
    BY <1>6 DEF InChunks, ModeOf
  <2>2. ChunksIn(w, a, r)
    <3>1. HasAt(w, a + BodyAt(r), BodyOf(r))
      BY HasWire, Zenon
    <3> QED
      BY <2>1, <3>1, HasChunks
  <2>3. PICK e \in Nat : e = Len(Extension)
    BY ExtensionType
  <2>4. ASSUME NEW c \in 1 .. Len(r.content), InChunk(r, x, c, q - ChunkAt(r, c), o)
        PROVE  FALSE
    <3>1. PICK s \in Text : s = r.content[c]
      BY <1>1, ResponseParts
    <3>2. PICK n \in Nat \ {0} : n = Len(s)
      BY <2>1, <3>1, SendableNumerals
    <3>3. Len(Chunk(s)) = e + n + 5
      BY <2>1, <2>3, <3>1, <3>2, SendableNumerals, ChunkType
    <3>4. PICK h \in Nat : h = ChunkAt(r, c)
      <4>1. c \in 1 .. Len(r.content) + 1
        BY <1>1
      <4> QED
        BY <2>1, <4>1, ChunkOffsets
    <3>5. HasAt(w, a + h, Chunk(s))
      BY <2>2, <3>1, <3>4, Zenon DEF ChunksIn
    <3>6. a + h + (e + n + 5) <= Len(w)
      BY <3>3, <3>5 DEF HasAt
    <3>7. PICK t \in Int : t = q - h
      BY <3>4
    <3>8. PICK y \in Nat : y = x.chunkRead
      BY DEF Fields
    <3>9. \/ t \in 0 .. e + 2
          \/ y \in 0 .. n - 1 /\ t = e + 3 + y
          \/ t \in {e + 3 + n, e + 3 + n + 1}
      BY <2>3, <2>4, <3>1, <3>2, <3>4, <3>7, <3>8, Zenon DEF InChunk, InSize
    <3>10. t <= e + n + 4
      BY <3>9
    <3> QED
      BY <3>6, <3>7, <3>10
  <2>5. CASE InLast(r, x, q - ChunkAt(r, Len(r.content) + 1), o)
    <3>1. PICK h \in Nat : h = ChunkAt(r, Len(r.content) + 1)
      <4>1. Len(r.content) + 1 \in 1 .. Len(r.content) + 1
        BY <1>1
      <4> QED
        BY <2>1, <4>1, ChunkOffsets
    <3>2. PICK l \in Nat : l = Len(LastChunk(r)) /\ l = IF r.wellFormed THEN e + 3 ELSE 2
      <4>1. Len(LastChunk(r)) = IF r.wellFormed THEN e + 3 ELSE 2
        BY <2>1, <2>3, LastChunkType
      <4> QED
        BY <4>1
    <3>3. a + h + l + 2 = a + m
      BY <1>2, <2>2, <3>1, <3>2 DEF ChunksIn
    <3>4. PICK t \in Int : t = q - h
      BY <3>1
    <3>5. InLast(r, x, t, o)
      BY <2>5, <3>1, <3>4
    <3>6. t < l
      <4>1. CASE r.wellFormed
        <5>1. t \in 0 .. e + 2
          BY <2>3, <3>5, <4>1 DEF InLast, InSize
        <5> QED
          BY <3>2, <4>1, <5>1
      <4>2. CASE ~r.wellFormed
        <5>1. t \in {0, 1}
          BY <3>5, <4>2 DEF InLast
        <5> QED
          BY <3>2, <4>2, <5>1
      <4> QED
        BY <4>1, <4>2
    <3> QED
      BY <1>3, <3>3, <3>4, <3>6
  <2> QED
    BY <1>6, <2>4, <2>5, Zenon DEF InChunks
<1> QED
  BY <1>4, <1>5, <1>6 DEF InBody

\* Whoever keeps its place has told what was sent so far ...
LEMMA FollowingDecodes ==
    ASSUME TypeOK, sent \in Seq(Sendable), Following PROVE Decoded
<1>1. PICK m \in 1 .. Len(sent) + 1 : ReadingHead(m) \/ ReadingBody(m) \/ Lost(m)
  BY DEF Following
<1>2. /\ Len(sent) \in Nat /\ m \in Nat /\ p \in Fields
      /\ out \in Seq(Told) /\ Len(out) \in Nat /\ DOMAIN out = 1 .. Len(out)
      /\ DOMAIN sent = 1 .. Len(sent)
  BY <1>1, StartsAt DEF TypeOK
<1>3. ASSUME NEW k \in DOMAIN out, Reaches(k)
      PROVE  k \in DOMAIN sent /\ Describes(out[k], sent[k])
  <2>1. k \in 1 .. Len(out) /\ out[k] \in Told
    BY <1>2, <1>3
  <2>2. Behind(m)
    BY <1>1 DEF ReadingHead, ReadingBody, Lost
  <2>3. CASE k < m
    <3>1. k \in 1 .. m - 1 /\ k \in 1 .. Len(sent)
      BY <1>1, <1>2, <2>1, <2>3
    <3> QED
      BY <1>2, <2>2, <3>1 DEF Behind, Done
  <2>4. CASE k = m
    <3>1. ReadingBody(m) \/ Lost(m)
      <4>1. Len(out) # m - 1
        BY <1>2, <2>1, <2>4
      <4> QED
        BY <1>1, <4>1 DEF ReadingHead
    <3>2. CASE ReadingBody(m)
      <4>1. m \in 1 .. Len(sent) /\ InBody(sent[m], p, Pos - Start(m), out[m])
        BY <3>2 DEF ReadingBody
      <4>2. PICK r \in Sendable : r = sent[m]
        BY <4>1, WiresType
      <4>3. Describes(out[m], r)
        BY <1>2, <2>1, <2>4, <4>1, <4>2, BodyDescribes
      <4> QED
        BY <1>2, <2>4, <4>1, <4>2, <4>3
    <3>3. CASE Lost(m)
      <4>1. m \in 1 .. Len(sent) /\ Failed(out[m]) /\ ~sent[m].wellFormed
        BY <3>3 DEF Lost
      <4> QED
        BY <1>2, <2>4, <4>1 DEF Failed, Describes
    <3> QED
      BY <3>1, <3>2, <3>3
  <2>5. CASE k > m
    <3>0. PICK n \in Nat : n = Len(out)
      BY <1>2
    <3>4. k \in 1 .. n /\ m \in Nat
      BY <1>2, <2>1, <3>0
    <3>5. n # m - 1 /\ n # m /\ m \in 0 .. k - 1
      BY <2>5, <3>4
    <3>1. Lost(m)
      <4>1. Len(out) # m - 1 /\ Len(out) # m
        BY <3>0, <3>5
      <4> QED
        BY <1>1, <4>1 DEF ReadingHead, ReadingBody
    <3>2. ~sent[m].wellFormed /\ m \in 1 .. k - 1
      BY <1>1, <3>1, <3>5 DEF Lost
    <3> QED
      BY <1>3, <3>2 DEF Reaches
  <2> QED
    BY <1>2, <2>1, <2>3, <2>4, <2>5
<1> QED
  BY <1>3 DEF Decoded

\* Of what was sent nothing is left to read.
LEMMA AllRead ==
    ASSUME TypeOK, sent \in Seq(Sendable), Arrived, i > Len(data), stream = <<>>
    PROVE  Pos = Len(Whole)
<1>1. PICK d \in Nat : d = Len(data)
  BY RestType
<1>2. PICK w \in Nat : w = Len(Whole)
  BY WholeType
<1>3. Len(stream) = 0
  OBVIOUS
<1>4. Before = w - d
  BY <1>1, <1>2, <1>3 DEF Before
<1>5. Min2(i - 1, d) = d
  BY <1>1, RestType DEF Min2
<1> QED
  BY <1>1, <1>2, <1>4, <1>5 DEF Pos

\* ... and at the end all of it.
LEMMA FollowingDecodesAll ==
    ASSUME TypeOK, sent \in Seq(Sendable), Following PROVE AllDecoded
<1> SUFFICES ASSUME i > Len(data), stream = <<>>, NEW k \in DOMAIN sent, Reaches(k)
             PROVE  /\ k \in DOMAIN out
                    /\ sent[k].coding = "close" \/ out[k].size = 0 \/ out[k].ended
                    /\ out[k].error <=> ~sent[k].wellFormed
  BY DEF AllDecoded
<1>1. PICK m \in 1 .. Len(sent) + 1 : ReadingHead(m) \/ ReadingBody(m) \/ Lost(m)
  BY DEF Following
<1>2. /\ Len(sent) \in Nat /\ m \in Nat /\ p \in Fields
      /\ out \in Seq(Told) /\ Len(out) \in Nat /\ DOMAIN out = 1 .. Len(out)
      /\ k \in 1 .. Len(sent) /\ k \in Nat
  BY <1>1, StartsAt DEF TypeOK
<1>3. Pos = Len(Whole)
  BY AllRead DEF Following
<1>4. PICK w : w = Whole
  OBVIOUS
<1>5. Len(w) \in Nat
  BY <1>4, WholeType
<1>6. PICK a \in Nat : a = Start(m)
  BY <1>1, StartsAt
<1>7. PICK q \in Int : q = Len(w) - a
  <2>1. Len(w) - a \in Int
    BY <1>5
  <2> QED
    BY <2>1, Zenon
<1>8. Pos - Start(m) = q
  BY <1>3, <1>4, <1>6, <1>7
<1>9. Behind(m)
  BY <1>1 DEF ReadingHead, ReadingBody, Lost
<1>10. CASE k < m
  <2>1. k \in 1 .. m - 1 /\ k \in 1 .. Len(out)
    BY <1>2, <1>9, <1>10 DEF Behind
  <2>2. Done(out[k], sent[k])
    BY <1>9, <2>1 DEF Behind
  <2> QED
    BY <1>2, <2>1, <2>2 DEF Done
<1>11. CASE k >= m
  <2>1. m \in 1 .. Len(sent)
    BY <1>1, <1>2, <1>11
  <2>2. PICK r \in Sendable : r = sent[m]
    BY <2>1, WiresType
  <2>3. HasAt(w, a, Wire(r)) /\ Start(m + 1) = a + Len(Wire(r))
    BY <1>4, <1>6, <2>1, <2>2, WholeType
  <2>4. CASE ReadingHead(m)
    <3>1. InHead(m, p, q)
      BY <1>8, <2>4 DEF ReadingHead
    <3>2. InVersion(p, q) \/ InCode(r, p, q) \/ InMessage(r, p, q) \/ InHeaders(r, p, q)
      BY <2>2, <3>1 DEF InHead
    <3> QED
      BY <1>5, <1>7, <2>3, <3>2, HeadUnfinished
  <2>5. CASE ReadingBody(m)
    <3>1. Len(out) = m /\ InBody(r, p, q, out[m])
      BY <1>8, <2>2, <2>5 DEF ReadingBody
    <3>2. r.wellFormed /\ (r.coding = "close" \/ (out[m].size = 0 /\ q = Len(Wire(r))))
      BY <1>2, <1>5, <1>7, <2>3, <3>1, BodyUnfinished
    <3>3. CASE k = m
      <4>1. out[m] \in Told /\ k \in DOMAIN out
        BY <1>2, <3>1, <3>3
      <4>2. ~out[m].error
        BY <1>2, <3>1, <4>1, BodyDescribes
      <4> QED
        BY <2>2, <3>2, <3>3, <4>1, <4>2
    <3>4. CASE k # m
      <4>1. m \in 1 .. k - 1
        BY <1>2, <1>11, <2>1, <3>4
      <4>2. r.coding # "close"
        BY <2>2, <4>1 DEF Reaches
      <4>3. Start(m + 1) = Len(w)
        BY <1>5, <1>7, <2>3, <3>2, <4>2
      <4>4. m + 1 \in 1 .. Len(sent) /\ m + 1 \in 1 .. Len(sent) + 1
        BY <1>2, <4>1
      <4>5. PICK s \in Sendable : s = sent[m + 1]
        BY <4>4, WiresType
      <4>6. HasAt(w, Len(w), Wire(s))
        BY <1>4, <4>3, <4>4, <4>5, WholeType
      <4>7. HasAt(w, Len(w), StatusLine(s)) /\ Len(StatusLine(s)) = 10
        <5>1. HasAt(w, Len(w), HeadOf(s)) /\ s \in Response
          BY <1>5, <4>6, HasWire DEF Sendable
        <5> QED
          BY <1>5, <5>1, HasHead, StatusLineType
      <4>8. FALSE
        BY <1>5, <4>7 DEF HasAt
      <4> QED
        BY <4>8
    <3> QED
      BY <3>3, <3>4
  <2>6. CASE Lost(m)
    <3>1. /\ Len(out) >= m /\ Failed(out[m]) /\ ~sent[m].wellFormed
      BY <2>6 DEF Lost
    <3>2. k = m
      <4>1. CASE k # m
        <5>1. m \in 1 .. k - 1
          BY <1>2, <1>11, <2>1, <4>1
        <5> QED
          BY <3>1, <5>1 DEF Reaches
      <4> QED
        BY <4>1
    <3>3. out[m] \in Told /\ k \in DOMAIN out
      BY <1>2, <3>1, <3>2
    <3> QED
      BY <3>1, <3>2, <3>3 DEF Failed
  <2> QED
    BY <1>1, <2>4, <2>5, <2>6
<1> QED
  BY <1>1, <1>2, <1>10, <1>11

\* The inductive invariant of feed: what was sent stays what servers may send, and the
\* parser keeps its place in it.
LEMMA ParserFollows ==
    ASSUME WellEncoded PROVE Spec => [](TypeOK /\ sent \in Seq(Sendable) /\ Following)
<1> DEFINE J == Inv /\ sent \in Seq(Sendable) /\ Following
<1>1. Init => J
  BY ParserInit, FollowingInit
<1>2. J /\ [Next]_vars => J'
  <2>1. ASSUME J, [Next]_vars PROVE J'
    <3>1. Inv'
      BY <2>1, ParserStep
    <3>2. Following' /\ sent' = sent
      BY <2>1, FollowingStep DEF Inv
    <3> QED
      BY <2>1, <3>1, <3>2
  <2> QED
    BY <2>1
<1>3. J => TypeOK /\ sent \in Seq(Sendable) /\ Following
  BY DEF Inv
<1> QED
  BY <1>1, <1>2, <1>3, PTL DEF Spec

\* feed tells the requests of the responses that were sent, in the order they were
\* sent in: the status, the fields and the way the body is delimited of each of them,
\* and the units of a body that does not end with the connection, wherever the buffers
\* begin and end and whatever the bodies are made of.
THEOREM ParserDecodes == ASSUME WellEncoded PROVE Spec => []Decoded
<1>1. TypeOK /\ sent \in Seq(Sendable) /\ Following => Decoded
  BY FollowingDecodes
<1> QED
  BY <1>1, ParserFollows, PTL

\* Once everything was read all the responses that were sent were told, each of them to
\* its end, and a malformed one was reported: the reset after each of them leaves nothing
\* behind that would spoil the next one.
THEOREM ParserDecodesAll == ASSUME WellEncoded PROVE Spec => []AllDecoded
<1>1. TypeOK /\ sent \in Seq(Sendable) /\ Following => AllDecoded
  BY FollowingDecodesAll
<1> QED
  BY <1>1, ParserFollows, PTL
=============================================================================
