------------------------------ MODULE HttpParser ------------------------------
(***************************************************************************)
(* protocol/http/http_request_parser: the incremental parser as a function *)
(* of its saved state and the unconsumed input.  A byte is CR, LF or       *)
(* another string, a word of a line; a line's length in words counts       *)
(* against the limits.  The space between the words of a request line, the *)
(* comma between those of a header value, case and the white space around  *)
(* a value are left out, and so is the query of a target.  Offsets are the *)
(* code's, from 0, and sums of them wrap where the code's do.              *)
(***************************************************************************)
EXTENDS Integers, Sequences, SequencesExt

CONSTANTS
    SizeMax,             \* the largest size_t
    MaximumRequestLine,  \* options_.maximum_request_line_bytes
    MaximumHeaderBytes,  \* options_.maximum_header_bytes
    MaximumHeaderCount,  \* options_.maximum_header_count
    MaximumBodyBytes,    \* options_.maximum_body_bytes
    MaximumChunkLine     \* 256

ASSUME ParserOptionsAreValid ==
    /\ SizeMax \in Nat
    /\ MaximumRequestLine \in 1..SizeMax /\ MaximumHeaderCount \in 1..SizeMax
    /\ MaximumHeaderBytes \in 2..SizeMax
    /\ MaximumBodyBytes \in 0..SizeMax /\ MaximumChunkLine \in 0..SizeMax

\* Reset
Fresh ==
    [state |-> "RequestLine", line |-> <<>>, headers |-> <<>>, body |-> <<>>,
     keep_alive |-> TRUE, line_start |-> 0, scan_offset |-> 0,
     header_bytes |-> 0, content_length |-> 0, body_offset |-> 0,
     chunk_size |-> 0, chunk_body_offset |-> 0, has_chunked |-> FALSE,
     expect_continue |-> FALSE, expect_continue_sent |-> FALSE, error |-> "None"]

------------------------------------------------------------------------------
(* Results: the parser afterwards, the status, and what a complete request
   consumed and is *)

Result(p, status) ==
    [p |-> p, status |-> status, consumed |-> 0, request |-> <<>>]

Fail(p, error) == Result([p EXCEPT !.state = "Error", !.error = error], "Error")

\* Go round the loop again.
Continue(p) == Result(p, "Continue")

Complete(p, input) ==
    LET sized == p.content_length # 0 /\ ~p.has_chunked
        body  == IF sized THEN SubSeq(input, p.body_offset + 1,
                                      p.body_offset + p.content_length)
                 ELSE p.body
    IN  [p |-> Fresh, status |-> "Complete",
         consumed |-> IF p.has_chunked THEN p.scan_offset
                      ELSE p.body_offset + p.content_length,
         request |-> [line |-> p.line, body |-> body, keep_alive |-> p.keep_alive]]

------------------------------------------------------------------------------
(* Lines *)

\* ReadLine: scanning goes on where it stopped.  It stops at the first LF, CR
\* or byte beyond the limit; a CR that is the last byte so far is looked at
\* again.
ReadLine(p, input, maximum) ==
    LET stops == {i \in p.scan_offset..Len(input) - 1 :
                     input[i + 1] \in {"CR", "LF"} \/ i - p.line_start + 1 > maximum}
        i     == Min(stops)
        Line(status, value, q) == [status |-> status, value |-> value, p |-> q]
    IN  IF stops = {}
        THEN Line("Incomplete", <<>>, [p EXCEPT !.scan_offset = Len(input)])
        ELSE CASE input[i + 1] = "LF" -> Line("Error", <<>>, p)
               [] input[i + 1] = "CR" /\ i + 1 >= Len(input) ->
                    Line("Incomplete", <<>>, [p EXCEPT !.scan_offset = i])
               [] input[i + 1] = "CR" /\ i + 1 < Len(input) ->
                    IF input[i + 2] # "LF" THEN Line("Error", <<>>, p)
                    ELSE IF i - p.line_start > maximum
                    THEN Line("LimitExceeded", <<>>, p)
                    ELSE Line("Complete", SubSeq(input, p.line_start + 1, i),
                              [p EXCEPT !.scan_offset = i + 2, !.line_start = i + 2])
               [] OTHER -> Line("LimitExceeded", <<>>, p)

\* Words with a character no token has, targets that do not begin with a slash
\* or have a fragment, and values with a control character.
NoTokens == {"(", ":", "/"}
NoTargets == {"*", "/#"}
ControlCharacters == {"NUL"}

\* Exactly three words: the method, the target and the version.
ParseRequestLine(p, line) ==
    CASE Len(line) # 3 -> Fail(p, "InvalidRequestLine")
      [] Len(line) = 3 ->
         IF line[1] \in NoTokens THEN Fail(p, "InvalidRequestLine")
         ELSE IF line[3] # "HTTP/1.1" THEN Fail(p, "UnsupportedVersion")
         ELSE IF line[2] \in NoTargets THEN Fail(p, "InvalidTarget")
         ELSE Continue([p EXCEPT !.state = "Headers", !.line = <<line[1], line[2]>>])

\* A name, a colon and a value, which may be empty.
ParseHeaderLine(p, line) ==
    LET value == SubSeq(line, 3, Len(line))
    IN  IF /\ Len(line) > 1 /\ line[1] \notin NoTokens /\ line[2] = ":"
           /\ Range(value) \cap ControlCharacters = {}
        THEN Continue([p EXCEPT
                 !.headers = Append(@, [name |-> line[1], value |-> value])])
        ELSE Fail(p, "InvalidHeader")

HeaderContainsToken(value, expected) == expected \in Range(value)

------------------------------------------------------------------------------
(* Sizes *)

Digits == <<"0", "1", "2", "3", "4", "5", "6", "7", "8", "9",
            "a", "b", "c", "d", "e", "f">>
IsDigit(word, base) == \E i \in 1..base : Digits[i] = word
Digit(word) == (CHOOSE i \in DOMAIN Digits : Digits[i] = word) - 1

\* A text that is no size, or one beyond size_t.
NoSize == -1

ParseDecimalSize(text) ==
    LET Step(size, word) ==
            IF size = NoSize \/ ~IsDigit(word, 10) THEN NoSize
            ELSE IF size > (SizeMax - Digit(word)) \div 10 THEN NoSize
            ELSE size * 10 + Digit(word)
    IN  IF text = <<>> THEN NoSize ELSE FoldLeft(Step, 0, text)

ParseHexSize(text) ==
    LET Step(size, word) ==
            IF size = NoSize \/ size > SizeMax \div 16 \/ ~IsDigit(word, 16) THEN NoSize
            ELSE size * 16 + Digit(word)
    IN  IF text = <<>> THEN NoSize ELSE FoldLeft(Step, 0, text)

SkipChunkExtension(line) ==
    LET semis == {i \in DOMAIN line : line[i] = ";"}
    IN  IF semis = {} THEN line ELSE SubSeq(line, 1, Min(semis) - 1)

\* A sum of sizes.
Wrap(n) == n % (SizeMax + 1)

------------------------------------------------------------------------------
(* The end of the headers *)

Named(headers, name) == {i \in DOMAIN headers : headers[i].name = name}

\* What the loop of FinalizeHeaders finds wrong with header i;
\* Transfer-Encoding is refused after Content-Length and not before it.
FieldError(headers, i) ==
    LET name  == headers[i].name
        value == headers[i].value
        sized == \E j \in Named(headers, "content-length") : j < i
    IN  CASE name = "host" /\ value = <<>> -> "MissingHost"
          [] name = "content-length" /\ ParseDecimalSize(value) = NoSize ->
                "InvalidContentLength"
          [] name = "transfer-encoding" /\ sized -> "InvalidContentLength"
          [] name = "transfer-encoding" /\ ~sized
                /\ ~HeaderContainsToken(value, "chunked") -> "UnsupportedTransferEncoding"
          [] OTHER -> "None"

\* The value of the last Content-Length, for headers without a FieldError.
ContentLength(headers) ==
    LET lengths == Named(headers, "content-length")
    IN  IF lengths = {} THEN 0 ELSE ParseDecimalSize(headers[Max(lengths)].value)

\* The loop's first error, or that of the counts and the length after it.
HeaderError(headers) ==
    LET faulty == {i \in DOMAIN headers : FieldError(headers, i) # "None"}
        count(name) == Cardinality(Named(headers, name))
    IN  IF faulty # {} THEN FieldError(headers, Min(faulty))
        ELSE IF count("host") = 0 THEN "MissingHost"
        ELSE IF count("host") > 1 THEN "DuplicateHost"
        ELSE IF count("content-length") > 1 THEN "DuplicateContentLength"
        ELSE IF ContentLength(headers) > MaximumBodyBytes THEN "BodyTooLarge"
        ELSE "None"

\* What FinalizeHeaders keeps of the headers; the last Expect counts.
Finalized(p) ==
    LET Tokens(name, token) ==
            {i \in Named(p.headers, name) : HeaderContainsToken(p.headers[i].value, token)}
        expects == Named(p.headers, "expect")
    IN  [p EXCEPT !.content_length = ContentLength(p.headers),
                  !.has_chunked = Named(p.headers, "transfer-encoding") # {},
                  !.expect_continue = expects # {} /\
                        Max(expects) \in Tokens("expect", "100-continue"),
                  !.keep_alive = Tokens("connection", "close") = {}]

\* The empty line that ends the headers.
OnEmptyLine(p, input) ==
    LET q == [Finalized(p) EXCEPT !.body_offset = p.scan_offset]
        r == [q EXCEPT !.state = IF q.has_chunked THEN "ChunkHead" ELSE "Body",
                       !.expect_continue_sent = q.expect_continue]
    IN  IF HeaderError(p.headers) # "None" THEN Fail(p, HeaderError(p.headers))
        ELSE IF ~q.has_chunked /\ q.content_length = 0 THEN Complete(q, input)
        ELSE IF q.expect_continue THEN Result(r, "HeadersComplete")
        ELSE Continue(r)

------------------------------------------------------------------------------
(* One turn of Parse's loop, by state *)

OnRequestLine(p, input) ==
    LET line == ReadLine(p, input, MaximumRequestLine)
    IN  CASE line.status = "Incomplete" -> Result(line.p, "Incomplete")
          [] line.status = "LimitExceeded" -> Fail(p, "RequestLineTooLarge")
          [] line.status = "Error" -> Fail(p, "InvalidLineEnding")
          [] line.status = "Complete" ->
                ParseRequestLine(line.p, line.value)

OnHeaders(p, input) ==
    LET remaining == Max({0, MaximumHeaderBytes - p.header_bytes})
        line == ReadLine(p, input, remaining)
        q    == [line.p EXCEPT !.header_bytes = @ + Len(line.value) + 2]
    IN  CASE line.status = "Incomplete" -> Result(line.p, "Incomplete")
          [] line.status = "LimitExceeded" -> Fail(p, "HeaderTooLarge")
          [] line.status = "Error" -> Fail(p, "InvalidLineEnding")
          [] line.status = "Complete" ->
             CASE q.header_bytes > MaximumHeaderBytes -> Fail(p, "HeaderTooLarge")
               [] q.header_bytes <= MaximumHeaderBytes /\ line.value = <<>> ->
                    OnEmptyLine(q, input)
               [] OTHER ->
                    IF Len(p.headers) >= MaximumHeaderCount
                    THEN Fail(p, "TooManyHeaders")
                    ELSE ParseHeaderLine(q, line.value)

OnBody(p, input) ==
    IF p.body_offset > SizeMax - p.content_length THEN Fail(p, "BodyTooLarge")
    ELSE IF Len(input) < p.body_offset + p.content_length THEN Result(p, "Incomplete")
    ELSE Complete(p, input)

\* A line beyond the limit is taken for an empty one, which is no size.
OnChunkHead(p, input) ==
    LET line == ReadLine(p, input, MaximumChunkLine)
    IN  CASE line.status = "Incomplete" -> Result(line.p, "Incomplete")
          [] line.status = "Error" -> Fail(p, "InvalidLineEnding")
          [] OTHER ->
                LET size == ParseHexSize(SkipChunkExtension(line.value))
                IN  IF size = NoSize THEN Fail(p, "InvalidContentLength")
                    ELSE Continue([line.p EXCEPT
                             !.chunk_size = size,
                             !.chunk_body_offset = line.p.scan_offset,
                             !.state = IF size = 0 THEN "ChunkTrailer" ELSE "ChunkBody"])

\* MUTANT: the line end after a chunk is left in the input.
ChunkDataEnd(p) == Wrap(p.chunk_body_offset + p.chunk_size)

\* The two bytes after a chunk are skipped, whatever they are.
ChunkEnd(p) == Wrap(p.chunk_body_offset + p.chunk_size + 2)

\* A size that wraps the sums passes both tests; CopyTo then throws out of Feed,
\* and what is left of the body is of no use.
OnChunkBody(p, input) ==
    LET end  == ChunkEnd(p)
        last == p.chunk_body_offset + p.chunk_size
    IN  IF Len(input) < end THEN Result(p, "Incomplete")
        ELSE IF Wrap(Len(p.body) + p.chunk_size) > MaximumBodyBytes
        THEN Fail(p, "BodyTooLarge")
        ELSE IF last > Len(input) THEN Result(p, "Throws")
        ELSE Continue([p EXCEPT
                 !.body = @ \o SubSeq(input, p.chunk_body_offset + 1, last),
                 !.scan_offset = end, !.line_start = end, !.state = "ChunkHead"])

\* Trailer lines are skipped up to the empty one; a line beyond the limit is
\* taken for it.
OnChunkTrailer(p, input) ==
    LET line == ReadLine(p, input, MaximumHeaderBytes)
    IN  CASE line.status = "Incomplete" -> Result(line.p, "Incomplete")
          [] line.status = "Error" -> Fail(p, "InvalidLineEnding")
          [] OTHER -> Continue([line.p EXCEPT
                !.state = IF line.value = <<>> THEN "ChunkEnd" ELSE @])

\* Parse up to the end of one turn; status "Continue" asks for another.
Parse(p, input) ==
    CASE p.state = "Error" -> Result(p, "Error")
      [] p.state # "Error" /\ Len(input) < Max({p.scan_offset, p.line_start}) ->
            Fail(p, "InvalidRequestLine")
      [] OTHER ->
            CASE p.state = "RequestLine"  -> OnRequestLine(p, input)
              [] p.state = "Headers"      -> OnHeaders(p, input)
              [] p.state = "Body"         -> OnBody(p, input)
              [] p.state = "ChunkHead"    -> OnChunkHead(p, input)
              [] p.state = "ChunkBody"    -> OnChunkBody(p, input)
              [] p.state = "ChunkTrailer" -> OnChunkTrailer(p, input)
              [] p.state = "ChunkEnd"     -> Complete(p, input)
==============================================================================
