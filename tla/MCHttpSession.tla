---------------------------- MODULE MCHttpSession ----------------------------
(***************************************************************************)
(* Streams for one HTTP/1.1 connection, with what they say.                *)
(***************************************************************************)
EXTENDS HttpSession

MCPreface == <<"POST", "#">>

EmptyLine == <<"CR", "LF">>
Lines(lines) == FlattenSeq([i \in DOMAIN lines |-> lines[i] \o EmptyLine])
First(method, target) == <<method, target, "HTTP/1.1">>
Head1(method, target, headers) ==
    Lines(<<First(method, target)>> \o headers) \o EmptyLine

Host == <<"host", ":", "a">>
Close == <<"connection", ":", "close">>
Length(digits) == <<"content-length", ":">> \o digits
Encoding(name) == <<"transfer-encoding", ":", name>>

Request(method, target, body, keep_alive) ==
    [line |-> <<method, target>>, body |-> body, keep_alive |-> keep_alive]

Stream(bytes, requests, error) ==
    [bytes |-> bytes, requests |-> requests, error |-> error]

Get == Head1("GET", "/", <<Host>>)
GetRequest == Request("GET", "/", <<>>, TRUE)
PostChunked == Head1("POST", "/", <<Host, Encoding("chunked")>>)

\* A body that looks like a line end, a fallback, a closing request, and bytes
\* after it.
Pipeline ==
    Stream(Head1("POST", "/", <<Host, Length(<<"2">>)>>) \o EmptyLine
               \o Head1("GET", "/lost", <<Host>>)
               \o Head1("HEAD", "/", <<Host, Close>>) \o <<"GET">>,
           <<Request("POST", "/", EmptyLine, TRUE), Request("GET", "/lost", <<>>, TRUE),
             Request("HEAD", "/", <<>>, FALSE)>>,
           "None")

\* Expect: 100-continue behind another request.
Expected ==
    Stream(Get \o Head1("POST", "/", <<Host, <<"expect", ":", "100-continue">>,
                                       Length(<<"2">>)>>) \o <<"a", "b">>,
           <<GetRequest, Request("POST", "/", <<"a", "b">>, TRUE)>>, "None")

\* Two chunks, one with a line feed in it and one with an extension, a trailer
\* line and another request.
Chunked ==
    Stream(PostChunked
               \o Lines(<<<<"2">>>>) \o <<"a", "LF">> \o EmptyLine
               \o Lines(<<<<"1", ";", "x">>>>) \o <<"b">> \o EmptyLine
               \o Lines(<<<<"0">>, <<"trailer">>>>) \o EmptyLine \o Get,
           <<Request("POST", "/", <<"a", "LF", "b">>, TRUE), GetRequest>>,
           "None")

\* One good request before the fault, or none.
AfterGet(bytes, error) == Stream(Get \o bytes, <<GetRequest>>, error)
Alone(bytes, error) == Stream(bytes, <<>>, error)
WithHeaders(headers, error) == Alone(Head1("POST", "/", headers), error)
WithChunks(bytes, error) == Alone(PostChunked \o bytes, error)
OneChunk == Lines(<<<<"1">>, <<"a">>>>)

\* A stream for every error, and the sizes at and beyond the largest size_t: a
\* chunk of that size is too large for the body, and after another chunk the
\* sum wraps and the connection is closed without an answer.
MCStreams ==
    {Pipeline, Expected, Chunked, Stream(MCPreface \o <<"a", "b">>, <<>>, "None"),
     AfterGet(<<"GET", "LF", "GET">>, "InvalidLineEnding"),
     AfterGet(<<"GET", "/", ".", ".", ".">>, "RequestLineTooLarge"),
     AfterGet(Head1("GET", "/", <<Close>>), "MissingHost"),
     AfterGet(Lines(<<<<"GET", "/">>>>), "InvalidRequestLine"),
     AfterGet(Lines(<<<<"GET", "/", "HTTP/1.0">>>>), "UnsupportedVersion"),
     AfterGet(Lines(<<First("GET", "*")>>), "InvalidTarget"),
     Alone(Lines(<<First("GET", "/"), Host, Close, Close, Close>>), "TooManyHeaders"),
     Alone(Lines(<<First("GET", "/")>>) \o [i \in 1..21 |-> "host"], "HeaderTooLarge"),
     Alone(Lines(<<First("GET", "/"), <<"host", "a">>>>), "InvalidHeader"),
     WithHeaders(<<<<"host", ":">>>>, "MissingHost"),
     WithHeaders(<<Host, Host>>, "DuplicateHost"),
     WithHeaders(<<Host, Length(<<"1">>), Length(<<"1">>)>>, "DuplicateContentLength"),
     WithHeaders(<<Host, Length(<<"1">>), Encoding("chunked")>>, "InvalidContentLength"),
     WithHeaders(<<Host, Length(<<"2", "5", "6">>)>>, "InvalidContentLength"),
     WithHeaders(<<Host, Length(<<"2", "5", "5">>)>>, "BodyTooLarge"),
     WithHeaders(<<Host, Encoding("gzip")>>, "UnsupportedTransferEncoding"),
     WithChunks(Lines(<<<<"0", ";", "x", "x">>>>), "InvalidContentLength"),
     WithChunks(Lines(<<<<"1", "0", "0">>>>), "InvalidContentLength"),
     WithChunks(OneChunk \o Lines(<<<<"3">>>>) \o <<"a", "b", "c">> \o EmptyLine,
                "BodyTooLarge"),
     WithChunks(Lines(<<<<"f", "f">>, <<"a">>>>), "BodyTooLarge"),
     WithChunks(OneChunk \o Lines(<<<<"f", "f">>, <<"a">>>>), "None")}

\* A trailer line longer than the header limit, then the rest of a line: in one
\* piece the parser takes the request to end before the trailer.
LongTrailer ==
    {Stream(PostChunked \o Lines(<<<<"0">>>>)
                \o [i \in 1..21 |-> "trailer"] \o EmptyLine \o EmptyLine,
            <<Request("POST", "/", <<>>, TRUE)>>, "RequestLineTooLarge")}

MCRoutes == "/" :> {"GET"}
==============================================================================
