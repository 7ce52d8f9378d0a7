--------------------------- MODULE RequestBuilder ----------------------------
(***************************************************************************)
(* src/request_builder.c, over the URLs of ParseUrl: a request is put      *)
(* together by calls in any order and built any number of times.           *)
(*                                                                         *)
(* A character counts one byte.  Names of headers and of methods are one   *)
(* character long: the sizes the properties compare do not depend on it.   *)
(* request is what the last build wrote.  asked is history: the headers    *)
(* that were added successfully since init, and for whom: NullPtr stands   *)
(* for the client, <<"build">> for build, a URL for set_parsed_url.        *)
(***************************************************************************)
EXTENDS ParseUrl

CONSTANTS
    MAX_HEADERS_COUNT,  \* common.h:13
    BUFFER,             \* request_builder.c:119, char buffer[10]
    UINT32_RANGE,
    Methods,            \* what clients pass to set_method
    Headers,            \* the headers clients add, pairs of texts
    BodySizes,          \* and the sizes of the bodies they build with
    MaxCalls            \* bound: the calls of one run

ASSUME BuilderAssumption ==
    MAX_HEADERS_COUNT \in Nat /\ BUFFER \in Nat \ {0} /\ UINT32_RANGE \in Nat \ {0}
ASSUME InputsAssumption ==
    /\ Methods \subseteq Seq(STRING) /\ Headers \subseteq Seq(STRING) \X Seq(STRING)
    /\ BodySizes \subseteq Nat

VARIABLES
    rb,                 \* request_builder_t
    request,            \* the text of the last build, NoRequest if there is none
    asked,
    builds,             \* the sizes of the bodies built with since init
    calls               \* the calls made so far

bvars == <<pvars, rb, request, asked, builds, calls>>

NoRequest == [method |-> <<>>, target |-> <<>>, headers |-> <<>>, body |-> 0, url |-> NullPtr]
NoUrl == "NULL"

ASSUME UrlsAssumption == NoUrl \notin Urls

NewBuilder == [life |-> "new", method |-> <<"<unknown>">>, parsed_url |-> NoUrl,
               header_fields |-> <<>>, header_values |-> <<>>, headers_count |-> 0]

BInit ==
    /\ PInit
    /\ rb = NewBuilder
    /\ request = NoRequest
    /\ asked = <<>>
    /\ builds = <<>>
    /\ calls = 0

request_builder_init ==
    /\ rb.life = "new"
    /\ rb' = [NewBuilder EXCEPT !.life = "ready"]
    /\ asked' = <<>> /\ builds' = <<>> /\ request' = NoRequest
    /\ UNCHANGED pvars

\* A name that was left without its value is not freed
request_builder_free ==
    /\ rb.life = "ready"
    /\ rb' = NewBuilder
    /\ heap' = heap - 2 * rb.headers_count
    /\ UNCHANGED <<h_parse_url, parse_url, fault, given, astray, request, asked, builds>>

request_builder_set_method(m) ==
    /\ rb.life = "ready"
    /\ rb' = [rb EXCEPT !.method = m]
    /\ UNCHANGED <<pvars, request, asked, builds>>

-----------------------------------------------------------------------------
(* Headers *)

\* array[i] = p, i from 1 to one past the last element written so far
Put(array, i, p) ==
    IF i = Len(array) + 1 THEN Append(array, p) ELSE [array EXCEPT ![i] = p]

\* wrong: the header counts before its value is there
CountedEarly(b, field, value, failed) ==
    LET i == b.headers_count + 1
    IN  [b EXCEPT !.header_fields = Put(@, i, IF failed = "field" THEN NullPtr ELSE field),
                  !.header_values = Put(@, i, IF failed # "none" THEN NullPtr ELSE value),
                  !.headers_count = IF failed = "field" THEN @ ELSE @ + 1]

\* request_builder_set_header with room in the arrays, when this malloc fails
WithHeader(b, field, value, failed) ==
    LET i == b.headers_count + 1
    IN  [b EXCEPT !.header_fields = Put(@, i, IF failed = "field" THEN NullPtr ELSE field),
                  !.header_values = IF failed = "field" THEN @
                                    ELSE Put(@, i, IF failed = "value" THEN NullPtr ELSE value),
                  !.headers_count = IF failed = "none" THEN @ + 1 ELSE @]

\* Which malloc of set_header fails
Failing == {"none"} \cup (IF TRUE \in Fails THEN {"field", "value"} ELSE {})
Got(failed) == CASE failed = "none" -> 2 [] failed = "value" -> 1 [] failed = "field" -> 0

NoMemory(failed) == IF failed = "none" THEN {} ELSE {"no memory"}

\* Nothing stops the count: past the arrays lie their neighbours in the struct
Full == rb.headers_count >= MAX_HEADERS_COUNT

request_builder_set_header(field, value) ==
    /\ rb.life = "ready"
    /\ IF Full
       THEN fault' = "slots" /\ UNCHANGED <<rb, heap, asked, astray>>
       ELSE \E failed \in Failing :
               /\ rb' = WithHeader(rb, field, value, failed)
               /\ heap' = heap + Got(failed)
               /\ astray' = astray \cup NoMemory(failed)
               /\ asked' = IF failed = "none"
                           THEN Append(asked, [from |-> NullPtr, field |-> field, value |-> value])
                           ELSE asked
               /\ UNCHANGED fault
    /\ UNCHANGED <<h_parse_url, parse_url, given, request, builds>>

\* Names and values are compared by strcmp, letter by letter
request_builder_has_header(b, key, value) ==
    \E i \in 1..b.headers_count : b.header_fields[i] = key /\ b.header_values[i] = value

\* The digits of n
Decimal(n) ==
    LET dec[k \in 0..n] == IF k < 10 THEN <<DigitOf[k + 1]>>
                           ELSE Append(dec[k \div 10], DigitOf[(k % 10) + 1])
    IN  dec[n]

\* wrong: only one default port is left out
HostWithPort(url) ==
    url.host \o IF url.port # 80 /\ url.schema \in {<<"http">>, <<"https">>}
                THEN <<":">> \o Decimal(url.port) ELSE <<>>

\* The port is named unless it is the default of the schema
HostText(url) ==
    url.host \o IF \/ url.schema = <<"http">> /\ url.port # 80
                   \/ url.schema = <<"https">> /\ url.port # 443
                THEN <<":">> \o Decimal(url.port) ELSE <<>>

\* wrong: the URL is taken even if its Host header could not be added
LinkedAnyway(b, p, failed) == [b EXCEPT !.parsed_url = p]

\* wrong: the URL is not taken
NotLinked(b, p, failed) == b

Linked(b, p, failed) == IF failed = "none" THEN [b EXCEPT !.parsed_url = p] ELSE b

\* The pointer is kept, not a copy.  The malloc for the text of the host is not checked;
\* the text is freed again.
request_builder_set_parsed_url(p) ==
    /\ rb.life = "ready" /\ parse_url[p].life = "parsed"
    /\ \E fails \in Fails :
          IF fails \/ parse_url[p].host = NullPtr
          THEN /\ fault' = "null"
               /\ astray' = astray \cup {"no memory"}
               /\ UNCHANGED <<rb, heap, asked>>
          ELSE IF Full
          THEN fault' = "slots" /\ UNCHANGED <<rb, heap, asked, astray>>
          ELSE \E failed \in Failing :
                  LET b == WithHeader(rb, <<"Host">>, HostText(parse_url[p]), failed)
                  IN  /\ rb' = Linked(b, p, failed)
                      /\ heap' = heap + Got(failed)
                      /\ astray' = astray \cup NoMemory(failed)
                      /\ asked' = IF failed = "none"
                                  THEN Append(asked, [from |-> given[p], field |-> <<"Host">>,
                                                      value |-> HostText(parse_url[p])])
                                  ELSE asked
                      /\ UNCHANGED fault
    /\ UNCHANGED <<h_parse_url, parse_url, given, request, builds>>

-----------------------------------------------------------------------------
(* Building *)

\* snprintf(buffer, BUFFER, "%lu", n) keeps the digits that fit before the terminator
LengthText(n) ==
    [i \in {k \in 1..Len(Decimal(n)) : k < BUFFER} |-> Decimal(n)[i]]

Chunked(b) == request_builder_has_header(b, <<"Transfer-Encoding">>, <<"chunked">>)

\* wrong: only a method that always has a body announces its length
AnnouncesByMethod(b, body_size) ==
    ~Chunked(b) /\ b.method \in {<<"POST">>, <<"PUT">>, <<"DELETE">>}

Announces(b, body_size) ==
    ~Chunked(b) /\ (b.method \in {<<"POST">>, <<"PUT">>, <<"DELETE">>} \/ body_size > 0)

\* METHOD SP PATH [? QUERY] SP HTTP/1.1 CR LF
LineSize(b, url) ==
    Len(b.method) + 1 + Len(url.path)
      + (IF url.query = <<>> THEN 0 ELSE Len(url.query) + 1) + 1 + 8 + 2

HeaderSizes(b) ==
    LET sum[i \in 0..b.headers_count] ==
            IF i = 0 THEN 0
            ELSE sum[i - 1] + Len(b.header_fields[i]) + 1 + 1 + Len(b.header_values[i]) + 2
    IN  sum[b.headers_count]

\* wrong: the empty line after the headers is forgotten
CountedWithoutEnd(b, url, body_size) ==
    (LineSize(b, url) + HeaderSizes(b) + (IF Chunked(b) THEN 0 ELSE body_size))
        % UINT32_RANGE

\* The size the code computes, in 32 bits
Counted(b, url, body_size) ==
    (LineSize(b, url) + HeaderSizes(b) + 2 + (IF Chunked(b) THEN 0 ELSE body_size))
        % UINT32_RANGE

\* The size of what it writes, the terminator of the last sprintf included
Written(b, url, body_size) ==
    LET text == LineSize(b, url) + HeaderSizes(b) + 2
    IN  IF body_size = 0 THEN text + 1 ELSE text + body_size

\* PATH [? QUERY]
Target(path, query) == path \o (IF query = <<>> THEN <<>> ELSE <<"?">> \o query)

\* The text of a request
Text(b, url, body_size) ==
    [method |-> b.method,
     target |-> Target(url.path, url.query),
     headers |-> [i \in 1..b.headers_count |->
                     [field |-> b.header_fields[i], value |-> b.header_values[i]]],
     body |-> body_size,
     url |-> given[b.parsed_url]]

\* The Host headers that set_parsed_url added
UrlsAsked == {i \in 1..Len(asked) : asked[i].from \in Strings}

\* A Content-Length is added, and stays; its failure goes unnoticed.  The URL must still be
\* there.  The calloc is not checked.
request_builder_build(body_size) ==
    /\ rb.life = "ready"
    /\ builds' = Append(builds, body_size)
    /\ IF Announces(rb, body_size) /\ Full
       THEN fault' = "slots" /\ UNCHANGED <<rb, heap, asked, astray, request>>
       ELSE \E failed \in IF Announces(rb, body_size) THEN Failing ELSE {"none"},
               fails \in Fails :
               LET b == IF Announces(rb, body_size)
                        THEN WithHeader(rb, <<"Content-Length">>, LengthText(body_size), failed)
                        ELSE rb
                   url == parse_url[b.parsed_url]
                   early == b.parsed_url = NoUrl
                   bad == CASE early -> "null"
                            [] ~early /\ url.life # "parsed" -> "freed"
                            [] ~early /\ url.life = "parsed" /\ (fails \/ url.query = NullPtr) ->
                                 "null"
                            [] ~early /\ url.life = "parsed" /\ ~fails /\ url.query # NullPtr
                               /\ Written(b, url, body_size) > Counted(b, url, body_size) + 1 ->
                                 "heap"
                            [] OTHER -> "none"
               IN  /\ rb' = b
                   /\ heap' = heap + (IF Announces(rb, body_size) THEN Got(failed) ELSE 0)
                   /\ asked' = IF Announces(rb, body_size) /\ failed = "none"
                               THEN Append(asked, [from |-> <<"build">>, field |-> <<"Content-Length">>,
                                                   value |-> LengthText(body_size)])
                               ELSE asked
                   /\ astray' = astray \cup NoMemory(failed)
                                  \cup (IF fails THEN {"no memory"} ELSE {})
                                  \cup (IF UrlsAsked = {} THEN {"early"} ELSE {})
                   /\ fault' = bad
                   /\ request' = IF bad = "none" THEN Text(b, url, body_size) ELSE NoRequest
    /\ UNCHANGED <<h_parse_url, parse_url, given>>

-----------------------------------------------------------------------------

UrlCall(p) ==
    /\ parse_url_init(p) \/ parse_url_free(p) \/ \E s \in Strings : parse_url_string(p, s)
    /\ UNCHANGED <<rb, request, asked, builds>>

BuilderCall ==
    \/ request_builder_init \/ request_builder_free
    \/ \E m \in Methods : request_builder_set_method(m)
    \/ \E p \in Urls : request_builder_set_parsed_url(p)
    \/ \E h \in Headers : request_builder_set_header(h[1], h[2])
    \/ \E n \in BodySizes : request_builder_build(n)

BNext ==
    \/ /\ fault = "none" /\ calls < MaxCalls
       /\ (\E p \in Urls : UrlCall(p)) \/ BuilderCall
       /\ calls' = calls + 1
    \/ /\ fault # "none" \/ calls = MaxCalls
       /\ UNCHANGED bvars

BSpec == BInit /\ [][BNext]_bvars

-----------------------------------------------------------------------------
(* Properties *)

Framing == {<<"Transfer-Encoding">>, <<"Content-Length">>}

\* The headers that were there when the request was built
Present == [i \in DOMAIN request.headers \cap DOMAIN asked |-> asked[i]]

\* The request carries the headers that were added successfully, in the order they were
\* added and none besides, though a malloc of any other call may have failed half way
HeadersAsAsked ==
    request # NoRequest =>
        /\ Len(asked) >= Len(request.headers)
        /\ \A i \in 1..Len(request.headers) :
              request.headers[i] = [field |-> asked[i].field, value |-> asked[i].value]

\* Who adds no framing header and builds with one size of body only (or builds once) gets
\* requests whose Content-Lengths all say that size, one at least if there is a body.  A
\* size of more digits than the buffer of build holds is excepted, and memory running out.
\* Who says chunked, in these letters, gets no Content-Length added.
FramesBody ==
    LET lengths == {i \in 1..Len(Present) : Present[i].field = <<"Content-Length">>}
    IN  request # NoRequest /\ "no memory" \notin astray =>
        /\ /\ \A i \in 1..Len(Present) :
                 Present[i].from = NullPtr => Present[i].field \notin Framing
           /\ \A i \in 1..Len(builds) : builds[i] = request.body
           /\ Len(Decimal(request.body)) < BUFFER
           => /\ request.body > 0 => lengths # {}
              /\ \A i \in lengths : Present[i].value = Decimal(request.body)
        /\ (/\ Present # <<>>
            /\ Present[1] = [from |-> NullPtr, field |-> <<"Transfer-Encoding">>,
                             value |-> <<"chunked">>])
           => \A i \in lengths : Present[i].from = NullPtr

\* What build writes fits the block it allocated, whatever headers and URL it has, unless
\* the request is chunked and has a body nevertheless or its size takes more than 32 bits
BuildFits ==
    fault = "heap" =>
        \/ Chunked(rb) /\ builds[Len(builds)] > 0
        \/ LineSize(rb, parse_url[rb.parsed_url]) + HeaderSizes(rb) + 2 + builds[Len(builds)]
              >= UINT32_RANGE

\* A header is written past the arrays only once MAX_HEADERS_COUNT headers are there: those
\* the builder adds itself, one Host for every URL and one Content-Length for every build
\* that needs it, included, and no place is lost to a header whose malloc failed
SlotsCounted == fault = "slots" => Len(asked) = MAX_HEADERS_COUNT

\* The request asks the server of its last Host header for the path and query of the URL
\* that header was made from: a set_parsed_url that failed changes neither.  Excepted are
\* objects that were parsed again while the builder points at them.
LineNamesHost ==
    request # NoRequest /\ astray \cap {"parsed twice", "used again"} = {} =>
        \E i \in UrlsAsked \cap DOMAIN Present :
            /\ \A j \in UrlsAsked \cap DOMAIN Present : j <= i
            /\ request.url = asked[i].from
            /\ LET u == Parsed[request.url].u
               IN  request.target = Target(PathOr(Copied(u, "UF_PATH", request.url)),
                                           Copied(u, "UF_QUERY", request.url))

\* NULL is followed only if memory ran out, a request was built without a URL, or the lives
\* of two URLs overlapped; and a client that avoids these and parses each URL once leaves
\* nothing allocated once it has freed what it uses (the requests it got are its own)
NullExplained == fault = "null" => astray \cap {"no memory", "early", "shared"} # {}

NothingLeaks ==
    /\ astray \subseteq {"early"}
    /\ rb.life = "new" /\ \A p \in Urls : parse_url[p].life = "new"
    => heap = 0

\* The port a reader of this Host header goes to
PortRead(text, default) ==
    LET colons == {i \in 1..Len(text) : text[i] = ":"}
    IN  IF colons = {} THEN default ELSE Number(text, CHOOSE i \in colons : TRUE)

\* The Host header of a URL that was accepted names the host and port the client connects
\* to: it leaves the port out exactly if that is the default of the schema.  Excepted are
\* addresses in brackets, which the header shows without them, and URLs whose length an
\* offset cannot hold.
HostNamesServer ==
    \A i \in 1..Len(asked) :
        LET s == asked[i].from
            c == Parsed[s]
            schema == Copied(c.u, "UF_SCHEMA", s)
            host == Copied(c.u, "UF_HOST", s)
        IN  s \in Strings /\ c.ret = 0 /\ schema \in {<<"http">>, <<"https">>}
            /\ (\A k \in 1..Len(s) : s[k] # "[") /\ Len(s) < UINT16_RANGE
            => /\ SubSeq(asked[i].value, 1, Len(host)) = host
               /\ PortRead(asked[i].value, IF schema = <<"http">> THEN 80 ELSE 443)
                     = PortOf(c.u, schema)
=============================================================================
