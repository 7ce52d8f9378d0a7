--------------------------- MODULE ResponseParser ---------------------------
(***************************************************************************)
(* src/response_parser.c: the engine with the callbacks that fill in a     *)
(* http_response_t.  A step of the engine that makes a callback and the    *)
(* handler's effect are one step here, and the engine goes on with the     *)
(* value the handler returns.  The handlers are written against the        *)
(* protocol of the callbacks, so HttpParserProtocol is extended, with its  *)
(* history variable last: what it proves of the engine holds here.         *)
(*                                                                         *)
(* data is what the parser has read of the client's buffer, from which the *)
(* callbacks get their slices.  Two history variables are read only by the *)
(* properties: wire collects, byte by byte as the parser consumes them,    *)
(* the strings and body bytes the peer sent, whatever way they are cut     *)
(* into buffers, and where a value went on in another line; declared is    *)
(* the Content-Length the parser acts on.                                  *)
(***************************************************************************)
EXTENDS HttpParserProtocol, HttpResponse

CONSTANTS
    StoredBodyCb,       \* what rp->body_cb may hold: init does not set it
    MaxMessages,        \* bounds of the model: no buffer comes after so many messages
    MaxBody             \* ... or so many body bytes

ASSUME BodyCbAssumption == StoredBodyCb \subseteq {"NULL", "user", "garbage"}

VARIABLES
    data,
    body_cb,            \* rp->body_cb
    passed,             \* bytes handed to the client's body callback
    freed,              \* http_response_free has been called
    wire,
    declared

rvars == <<pvars, res, data, body_cb, passed, freed, wire, declared>>

\* http_response_init, then response_parser_init: where the malloc of the parser fails, the
\* wrong pointer is tested (response_parser.c:138) and http_parser_init writes through NULL.
\* A bound: at most one of these allocations fails.
response_parser_init ==
    {[http_response_init({"fields", "values"} \ failed) EXCEPT
         !.null = "parser" \in failed,
         !.oom = failed # {}] :
        failed \in {{}} \cup (IF TRUE \in MallocFails
                              THEN {{"fields"}, {"values"}, {"parser"}} ELSE {})}

RInit ==
    /\ PInit
    /\ res \in response_parser_init
    /\ data = <<>>
    /\ body_cb \in StoredBodyCb
    /\ passed = 0
    /\ freed = FALSE
    /\ wire = [status |-> <<>>, names |-> <<>>, values |-> <<>>, folds |-> {}, body |-> 0,
               messages |-> 0]
    /\ declared = 0

-----------------------------------------------------------------------------
(* The callbacks *)

\* The slice handed to the callback; bytes the parser skipped over may be any
Slice == [i \in 1..cb'.n |-> IF cb'.at + i <= Len(data) THEN data[cb'.at + i] ELSE Any]

\* wrong: bytes for the client are not counted
BodyUncounted ==
    IF body_cb = "NULL"
    THEN SetBody(cb'.n, cb'.ret) /\ UNCHANGED passed
    ELSE cb'.ret = 0 /\ passed' = passed + cb'.n /\ UNCHANGED res

\* rp_on_body_callback: a stored callback takes the bytes instead of the response.  What
\* a call through a garbage pointer does is undefined; here it returns, at best.
BodyCallback ==
    IF body_cb = "NULL"
    THEN SetBody(cb'.n, cb'.ret) /\ UNCHANGED passed
    ELSE /\ cb'.ret = 0
         /\ res' = [res EXCEPT !.body_length = (@ + cb'.n) % UINT_RANGE]
         /\ passed' = IF body_cb = "user" THEN passed + cb'.n ELSE passed

\* rp_on_chunk_header_callback, rp_on_message_complete_callback and the ones that only
\* return 0
PlainCallback ==
    /\ cb'.ret = 0
    /\ CASE cb'.for = "chunk_header" -> SetChunked
         [] cb'.for = "message_complete" -> SetMessageComplete
         [] OTHER -> UNCHANGED res

Respond ==
    CASE cb'.for = "none" -> UNCHANGED <<res, passed>>
      [] cb'.for = "status" ->
           SetStatus(parser'.status_code, Slice, cb'.ret) /\ UNCHANGED passed
      [] cb'.for = "header_field" -> SetHeaderField(Slice, cb'.ret) /\ UNCHANGED passed
      [] cb'.for = "header_value" -> SetHeaderValue(Slice, cb'.ret) /\ UNCHANGED passed
      [] cb'.for = "headers_complete" -> SetHeadersComplete(cb'.ret) /\ UNCHANGED passed
      [] cb'.for = "body" -> BodyCallback
      [] OTHER -> PlainCallback /\ UNCHANGED passed

-----------------------------------------------------------------------------
(* What was read and what was sent *)

\* data grows to the bytes read so far, the skipped ones included
Read ==
    data' = [i \in 1..(IF call'.cur = NoByte THEN call'.pos ELSE call'.pos + 1) |->
                IF i <= Len(data) THEN data[i]
                ELSE IF i = call'.pos + 1 THEN call'.cur ELSE Any]

Extend(s, t) == [s EXCEPT ![Len(s)] = @ \o t]

\* A value is new unless it continues the one of the latest name
ValueSent(w, t) ==
    IF Len(w.values) < Len(w.names) THEN [w EXCEPT !.values = Append(@, t)]
                                    ELSE [w EXCEPT !.values = Extend(@, t)]

\* A line that begins with t continues the latest value: folds has the values as they
\* stood when their lines ended
Folded(w, t) == [ValueSent(w, t) EXCEPT !.folds = @ \cup {w.values}]

\* The byte under the switch, and those skipped with it, as part of the message
Sent ==
    LET s == parser.state
        ch == call.cur
        t == <<ch>>
        newline == ch.c \in {"CR", "LF"}
    IN  CASE s \in {"s_res_status_start", "s_res_status"} /\ ~newline ->
               [wire EXCEPT !.status = @ \o t]
          [] s = "s_header_field_start" /\ Token(ch) ->
               [wire EXCEPT !.names = Append(@, t)]
          [] s = "s_header_field" /\ Token(ch) -> [wire EXCEPT !.names = Extend(@, t)]
          [] s = "s_header_value_discard_ws" /\ ~newline /\ ~IsLws(ch) -> ValueSent(wire, t)
          [] s = "s_header_value_start" -> Folded(wire, t)
          [] s = "s_header_value" /\ ~newline ->
               ValueSent(wire, t \o [i \in 1..(call'.run - call.run - 1) |-> Any])
          [] s = "s_header_value_discard_lws" /\ ~IsLws(ch) -> ValueSent(wire, <<>>)
          [] s \in {"s_body_identity", "s_chunk_data"} ->
               [wire EXCEPT !.body = @ + ToRead]
          [] s = "s_body_identity_eof" -> [wire EXCEPT !.body = @ + call.len - call.pos]
          [] OTHER -> wire

History ==
    /\ Read
    /\ wire' = [(IF call.active /\ call.cur # NoByte THEN Sent ELSE wire) EXCEPT
                    !.messages = IF cb'.for = "message_complete" THEN @ + 1 ELSE @]
    /\ declared' = IF cb'.for = "headers_complete" THEN parser'.content_length
                                                   ELSE declared
    /\ last' = IF cb' = NoCb THEN last ELSE cb'.for

-----------------------------------------------------------------------------

\* response_parser_execute and response_parser_finish run the engine; a process that
\* wrote through a null pointer is gone
Parse ==
    /\ ~freed /\ ~res.null
    /\ \/ /\ wire.messages < MaxMessages /\ wire.body < MaxBody
          /\ \E n \in 1..MaxLen : Execute(n)
       \/ Finish
       \/ Run
    /\ Respond
    /\ History
    /\ UNCHANGED <<body_cb, freed>>

\* response_parser_free and http_response_free, between two calls
Free ==
    /\ ~freed /\ ~call.active /\ ~res.null
    /\ freed' = TRUE
    /\ FreeResponse
    /\ UNCHANGED <<pvars, data, body_cb, passed, wire, declared>>

Ended == (freed \/ res.null) /\ UNCHANGED rvars

RNext == Parse \/ Free \/ Ended

RSpec == RInit /\ [][RNext]_rvars

-----------------------------------------------------------------------------
(* Properties *)

NoError == parser.http_errno = "HPE_OK"
Texts(array) == [i \in 1..Len(array) |-> array[i].text]

\* The types of the response; the engine's are HttpParser's
ResponseTypeOK ==
    /\ TypeOK
    /\ res.headers_count \in 0..MAX_HEADERS_COUNT
    /\ Len(res.header_values) \in {res.headers_count, res.headers_count + 1}
    /\ {res.expected_content_length, res.body_length, res.body_offset}
          \subseteq 0..(UINT_RANGE - 1)
    /\ Len(data) <= MaxLen

\* Once the headers are complete, http_response_find_header sees the names and values
\* the peer sent, paired as they were sent, wherever the buffers cut them (values only
\* while no write has left its block)
HeadersAsSent ==
    NoError /\ parser.state \in {"s_headers_done"} \cup BodyStates =>
        /\ res.headers_count = Len(wire.names)
        /\ Texts(res.header_fields) = wire.names
        /\ ~res.overrun => Texts(res.header_values) = wire.values

-----------------------------------------------------------------------------
(* Connection lists and Transfer-Encoding, as a reader of whole values has them *)

\* Where the lines that continue value i begin
FoldsOf(i) == {Len(values[i]) + 1 : values \in {v \in wire.folds : Len(v) = i}}

Spaces(value, i, j) == \A k \in i..j : value[k].c = "SP"

\* Between a comma and place k there are only spaces and line ends
AfterComma(value, folds, k) ==
    \E b \in 1..(k - 1) :
        value[b].c = "," /\ \A j \in (b + 1)..(k - 1) : j \in folds \/ value[j].c = "SP"

\* The parser reads no more of a list from place k on: a line that continues it there, but
\* for one after a comma, or a byte after a comma that can begin no element, another comma
\* or a HT among them
Stops(value, folds, k) ==
    IF k \in folds THEN ~AfterComma(value, folds, k)
    ELSE AfterComma(value, folds, k) /\ ~Token(value[k]) /\ value[k].c # "SP"

\* value, a list separated by commas, has word as an element before the parser stops
Lists(value, folds, word) ==
    \E i \in 1..(Len(value) - 1), e \in 3..(Len(value) + 1) :
        /\ SubSeq(value, i, i + 1) = word
        /\ i = 1 \/ AfterComma(value, folds, i)
        /\ e > i + 1 /\ Spaces(value, i + 2, e - 1)
        /\ e = Len(value) + 1 \/ value[e].c = ","
        /\ \A k \in 1..(e - 1) : ~Stops(value, folds, k)

Word(c, d) == <<Letters(c), Letters(d)>>

\* A first element that is empty, or an element that is only the beginning of a known word:
\* the parser takes the comma that ends it for a byte of it, and misses the element behind
\* (http_parser.c:1494, 1626)
Hides(value) ==
    \E i \in 1..Len(value) :
        /\ value[i].c = ","
        /\ i = 1 \/ value[i - 1].c \in {"cl", "keep-", "up"}

\* Where the headers end the parser's flags say what the Connection headers list and
\* whether the body is chunked, as a reader of the whole values would: the matching done
\* a byte at a time over several buffers neither loses nor invents an element.  The values
\* of which the parser makes less than one may expect are these.  Of a list continued on
\* another line it reads no more than the elements ended by a comma on the line before,
\* unless that line ended behind a comma; a list with an empty element, or with a HT behind
\* a comma, it reads up to there (Stops).  A HT behind an element makes it another element.
\* A chunked that is continued on another line is none.  Nothing is said of the Connection
\* lists of a message in which an element hides the next (Hides).
FlagsAsSent ==
    LET Says(name, P(_)) ==
            \E i \in 1..Len(wire.values) : wire.names[i] = name /\ P(i)
        Agrees(flag, word) ==
            flag \in parser.flags <=>
                Says(Word("connec", "tion"),
                     LAMBDA i : Lists(wire.values[i], FoldsOf(i), word))
        Chunked(i) ==
            /\ Len(wire.values[i]) >= 2
            /\ SubSeq(wire.values[i], 1, 2) = Word("ch", "unked")
            /\ Spaces(wire.values[i], 3, Len(wire.values[i]))
            /\ FoldsOf(i) = {}
    IN  NoError /\ parser.state = "s_headers_done" /\ wire.messages = 0 =>
            /\ ~Says(Word("connec", "tion"), LAMBDA i : Hides(wire.values[i])) =>
                  /\ Agrees("F_CONNECTION_CLOSE", Word("cl", "ose"))
                  /\ Agrees("F_CONNECTION_KEEP_ALIVE", Word("keep-", "alive"))
                  /\ Agrees("F_CONNECTION_UPGRADE", Word("up", "grade"))
            /\ "F_CHUNKED" \in parser.flags <=> Says(Word("transfer-", "encoding"), Chunked)

-----------------------------------------------------------------------------

\* The bytes of the body the parser has consumed and not reported yet are those of the
\* string still open in this call: between calls body_length counts every body byte, and
\* they have all gone to the response's body or all to the client's callback
BodyAsSent ==
    NoError /\ ~call.active /\ ~res.null =>
        /\ res.body_length = wire.body % UINT_RANGE
        /\ body_cb = "NULL" => res.body_offset = res.body_length
        /\ body_cb = "user" => passed = wire.body /\ res.body = 0

\* sscanf reads the length the parser acts on
LengthsAgree == declared = ULLONG_MAX \/ res.expected_content_length = declared

\* memcpy stays inside the body's block for the first message of a connection, if its
\* length is read alike by sscanf and by the parser
BodyInBlock ==
    LengthsAgree /\ wire.messages = 0 /\ wire.body < UINT_RANGE /\ res.body # 0
        => res.body_offset <= res.body

\* is_message_completed is set only when the body announced by Content-Length has been
\* delivered in full (get_ip.c:155 stops reading as soon as it is set)
CompletedIsWhole ==
    [][/\ wire'.messages = 1 /\ wire.messages = 0 /\ declared # ULLONG_MAX
       /\ "F_CHUNKED" \notin parser'.flags
       => res'.body_length = declared % UINT_RANGE]_rvars

\* The error returns "cant concat field to null!" (http_response.c:127) and "cant concat
\* value to null!" (171) cannot be reached through the parser, even when memory runs out:
\* a handler that failed is never called again
NoConcatToNull == [][cb'.ret # HTTPS_CLIENT_INVALID_PARAMETER]_rvars

\* The process writes through a null pointer, or into a block of no bytes, only once an
\* allocation has failed: with memory left there is a block for every kind of body, however
\* it is framed and announced
NullOnlyOutOfMemory == res.null => res.oom

\* http_response.h:78 "set response header value supports chunked header": a value that
\* comes in parts stays inside its block
ValuesInBlock ==
    \A i \in 1..Len(res.header_values) :
        Len(res.header_values[i].text) < res.header_values[i].size
        \/ res.header_values[i] = NULL

\* http_response.c:144 "max headers count reached": up to that count the arrays of init
\* hold a pointer for every header
SlotsSuffice == Len(res.header_fields) <= HEADER_SLOTS

\* http_parser.h:85 "It will be called arbitrarily many times for each string": the status
\* message is the whole reason phrase, however many callbacks bring it
StatusAsSent ==
    NoError /\ parser.state = "s_headers_done" /\ wire.messages = 0 /\ wire.status # <<>>
        => res.status_message.text = wire.status

\* http_response.h:41 "de-allocates http_response_t items": nothing stays allocated
FreesEverything == freed => res.live = 0

\* response_parser.h:23 "body_cb can be set NULL": without a callback of the client the
\* body goes into the response
NullCallbackStoresBody ==
    ~call.active /\ ~res.null /\ NoError => res.body_offset = res.body_length
=============================================================================
