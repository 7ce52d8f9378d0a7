----------------------------- MODULE HttpParser -----------------------------
(***************************************************************************)
(* The streaming engine of http_parser/http_parser.c, as the project runs  *)
(* it: type HTTP_RESPONSE (response_parser.c:144), HTTP_PARSER_STRICT = 1, *)
(* lenient_http_headers = 0, and every callback of http_parser_settings    *)
(* set (response_parser.c:125-134).                                        *)
(*                                                                         *)
(* A call of http_parser_execute is a sequence of steps: Execute enters    *)
(* it, Fetch is the head of the for loop, each case of the switch is one   *)
(* action (so goto reexecute is a step that keeps the byte under the       *)
(* switch), and EndOfBuffer is the code after the loop.  Each step makes   *)
(* at most one callback, recorded in cb with the value the callback        *)
(* returned.  A byte is chosen when the parser first reads it: which bytes *)
(* the buffer holds matters only then.  Lexemes says what a byte is.       *)
(***************************************************************************)
EXTENDS Integers, Lexemes

CONSTANTS
    HTTP_MAX_HEADER_SIZE,   \* http_parser.h: 80 * 1024 unless redefined
    ULLONG_MAX,             \* http_parser.c:33, (uint64_t) -1
    MaxLen,                 \* the longest buffer a client passes
    Peer,                   \* the lexemes the peer may send, by the parser's states
    CbRet                   \* the values callbacks may return

ASSUME HeaderSizeAssumption == HTTP_MAX_HEADER_SIZE \in Nat \ {0}
\* (ULLONG_MAX - 16) / 16 must not wrap below zero
ASSUME LengthAssumption     == ULLONG_MAX \in Nat /\ ULLONG_MAX > 16
ASSUME MaxLenAssumption     == MaxLen \in Nat \ {0}
ASSUME CbRetAssumption      == 0 \in CbRet /\ CbRet \subseteq Int

VARIABLES
    parser,     \* struct http_parser, the fields the response path uses
    call,       \* the locals of the http_parser_execute call in progress
    cb,         \* the callback made by the last step, NoCb if none
    nparsed,    \* what the last call returned
    eof         \* the client has signalled the end of the input (len = 0)

vars == <<parser, call, cb, nparsed, eof>>

-----------------------------------------------------------------------------
(* The states of the switch.  s_res_H stands for s_res_H .. s_res_http_minor. *)

HeaderPhaseStates ==
    {"s_dead", "s_start_res", "s_res_H", "s_res_first_status_code", "s_res_status_code",
     "s_res_status_start", "s_res_status", "s_res_line_almost_done",
     "s_header_field_start", "s_header_field", "s_header_value_discard_ws",
     "s_header_value_discard_ws_almost_done", "s_header_value_discard_lws",
     "s_header_value_start", "s_header_value", "s_header_value_lws",
     "s_header_almost_done", "s_chunk_size_start", "s_chunk_size",
     "s_chunk_parameters", "s_chunk_size_almost_done", "s_headers_almost_done",
     "s_headers_done"}

BodyStates == {"s_chunk_data", "s_chunk_data_almost_done", "s_chunk_data_done",
               "s_body_identity", "s_body_identity_eof", "s_message_done"}

State == HeaderPhaseStates \cup BodyStates

\* A lexeme of several bytes comes only where the parser takes it whole
Readable(ch, s) ==
    /\ ch.c = "ver" => s = "s_res_H"
    /\ ch.c = "code" => s = "s_res_first_status_code"
    /\ ch.c = "num" => s \notin {"s_res_first_status_code", "s_res_status_code"}

\* PARSING_HEADER(state): the bytes that COUNT_HEADER_SIZE(1) counts
ParsingHeader(s) == s \in HeaderPhaseStates

HeaderState ==
    {"h_general", "h_matching_connection", "h_matching_content_length",
     "h_matching_transfer_encoding", "h_matching_upgrade", "h_connection",
     "h_content_length", "h_transfer_encoding", "h_upgrade",
     "h_matching_transfer_encoding_chunked", "h_matching_connection_token_start",
     "h_matching_connection_keep_alive", "h_matching_connection_close",
     "h_matching_connection_upgrade", "h_matching_connection_token",
     "h_transfer_encoding_chunked", "h_connection_keep_alive", "h_connection_close",
     "h_connection_upgrade"}

ASSUME PeerAssumption ==
    /\ DOMAIN Peer = State \X HeaderState
    /\ \A s \in State, h \in HeaderState :
          \A ch \in Peer[s, h] : ch \in Lexeme /\ Readable(ch, s)

Flag == {"F_CHUNKED", "F_CONNECTION_KEEP_ALIVE", "F_CONNECTION_CLOSE",
         "F_CONNECTION_UPGRADE", "F_TRAILING", "F_UPGRADE", "F_SKIPBODY",
         "F_CONTENTLENGTH"}

Errno == {"HPE_OK", "HPE_CB", "HPE_INVALID_EOF_STATE", "HPE_HEADER_OVERFLOW",
          "HPE_CLOSED_CONNECTION", "HPE_INVALID_VERSION", "HPE_INVALID_STATUS",
          "HPE_INVALID_CONSTANT", "HPE_LF_EXPECTED", "HPE_INVALID_HEADER_TOKEN",
          "HPE_INVALID_CONTENT_LENGTH", "HPE_UNEXPECTED_CONTENT_LENGTH",
          "HPE_INVALID_CHUNK_SIZE", "HPE_STRICT"}

DataCb   == {"header_field", "header_value", "body", "status"}
NotifyCb == {"message_begin", "headers_complete", "message_complete",
             "chunk_header", "chunk_complete"}

NoCb   == [for |-> "none", at |-> 0, n |-> 0, ret |-> 0]
NoMark == [f \in DataCb |-> 0]          \* NULL; a mark at offset i is i + 1
NoCall == [active |-> FALSE, len |-> 0, pos |-> 0, cur |-> NoByte,
           mark |-> NoMark, run |-> 0]

Parser == [state : State, header_state : HeaderState, flags : SUBSET Flag,
           nread : Nat, content_length : Nat, http11 : BOOLEAN, status_code : Nat,
           http_errno : Errno, upgrade : BOOLEAN]

\* http_parser_init: memset to zero, then the start state of a response
http_parser_init ==
    [state |-> "s_start_res", header_state |-> "h_general", flags |-> {},
     nread |-> 0, content_length |-> 0, http11 |-> FALSE, status_code |-> 0,
     http_errno |-> "HPE_OK", upgrade |-> FALSE]

Init ==
    /\ parser = http_parser_init
    /\ call = NoCall
    /\ cb = NoCb
    /\ nparsed = 0
    /\ eof = FALSE

-----------------------------------------------------------------------------
(* The macros *)

Lesser(m, n) == IF m <= n THEN m ELSE n             \* MIN

\* SET_ERRNO and UPDATE_STATE
Error(p, e) == [p EXCEPT !.http_errno = e]
Move(p, s)  == [p EXCEPT !.state = s]

\* COUNT_HEADER_SIZE(n)
Count(p, n) ==
    [p EXCEPT !.nread = @ + n,
              !.http_errno = IF p.nread + n > HTTP_MAX_HEADER_SIZE
                             THEN "HPE_HEADER_OVERFLOW" ELSE @]

\* An accumulated length is refused when (ULLONG_MAX - base) / base < length
Overflow(length, base) == (ULLONG_MAX - base) \div base < length

\* break out of the switch: on to the next byte; goto reexecute keeps call as it is
NextByte == [call EXCEPT !.pos = @ + 1, !.cur = NoByte, !.run = 0]

\* wrong: the mark is set after the loop has moved on
MarkedLate(c, f) == [c EXCEPT !.mark[f] = IF @ = 0 THEN c.pos + 1 ELSE @]

\* MARK(f) does nothing when f is marked already
Marked(c, f) == [c EXCEPT !.mark[f] = IF @ = 0 THEN call.pos + 1 ELSE @]

\* RETURN(n)
Return(p, n) == parser' = p /\ call' = NoCall /\ nparsed' = n

\* Go on with c unless p has an error, then return er (goto error, or out of a callback)
Continue(p, c, er) ==
    IF p.http_errno = "HPE_OK"
    THEN parser' = p /\ call' = c /\ UNCHANGED nparsed
    ELSE Return(p, er)

\* The parser after a callback made with p returned ret, if what follows leaves q
Called(p, q, ret) == IF ret = 0 THEN q ELSE Error(p, "HPE_CB")

\* CALLBACK_NOTIFY_(f, er), then go on with c
Notify(f, p, c, er) ==
    \E ret \in CbRet :
        /\ cb' = [for |-> f, at |-> 0, n |-> 0, ret |-> ret]
        /\ Continue(Called(p, p, ret), c, er)

\* CALLBACK_DATA_(f, n, er) with the marks of c, then what leaves q (returning eq
\* if that fails), then go on with c: no callback if f is not marked
DataThen(f, n, p, er, q, eq, c) ==
    IF c.mark[f] = 0
    THEN cb' = NoCb /\ Continue(q, c, eq)
    ELSE \E ret \in CbRet :
            /\ cb' = [for |-> f, at |-> c.mark[f] - 1, n |-> n, ret |-> ret]
            /\ Continue(Called(p, q, ret), [c EXCEPT !.mark[f] = 0],
                        IF ret = 0 THEN eq ELSE er)

Data(f, n, p, er, c) == DataThen(f, n, p, er, p, er, c)

\* wrong: one byte too many
LengthInclusive(f, c) == call.pos + 2 - c.mark[f]

\* The bytes of f from its mark up to, not including, the current one
Length(f, c) == call.pos + 1 - c.mark[f]

\* A case that makes no callback and consumes the byte, or fails on it
Step(p) == cb' = NoCb /\ Continue(p, NextByte, call.pos)
\* ... and one that examines the byte again in the next state
Reexecute(p) == cb' = NoCb /\ Continue(p, call, call.pos)

\* The switch is at state s with byte cur
At(s) == call.active /\ call.cur # NoByte /\ parser.state = s

-----------------------------------------------------------------------------
(* Ends of messages *)

\* http_message_needs_eof
MessageNeedsEof(p) ==
    /\ p.status_code \div 100 # 1
    /\ p.status_code \notin {204, 304}
    /\ "F_SKIPBODY" \notin p.flags
    /\ "F_CHUNKED" \notin p.flags
    /\ p.content_length = ULLONG_MAX

\* http_should_keep_alive
ShouldKeepAlive(p) ==
    /\ IF p.http11 THEN "F_CONNECTION_CLOSE" \notin p.flags
                   ELSE "F_CONNECTION_KEEP_ALIVE" \in p.flags
    /\ ~MessageNeedsEof(p)

\* UPDATE_STATE(NEW_MESSAGE())
NewMessage(p) == Move(p, IF ShouldKeepAlive(p) THEN "s_start_res" ELSE "s_dead")

-----------------------------------------------------------------------------
(* Entering http_parser_execute *)

\* wrong: a name is not continued
OpenMarkNoName(s) ==
    [f \in DataCb |-> IF \/ f = "header_value" /\ s = "s_header_value"
                         \/ f = "status" /\ s = "s_res_status"
                      THEN 1 ELSE 0]

\* wrong: a value is continued past its end
OpenMarkPastEnd(s) ==
    [f \in DataCb |-> IF \/ f = "header_field" /\ s = "s_header_field"
                         \/ f = "header_value" /\ s \in {"s_header_value", "s_header_almost_done"}
                         \/ f = "status" /\ s = "s_res_status"
                      THEN 1 ELSE 0]

\* The marks that continue a string begun in an earlier buffer
OpenMark(s) ==
    [f \in DataCb |-> IF \/ f = "header_field" /\ s = "s_header_field"
                         \/ f = "header_value" /\ s = "s_header_value"
                         \/ f = "status" /\ s = "s_res_status"
                      THEN 1 ELSE 0]

\* http_parser_execute(parser, settings, data, n) with n > 0
Execute(n) ==
    /\ ~call.active /\ ~eof
    /\ cb' = NoCb
    /\ IF parser.http_errno # "HPE_OK"
       THEN nparsed' = 0 /\ UNCHANGED <<parser, call>>
       ELSE /\ call' = [NoCall EXCEPT !.active = TRUE, !.len = n,
                                      !.mark = OpenMark(parser.state)]
            /\ UNCHANGED <<parser, nparsed>>
    /\ UNCHANGED eof

\* http_parser_execute(parser, settings, NULL, 0): the peer closed the connection
Finish ==
    /\ ~call.active /\ ~eof
    /\ eof' = TRUE
    /\ CASE parser.http_errno # "HPE_OK" ->
              cb' = NoCb /\ Return(parser, 0)
         [] parser.http_errno = "HPE_OK" /\ parser.state = "s_body_identity_eof" ->
              \E ret \in CbRet :
                 /\ cb' = [for |-> "message_complete", at |-> 0, n |-> 0, ret |-> ret]
                 /\ Return(Called(parser, parser, ret), 0)
         [] parser.http_errno = "HPE_OK" /\ parser.state \in {"s_dead", "s_start_res"} ->
              cb' = NoCb /\ Return(parser, 0)
         [] OTHER ->
              cb' = NoCb /\ Return(Error(parser, "HPE_INVALID_EOF_STATE"), 1)

\* The lexemes that may come next: a body is skipped over without being looked at
Offered(p) ==
    IF p.state \in {"s_body_identity", "s_body_identity_eof", "s_chunk_data"}
    THEN {Any} ELSE Peer[p.state, p.header_state]

\* The head of the for loop.  Inside the loops over a header name or value
\* (run > 0) the byte is only read: they count their bytes when they end.
Fetch ==
    /\ call.active /\ call.cur = NoByte /\ call.pos < call.len
    /\ \E ch \in Offered(parser) :
          Continue(IF call.run = 0 /\ ParsingHeader(parser.state)
                   THEN Count(parser, 1) ELSE parser,
                   [call EXCEPT !.cur = ch], call.pos)
    /\ cb' = NoCb
    /\ UNCHANGED eof

-----------------------------------------------------------------------------
(* The status line *)

\* After a Connection: close message only blank lines may follow
Dead ==
    /\ At("s_dead")
    /\ Step(IF call.cur.c \in {"CR", "LF"} THEN parser
            ELSE Error(parser, "HPE_CLOSED_CONNECTION"))

\* message_begin is called for each blank byte before the status line too
StartRes ==
    /\ At("s_start_res")
    /\ LET p == [parser EXCEPT !.flags = {}, !.content_length = ULLONG_MAX]
       IN  CASE call.cur.c = "H" ->
                  Notify("message_begin", Move(p, "s_res_H"), NextByte, call.pos + 1)
             [] call.cur.c \in {"CR", "LF"} ->
                  Notify("message_begin", p, NextByte, call.pos + 1)
             [] OTHER -> Step(Error(p, "HPE_INVALID_CONSTANT"))

\* TTP/1.v, or a mismatch at any byte of it
Version ==
    /\ At("s_res_H")
    /\ \E e \in {"HPE_STRICT", "HPE_INVALID_VERSION"} :
          Step(IF call.cur.c = "ver"
               THEN [Move(parser, "s_res_first_status_code") EXCEPT
                         !.http11 = call.cur.v > 0]
               ELSE Error(parser, e))

FirstStatusCode ==
    /\ At("s_res_first_status_code")
    /\ Step(CASE call.cur.c = "SP" -> parser
              [] call.cur.c = "code" ->
                   [Move(parser, "s_res_status_code") EXCEPT !.status_code = call.cur.v]
              [] OTHER -> Error(parser, "HPE_INVALID_STATUS"))

StatusCode ==
    /\ At("s_res_status_code")
    /\ Step(CASE call.cur.c = "SP" -> Move(parser, "s_res_status_start")
              [] call.cur.c = "CR" -> Move(parser, "s_res_line_almost_done")
              [] call.cur.c = "LF" -> Move(parser, "s_header_field_start")
              [] OTHER -> Error(parser, "HPE_INVALID_STATUS"))

\* The first byte of the reason phrase, or an empty phrase
StatusStart ==
    /\ At("s_res_status_start")
    /\ CASE call.cur.c = "CR" -> Step(Move(parser, "s_res_line_almost_done"))
         [] call.cur.c = "LF" -> Step(Move(parser, "s_header_field_start"))
         [] OTHER -> /\ cb' = NoCb
                     /\ Continue(Move(parser, "s_res_status"),
                                 Marked(NextByte, "status"), call.pos)

Status ==
    /\ At("s_res_status")
    /\ IF call.cur.c \in {"CR", "LF"}
       THEN Data("status", Length("status", call),
                 Move(parser, IF call.cur.c = "CR" THEN "s_res_line_almost_done"
                                                   ELSE "s_header_field_start"),
                 call.pos + 1, NextByte)
       ELSE Step(parser)

ResLineAlmostDone ==
    /\ At("s_res_line_almost_done")
    /\ Step(IF call.cur.c = "LF" THEN Move(parser, "s_header_field_start")
            ELSE Error(parser, "HPE_STRICT"))

-----------------------------------------------------------------------------
(* Header names *)

\* wrong: the state of the previous header is not reset
NameStartKeeps(ch) ==
    CASE ch.c = "content-"  -> "h_matching_content_length"
      [] ch.c = "transfer-" -> "h_matching_transfer_encoding"
      [] ch.c = "connec"    -> "h_matching_connection"
      [] ch.c = "up"        -> "h_matching_upgrade"
      [] OTHER              -> parser.header_state

\* header_state after the first byte of a name, and after a further one
NameStart(ch) ==
    CASE ch.c = "content-"  -> "h_matching_content_length"
      [] ch.c = "transfer-" -> "h_matching_transfer_encoding"
      [] ch.c = "connec"    -> "h_matching_connection"
      [] ch.c = "up"        -> "h_matching_upgrade"
      [] OTHER              -> "h_general"

NameStep(h, ch) ==
    CASE h = "h_matching_content_length"    /\ ch.c = "length"   -> "h_content_length"
      [] h = "h_matching_transfer_encoding" /\ ch.c = "encoding" -> "h_transfer_encoding"
      [] h = "h_matching_connection"        /\ ch.c = "tion"     -> "h_connection"
      [] h = "h_matching_upgrade"           /\ ch.c = "grade"    -> "h_upgrade"
      [] OTHER                              -> "h_general"

\* wrong: the state is not changed before the byte is examined again
FieldStartStays ==
    /\ At("s_header_field_start")
    /\ CASE call.cur.c = "CR" -> Step(Move(parser, "s_headers_almost_done"))
         [] call.cur.c = "LF" -> Reexecute(parser)
         [] Token(call.cur) ->
              /\ cb' = NoCb
              /\ Continue([Move(parser, "s_header_field") EXCEPT
                               !.header_state = NameStart(call.cur)],
                          Marked(NextByte, "header_field"), call.pos)
         [] OTHER -> Step(Error(parser, "HPE_INVALID_HEADER_TOKEN"))

HeaderFieldStart ==
    /\ At("s_header_field_start")
    /\ CASE call.cur.c = "CR" -> Step(Move(parser, "s_headers_almost_done"))
         [] call.cur.c = "LF" -> Reexecute(Move(parser, "s_headers_almost_done"))
         [] Token(call.cur) ->
              /\ cb' = NoCb
              /\ Continue([Move(parser, "s_header_field") EXCEPT
                               !.header_state = NameStart(call.cur)],
                          Marked(NextByte, "header_field"), call.pos)
         [] OTHER -> Step(Error(parser, "HPE_INVALID_HEADER_TOKEN"))

\* The inner loop advances over tokens; run counts p - start
HeaderField ==
    /\ At("s_header_field")
    /\ LET p == Count(parser, call.run)
       IN  CASE Token(call.cur) ->
                  /\ cb' = NoCb
                  /\ Continue([parser EXCEPT
                                   !.header_state = NameStep(@, call.cur)],
                              [NextByte EXCEPT !.run = call.run + 1], call.pos)
             [] ~Token(call.cur) /\ p.http_errno # "HPE_OK" -> Step(p)
             [] call.cur.c = ":" /\ p.http_errno = "HPE_OK" ->
                  Data("header_field", Length("header_field", call),
                       Move(p, "s_header_value_discard_ws"), call.pos + 1, NextByte)
             [] OTHER -> Step(Error(p, "HPE_INVALID_HEADER_TOKEN"))

\* The loop over a name or a value meets the end of the buffer
LeaveInnerLoop ==
    /\ call.active /\ call.cur = NoByte /\ call.pos = call.len /\ call.run > 0
    /\ cb' = NoCb
    /\ Continue(Count(parser, call.run), [call EXCEPT !.run = 0], call.pos)

-----------------------------------------------------------------------------
(* Header values *)

\* The first byte of a value: case s_header_value_start
ValueStart(ch) ==
    LET p == Move(parser, "s_header_value")
        h == parser.header_state
        To(s) == [p EXCEPT !.header_state = s]
    IN  CASE h = "h_upgrade" ->
               [To("h_general") EXCEPT !.flags = @ \cup {"F_UPGRADE"}]
          [] h = "h_transfer_encoding" ->
               To(IF ch.c = "ch" THEN "h_matching_transfer_encoding_chunked"
                                 ELSE "h_general")
          [] h = "h_content_length" ->
               IF ~IsNum(ch) THEN Error(p, "HPE_INVALID_CONTENT_LENGTH")
               ELSE IF "F_CONTENTLENGTH" \in p.flags
                    THEN Error(p, "HPE_UNEXPECTED_CONTENT_LENGTH")
               ELSE [p EXCEPT !.flags = @ \cup {"F_CONTENTLENGTH"},
                              !.content_length = ch.v]
          [] h = "h_connection" ->
               To(CASE ch.c = "keep-" -> "h_matching_connection_keep_alive"
                    [] ch.c = "cl"    -> "h_matching_connection_close"
                    [] ch.c = "up"    -> "h_matching_connection_upgrade"
                    [] OTHER          -> "h_matching_connection_token")
          [] h = "h_matching_connection_token_start" -> p
          [] OTHER -> To("h_general")

StartValue ==
    /\ cb' = NoCb
    /\ Continue(ValueStart(call.cur), Marked(NextByte, "header_value"), call.pos)

HeaderValueDiscardWs ==
    /\ At("s_header_value_discard_ws")
    /\ CASE IsLws(call.cur) -> Step(parser)
         [] call.cur.c = "CR" ->
              Step(Move(parser, "s_header_value_discard_ws_almost_done"))
         [] call.cur.c = "LF" -> Step(Move(parser, "s_header_value_discard_lws"))
         [] OTHER -> StartValue

\* wrong: the line that continues a value goes on where the one before has ended
MatchGoesOn ==
    /\ At("s_header_value_start")
    /\ cb' = NoCb
    /\ Continue(Move(parser, "s_header_value"), Marked(NextByte, "header_value"), call.pos)

HeaderValueStart ==
    /\ At("s_header_value_start")
    /\ StartValue

\* h_state after a further byte of a Connection or Transfer-Encoding value.  The beginning
\* of an element is looked for in LOWER(ch), which makes a HT a parenthesis: only spaces are
\* skipped there, and whatever else is no token ends the list.
ValueStep(h, ch) ==
    CASE h = "h_matching_transfer_encoding_chunked" ->
           IF ch.c = "unked" THEN "h_transfer_encoding_chunked" ELSE "h_general"
      [] h = "h_transfer_encoding_chunked" ->
           IF ch.c = "SP" THEN h ELSE "h_general"
      [] h = "h_matching_connection_token_start" ->
           (CASE ch.c = "keep-" -> "h_matching_connection_keep_alive"
              [] ch.c = "cl"    -> "h_matching_connection_close"
              [] ch.c = "up"    -> "h_matching_connection_upgrade"
              [] ch.c = "SP"    -> h
              [] OTHER          -> IF Token(ch) THEN "h_matching_connection_token"
                                                ELSE "h_general")
      [] h = "h_matching_connection_keep_alive" ->
           IF ch.c = "alive" THEN "h_connection_keep_alive"
                             ELSE "h_matching_connection_token"
      [] h = "h_matching_connection_close" ->
           IF ch.c = "ose" THEN "h_connection_close" ELSE "h_matching_connection_token"
      [] h = "h_matching_connection_upgrade" ->
           IF ch.c = "grade" THEN "h_connection_upgrade"
                             ELSE "h_matching_connection_token"
      [] h = "h_matching_connection_token" ->
           IF ch.c = "," THEN "h_matching_connection_token_start" ELSE h
      [] h \in {"h_connection_keep_alive", "h_connection_close", "h_connection_upgrade"} ->
           (CASE ch.c = ","  -> "h_matching_connection_token_start"
              [] ch.c = "SP" -> h
              [] OTHER       -> "h_matching_connection_token")
      [] OTHER -> "h_general"

\* The flag a recognised value stands for, set at the comma or at the line's end
FlagOf(h) ==
    CASE h = "h_connection_keep_alive"     -> {"F_CONNECTION_KEEP_ALIVE"}
      [] h = "h_connection_close"          -> {"F_CONNECTION_CLOSE"}
      [] h = "h_connection_upgrade"        -> {"F_CONNECTION_UPGRADE"}
      [] h = "h_transfer_encoding_chunked" -> {"F_CHUNKED"}
      [] OTHER                             -> {}

\* A further byte of a Content-Length
LengthDigit(p, ch) ==
    CASE ch.c = "SP" -> p
      [] ~IsNum(ch) /\ ch.c # "SP" -> Error(p, "HPE_INVALID_CONTENT_LENGTH")
      [] OTHER -> IF Overflow(p.content_length, 10)
                  THEN Error(p, "HPE_INVALID_CONTENT_LENGTH")
                  ELSE [p EXCEPT !.content_length = @ * 10 + ch.v]

ValueByte(p, ch) ==
    CASE ~IsHeaderChar(ch) -> Error(p, "HPE_INVALID_HEADER_TOKEN")
      [] IsHeaderChar(ch) /\ p.header_state = "h_content_length" -> LengthDigit(p, ch)
      [] OTHER -> [p EXCEPT !.header_state = ValueStep(@, ch),
                            !.flags = IF ch.c = "," /\ p.header_state # "h_transfer_encoding_chunked"
                                      THEN @ \cup FlagOf(p.header_state) ELSE @]

InValue(ch) == At("s_header_value") /\ call.cur.c = ch

\* The callback comes before the bytes of the value are counted
HeaderValueCR ==
    /\ InValue("CR")
    /\ LET p == Move(parser, "s_header_almost_done")
       IN  DataThen("header_value", Length("header_value", call), p, call.pos + 1,
                    Count(p, call.run), call.pos, NextByte)

\* The bytes are counted before the callback, and the LF is examined again
HeaderValueLF ==
    /\ InValue("LF")
    /\ LET p == Count(Move(parser, "s_header_almost_done"), call.run)
       IN  IF p.http_errno # "HPE_OK"
           THEN cb' = NoCb /\ Return(p, call.pos)
           ELSE Data("header_value", Length("header_value", call), p, call.pos,
                     [call EXCEPT !.run = 0])

HeaderValueByte ==
    /\ At("s_header_value")
    /\ call.cur.c \notin {"CR", "LF"}
    /\ parser.header_state # "h_general" \/ ~IsHeaderChar(call.cur)
    /\ cb' = NoCb
    /\ Continue(ValueByte(parser, call.cur), [NextByte EXCEPT !.run = call.run + 1],
                call.pos)

\* memchr finds the next CR or LF at most limit bytes away, or the rest of the
\* buffer is skipped; the bytes skipped are not looked at
HeaderValueSkip ==
    /\ At("s_header_value")
    /\ call.cur.c \notin {"CR", "LF"}
    /\ parser.header_state = "h_general" /\ IsHeaderChar(call.cur)
    /\ cb' = NoCb
    /\ LET limit == Lesser(call.len - call.pos, HTTP_MAX_HEADER_SIZE)
           Skip(k, ch) == [call EXCEPT !.pos = @ + k, !.run = @ + k, !.cur = ch]
           newlines == {ch \in Offered(parser) : ch.c \in {"CR", "LF"}}
       IN  \/ \E k \in 1..(limit - 1), ch \in newlines :
                 Continue(parser, Skip(k, ch), call.pos)
           \/ Continue(parser, Skip(call.len - call.pos, NoByte), call.pos)

HeaderAlmostDone ==
    /\ At("s_header_almost_done")
    /\ Step(IF call.cur.c = "LF" THEN Move(parser, "s_header_value_lws")
            ELSE Error(parser, "HPE_LF_EXPECTED"))

\* A line that begins with white space continues the value
HeaderValueLws ==
    /\ At("s_header_value_lws")
    /\ Reexecute(IF IsLws(call.cur) THEN Move(parser, "s_header_value_start")
                 ELSE [Move(parser, "s_header_field_start") EXCEPT
                           !.flags = @ \cup FlagOf(parser.header_state)])

HeaderValueDiscardWsAlmostDone ==
    /\ At("s_header_value_discard_ws_almost_done")
    /\ Step(IF call.cur.c = "LF" THEN Move(parser, "s_header_value_discard_lws")
            ELSE Error(parser, "HPE_STRICT"))

\* wrong: an empty value is not reported
EmptyValueUnreported ==
    /\ At("s_header_value_discard_lws")
    /\ IF IsLws(call.cur) THEN Step(Move(parser, "s_header_value_discard_ws"))
       ELSE Reexecute([Move(parser, "s_header_field_start") EXCEPT
                           !.flags = @ \cup FlagOf(parser.header_state)])

\* Nothing but white space: the value is empty, and its callback is made all the same
HeaderValueDiscardLws ==
    /\ At("s_header_value_discard_lws")
    /\ IF IsLws(call.cur) THEN Step(Move(parser, "s_header_value_discard_ws"))
       ELSE Data("header_value", 0,
                 [Move(parser, "s_header_field_start") EXCEPT
                      !.flags = @ \cup FlagOf(parser.header_state)],
                 call.pos, Marked(call, "header_value"))

-----------------------------------------------------------------------------
(* The end of the headers *)

\* headers_complete: 1 says the message has no body, 2 that an upgrade follows
HeadersComplete(p) ==
    \E ret \in CbRet :
        /\ cb' = [for |-> "headers_complete", at |-> 0, n |-> 0, ret |-> ret]
        /\ Continue(CASE ret = 0 -> p
                      [] ret = 1 -> [p EXCEPT !.flags = @ \cup {"F_SKIPBODY"}]
                      [] ret = 2 -> [p EXCEPT !.flags = @ \cup {"F_SKIPBODY"},
                                              !.upgrade = TRUE]
                      [] OTHER   -> Error(p, "HPE_CB"),
                    call, call.pos)

\* wrong: both framings are accepted
BothFramings ==
    /\ At("s_headers_almost_done")
    /\ CASE call.cur.c # "LF" -> Step(Error(parser, "HPE_STRICT"))
         [] call.cur.c = "LF" /\ "F_TRAILING" \in parser.flags ->
              Notify("chunk_complete", Move(parser, "s_message_done"), call, call.pos)
         [] OTHER -> HeadersComplete([Move(parser, "s_headers_done") EXCEPT !.upgrade = FALSE])

HeadersAlmostDone ==
    /\ At("s_headers_almost_done")
    /\ CASE call.cur.c # "LF" -> Step(Error(parser, "HPE_STRICT"))
         [] call.cur.c = "LF" /\ "F_TRAILING" \in parser.flags ->
              Notify("chunk_complete", Move(parser, "s_message_done"), call, call.pos)
         [] OTHER ->
              IF {"F_CHUNKED", "F_CONTENTLENGTH"} \subseteq parser.flags
              THEN Step(Error(parser, "HPE_UNEXPECTED_CONTENT_LENGTH"))
              ELSE HeadersComplete([Move(parser, "s_headers_done") EXCEPT
                      !.upgrade = {"F_UPGRADE", "F_CONNECTION_UPGRADE"}
                                      \subseteq parser.flags])

\* wrong: the call returns with every message
ReturnAtEnd(p) ==
    \E ret \in CbRet :
        /\ cb' = [for |-> "message_complete", at |-> 0, n |-> 0, ret |-> ret]
        /\ Return(Called(NewMessage(p), NewMessage(p), ret), call.pos + 1)

\* wrong: the call returns with every message that has no body
ReturnIfSkipped(p) ==
    \E ret \in CbRet :
        /\ cb' = [for |-> "message_complete", at |-> 0, n |-> 0, ret |-> ret]
        /\ LET q == Called(NewMessage(p), NewMessage(p), ret)
           IN  IF "F_SKIPBODY" \in p.flags THEN Return(q, call.pos + 1)
               ELSE Continue(q, NextByte, call.pos + 1)

\* MessageComplete: the next message, or another protocol, starts after this byte
MessageComplete(p) ==
    \E ret \in CbRet :
        /\ cb' = [for |-> "message_complete", at |-> 0, n |-> 0, ret |-> ret]
        /\ LET q == Called(NewMessage(p), NewMessage(p), ret)
           IN  IF p.upgrade THEN Return(q, call.pos + 1)
               ELSE Continue(q, NextByte, call.pos + 1)

\* The state that reads the body, "none" if the message ends with its headers
BodyState(p) ==
    LET hasBody == \/ "F_CHUNKED" \in p.flags
                   \/ p.content_length > 0 /\ p.content_length # ULLONG_MAX
    IN  CASE \/ p.upgrade /\ ~hasBody
             \/ "F_SKIPBODY" \in p.flags
             \/ "F_CHUNKED" \notin p.flags /\ p.content_length = 0 -> "none"
          [] "F_CHUNKED" \in p.flags /\ "F_SKIPBODY" \notin p.flags ->
               "s_chunk_size_start"
          [] OTHER -> CASE p.content_length # ULLONG_MAX -> "s_body_identity"
                        [] p.content_length = ULLONG_MAX /\ MessageNeedsEof(p) ->
                             "s_body_identity_eof"
                        [] OTHER -> "none"

\* wrong: the count of header bytes goes on
CountGoesOn ==
    /\ At("s_headers_done")
    /\ CASE call.cur.c # "LF" -> Step(Error(parser, "HPE_STRICT"))
         [] call.cur.c = "LF" /\ BodyState(parser) # "none" ->
              Step(Move(parser, BodyState(parser)))
         [] OTHER -> MessageComplete(parser)

HeadersDone ==
    /\ At("s_headers_done")
    /\ LET p == [parser EXCEPT !.nread = 0]
       IN  CASE call.cur.c # "LF" -> Step(Error(parser, "HPE_STRICT"))
             [] call.cur.c = "LF" /\ BodyState(p) # "none" -> Step(Move(p, BodyState(p)))
             [] OTHER -> MessageComplete(p)

-----------------------------------------------------------------------------
(* Bodies *)

\* wrong: all of the buffer
ReadAll == call.len - call.pos

\* The bytes of this buffer that belong to the body or chunk
ToRead == Lesser(parser.content_length, call.len - call.pos)

\* Past all but the last of the next n bytes
Advance(n) == [call EXCEPT !.pos = @ + n - 1]

\* Take the body's bytes at once; its last byte is examined again to end the message
BodyIdentity ==
    /\ At("s_body_identity")
    /\ LET p == [parser EXCEPT !.content_length = @ - ToRead]
           c == Marked(Advance(ToRead), "body")
       IN  IF p.content_length = 0
           THEN Data("body", c.pos + 2 - c.mark["body"], Move(p, "s_message_done"),
                     c.pos, c)
           ELSE /\ cb' = NoCb
                /\ Continue(p, [c EXCEPT !.pos = @ + 1, !.cur = NoByte], call.pos)

\* Without a length, everything up to the end of the buffer is body
BodyIdentityEof ==
    /\ At("s_body_identity_eof")
    /\ cb' = NoCb
    /\ Continue(parser, [Marked(call, "body") EXCEPT !.pos = call.len, !.cur = NoByte],
                call.pos)

MessageDone ==
    /\ At("s_message_done")
    /\ MessageComplete(parser)

ChunkSizeStart ==
    /\ At("s_chunk_size_start")
    /\ Step(IF IsHex(call.cur)
            THEN [Move(parser, "s_chunk_size") EXCEPT !.content_length = call.cur.v]
            ELSE Error(parser, "HPE_INVALID_CHUNK_SIZE"))

ChunkSize ==
    /\ At("s_chunk_size")
    /\ Step(CASE call.cur.c = "CR" -> Move(parser, "s_chunk_size_almost_done")
              [] call.cur.c \in {";", "SP"} -> Move(parser, "s_chunk_parameters")
              [] IsHex(call.cur) ->
                   IF Overflow(parser.content_length, 16)
                   THEN Error(parser, "HPE_INVALID_CONTENT_LENGTH")
                   ELSE [parser EXCEPT !.content_length = @ * 16 + call.cur.v]
              [] OTHER -> Error(parser, "HPE_INVALID_CHUNK_SIZE"))

ChunkParameters ==
    /\ At("s_chunk_parameters")
    /\ Step(IF call.cur.c = "CR" THEN Move(parser, "s_chunk_size_almost_done")
            ELSE parser)

\* A chunk of size zero is the last: the trailer follows
ChunkSizeAlmostDone ==
    /\ At("s_chunk_size_almost_done")
    /\ LET p == [parser EXCEPT !.nread = 0]
       IN  CASE call.cur.c # "LF" -> Step(Error(parser, "HPE_STRICT"))
             [] call.cur.c = "LF" /\ p.content_length = 0 ->
                  Notify("chunk_header",
                         [Move(p, "s_header_field_start") EXCEPT
                              !.flags = @ \cup {"F_TRAILING"}],
                         NextByte, call.pos + 1)
             [] OTHER -> Notify("chunk_header", Move(p, "s_chunk_data"),
                                NextByte, call.pos + 1)

ChunkData ==
    /\ At("s_chunk_data")
    /\ cb' = NoCb
    /\ LET p == [parser EXCEPT !.content_length = @ - ToRead]
       IN  Continue(IF p.content_length = 0 THEN Move(p, "s_chunk_data_almost_done")
                                            ELSE p,
                    [Marked(call, "body") EXCEPT !.pos = @ + ToRead, !.cur = NoByte],
                    call.pos)

ChunkDataAlmostDone ==
    /\ At("s_chunk_data_almost_done")
    /\ IF call.cur.c = "CR"
       THEN Data("body", Length("body", call), Move(parser, "s_chunk_data_done"),
                 call.pos + 1, NextByte)
       ELSE Step(Error(parser, "HPE_STRICT"))

ChunkDataDone ==
    /\ At("s_chunk_data_done")
    /\ IF call.cur.c = "LF"
       THEN Notify("chunk_complete",
                   [Move(parser, "s_chunk_size_start") EXCEPT !.nread = 0],
                   NextByte, call.pos + 1)
       ELSE Step(Error(parser, "HPE_STRICT"))

-----------------------------------------------------------------------------
(* After the loop *)

\* The strings still open when the bytes run out are delivered so far, one callback
\* a step, and then the call returns len
EndOfBuffer ==
    /\ call.active /\ call.cur = NoByte /\ call.pos = call.len /\ call.run = 0
    /\ \/ \E f \in DataCb : call.mark[f] # 0 /\ Data(f, Length(f, call), parser, call.len, call)
       \/ call.mark = NoMark /\ cb' = NoCb /\ Return(parser, call.len)

Switch ==
    \/ Dead \/ StartRes \/ Version \/ FirstStatusCode \/ StatusCode
    \/ StatusStart \/ Status \/ ResLineAlmostDone
    \/ HeaderFieldStart \/ HeaderField
    \/ HeaderValueDiscardWs \/ HeaderValueStart
    \/ HeaderValueCR \/ HeaderValueLF \/ HeaderValueByte \/ HeaderValueSkip
    \/ HeaderAlmostDone \/ HeaderValueLws
    \/ HeaderValueDiscardWsAlmostDone \/ HeaderValueDiscardLws
    \/ HeadersAlmostDone \/ HeadersDone
    \/ BodyIdentity \/ BodyIdentityEof \/ MessageDone
    \/ ChunkSizeStart \/ ChunkSize \/ ChunkParameters \/ ChunkSizeAlmostDone
    \/ ChunkData \/ ChunkDataAlmostDone \/ ChunkDataDone

\* One step of the call in progress
Run ==
    \/ Fetch
    \/ (Switch \/ LeaveInnerLoop \/ EndOfBuffer) /\ UNCHANGED eof

\* The input has ended: the only state in which nothing more need happen
Terminated == eof /\ ~call.active /\ UNCHANGED vars

Next ==
    \/ \E n \in 1..MaxLen : Execute(n)
    \/ Finish
    \/ Run
    \/ Terminated

\* A call, once entered, is run by the caller's thread until it returns
Spec == Init /\ [][Next]_vars /\ WF_vars(Run)

-----------------------------------------------------------------------------
(* Properties *)

Call == [active : BOOLEAN, len : 0..MaxLen, pos : 0..MaxLen,
         cur : Lexeme \cup {NoByte}, mark : [DataCb -> 0..MaxLen], run : 0..MaxLen]

\* The types of the variables
TypeOK ==
    /\ parser \in Parser
    /\ call \in Call
    /\ cb \in [for : {"none"} \cup DataCb \cup NotifyCb, at : Nat, n : Nat, ret : CbRet]
    /\ nparsed \in 0..MaxLen
    /\ eof \in BOOLEAN

\* The states in which a string may have its beginning marked
MarkStates ==
    [f \in DataCb |->
        CASE f = "header_field" -> {"s_header_field"}
          [] f = "header_value" -> {"s_header_value"}
          [] f = "status"       -> {"s_res_status"}
          [] f = "body"         -> {"s_body_identity", "s_body_identity_eof",
                                    "s_chunk_data", "s_chunk_data_almost_done"}]

\* The assertion of http_parser.c:2059: when the bytes of a buffer run out, at most
\* one string is open.  It holds because a mark is left set only in the states that
\* read the string it marks, whatever the callbacks return and wherever buffers end.
AtMostOneMark ==
    call.active =>
        \A f, g \in DataCb : call.mark[f] # 0 /\ call.mark[g] # 0 => f = g

\* Every slice a data callback is given lies inside the buffer of the call, also the
\* body slice whose length is computed "with one extra byte" (http_parser.c:1895)
SlicesInBuffer ==
    [][cb' # NoCb =>
          /\ cb'.n >= 0
          /\ cb'.for \in DataCb => cb'.at + cb'.n <= call.len]_vars

\* The assertions of the body and header cases (http_parser.c:1409, 1563, 1880,
\* 1928, 1945, 1979, 1989, 2008, 2027): a chunk size is read with nread = 1 and only
\* in a chunked message; a body is read with a length that is neither zero nor the
\* "no length" mark; no header state reaches a loop that does not expect it.
Asserts ==
    /\ At("s_chunk_size_start") => parser.nread = 1
    /\ parser.state \in {"s_chunk_size_start", "s_chunk_size", "s_chunk_parameters",
                         "s_chunk_size_almost_done", "s_chunk_data",
                         "s_chunk_data_almost_done", "s_chunk_data_done"}
          => "F_CHUNKED" \in parser.flags
    /\ parser.state \in {"s_chunk_data", "s_body_identity"}
          => parser.content_length \notin {0, ULLONG_MAX}
    /\ parser.state = "s_chunk_data_almost_done" => parser.content_length = 0
    /\ parser.state = "s_header_field"
          => parser.header_state \in
                {"h_general", "h_matching_connection", "h_matching_content_length",
                 "h_matching_transfer_encoding", "h_matching_upgrade", "h_connection",
                 "h_content_length", "h_transfer_encoding", "h_upgrade"}
    /\ parser.state = "s_header_value"
          => \/ parser.header_state \notin
                    {"h_connection", "h_transfer_encoding", "h_upgrade",
                     "h_matching_connection", "h_matching_content_length",
                     "h_matching_transfer_encoding", "h_matching_upgrade"}
             \/ parser.http_errno # "HPE_OK"

\* A message is framed one way only: where a body is read by length or by close it is
\* not chunked, and where chunks are read no Content-Length was accepted before the
\* trailer (http_parser.c:1781, checked before headers_complete)
OneFraming ==
    /\ parser.state \in {"s_body_identity", "s_body_identity_eof"}
          => "F_CHUNKED" \notin parser.flags
    /\ parser.state = "s_body_identity" => "F_CONTENTLENGTH" \in parser.flags
    /\ parser.state \in BodyStates \cup {"s_chunk_size_start", "s_chunk_size"}
       /\ {"F_CHUNKED", "F_CONTENTLENGTH"} \subseteq parser.flags
          => "F_TRAILING" \in parser.flags

\* A call that returns without an error, and not because of an upgrade, has consumed
\* the whole buffer: a client never has to keep unread bytes for its next call
ConsumesAll ==
    [][call.active /\ ~call'.active /\ parser'.http_errno = "HPE_OK" /\ ~parser'.upgrade
          => nparsed' = call.len]_vars

\* Every call returns: no chain of goto reexecute or of end-of-buffer callbacks cycles
ExecuteReturns == call.active ~> ~call.active

=============================================================================
