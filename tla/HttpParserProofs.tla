-------------------------- MODULE HttpParserProofs --------------------------
(***************************************************************************)
(* What holds of the engine for every buffer length, header limit, integer *)
(* width, peer and choice of callback results: its types, the assertions   *)
(* of the source, one framing per message and the bounds of every slice    *)
(* handed to a callback.                                                   *)
(*                                                                         *)
(* The properties are not inductive by themselves.  The state of the       *)
(* parser alone does not bound a slice: that takes the relation between    *)
(* the offsets of the call and the marks (Offsets), and a mark is cleared  *)
(* in time only because it is never set outside the states that read the   *)
(* string it marks (MarkInv).  The assertions on lengths rest on how the   *)
(* length was accumulated (LengthInv) and on which flags the headers left  *)
(* (FlagsInv).                                                             *)
(*                                                                         *)
(* The second half shows that HttpParser implements CallbackProtocol. The  *)
(* phase a step leaves follows from the state it leaves, except in the     *)
(* headers, where it is the last callback that tells.  So the invariant    *)
(* says for each state of the headers which callback may have been the     *)
(* last (LastOK); for that in turn no string may be passed over without    *)
(* its callback, which is what StringOpen excludes: while a string is read *)
(* it is marked, unless it has been delivered and the buffer is at its     *)
(* end.                                                                    *)
(***************************************************************************)
EXTENDS HttpParserProtocol, TLAPS

ChunkStates == {"s_chunk_size_start", "s_chunk_size", "s_chunk_parameters",
                "s_chunk_size_almost_done", "s_chunk_data",
                "s_chunk_data_almost_done", "s_chunk_data_done"}

NameStates == {"h_general", "h_matching_connection", "h_matching_content_length",
               "h_matching_transfer_encoding", "h_matching_upgrade", "h_connection",
               "h_content_length", "h_transfer_encoding", "h_upgrade"}

NoValueStates == {"h_connection", "h_transfer_encoding", "h_upgrade",
                  "h_matching_connection", "h_matching_content_length",
                  "h_matching_transfer_encoding", "h_matching_upgrade"}

\* The states between the first byte of a message and the end of its headers
HeadStates == HeaderPhaseStates \ ({"s_dead", "s_start_res"} \cup ChunkStates)

\* The offsets of a call in progress
Offsets(c) ==
    /\ c.active
    /\ c.pos <= c.len
    /\ c.cur # NoByte => c.pos < c.len
    /\ c.run <= c.pos
    /\ \A f \in DataCb : c.mark[f] <= c.pos + 1

\* A string is marked only in the states that read it
MarkInv(p, c) == \A f \in DataCb : c.mark[f] # 0 => p.state \in MarkStates[f]

\* The length a body or chunk is read by is a real one
LengthInv(p) ==
    /\ p.content_length <= ULLONG_MAX
    /\ p.state \in {"s_body_identity"} \cup (ChunkStates \ {"s_chunk_size_start"})
          => p.content_length # ULLONG_MAX
    /\ p.state \in {"s_chunk_data", "s_body_identity"} => p.content_length # 0
    /\ p.state = "s_chunk_data_almost_done" => p.content_length = 0

\* What the flags say of a message's framing, from its headers to its end
FlagsInv(p) ==
    /\ p.state \in ChunkStates => "F_CHUNKED" \in p.flags
    /\ p.state \in {"s_body_identity", "s_body_identity_eof"} => "F_CHUNKED" \notin p.flags
    /\ p.state = "s_headers_done" => "F_TRAILING" \notin p.flags
    /\ p.state \in HeadStates /\ {"F_TRAILING", "F_CONTENTLENGTH"} \cap p.flags = {}
          => p.content_length = ULLONG_MAX
    /\ p.state = "s_body_identity" => "F_CONTENTLENGTH" \in p.flags
    /\ p.state \in BodyStates \cup ChunkStates \cup {"s_headers_done"}
       /\ {"F_CHUNKED", "F_CONTENTLENGTH"} \subseteq p.flags
          => "F_TRAILING" \in p.flags

\* What the parser knows of the header whose name or value it reads
HeaderInv(p) ==
    /\ p.state = "s_header_field" => p.header_state \in NameStates
    /\ p.state = "s_header_value" /\ p.http_errno = "HPE_OK"
          => /\ p.header_state \notin NoValueStates
             /\ p.header_state = "h_content_length" => "F_CONTENTLENGTH" \in p.flags

\* The count of header bytes starts anew with each chunk
CountInv(p, c) ==
    p.state = "s_chunk_size_start" /\ p.http_errno = "HPE_OK"
        => /\ c.run = 0
           /\ p.nread = IF c.cur = NoByte THEN 0 ELSE 1

\* The states between the first byte of a message and the end of its headers about which
\* the invariant says nothing more
PlainStates == HeadStates \ {"s_header_field", "s_header_value", "s_headers_done"}

ParserInv(p) == p \in Parser /\ LengthInv(p) /\ FlagsInv(p) /\ HeaderInv(p)

\* The invariant of a parser p and a call c that goes on with it
StateInv(p, c) ==
    /\ ParserInv(p)
    /\ c \in Call
    /\ c.active => p.http_errno = "HPE_OK" /\ Offsets(c) /\ MarkInv(p, c)
    /\ ~c.active => c = NoCall
    /\ CountInv(p, c)

CallbackRecord == [for : {"none"} \cup DataCb \cup NotifyCb, at : Nat, n : Nat, ret : CbRet]

IInv ==
    /\ StateInv(parser, call)
    /\ cb \in CallbackRecord
    /\ nparsed \in 0..MaxLen
    /\ eof \in BOOLEAN

\* What every step of a call achieves: the invariant, and the action properties
StepOK ==
    /\ StateInv(parser', call')
    /\ cb' \in CallbackRecord
    /\ cb'.for \in DataCb => cb'.at + cb'.n <= call.len
    /\ nparsed' \in 0..MaxLen
    /\ ~call'.active /\ parser'.http_errno = "HPE_OK" /\ ~parser'.upgrade
          => nparsed' = call.len

-----------------------------------------------------------------------------
(* The macros *)

\* SET_ERRNO leaves everything the invariant speaks of as it is.
LEMMA ErrorInv ==
    ASSUME NEW p, ParserInv(p), NEW e \in Errno, e # "HPE_OK"
    PROVE  /\ ParserInv(Error(p, e))
           /\ Error(p, e).http_errno # "HPE_OK"
  BY DEF ParserInv, Error, Parser, LengthInv, FlagsInv, HeaderInv

\* The type of a call that has returned.
LEMMA NoCallType == NoCall \in Call /\ ~NoCall.active /\ NoByte \notin Lexeme
  BY MaxLenAssumption DEF NoCall, Call, NoMark, NoByte, Lexeme, Class

\* Continue: going on with p and c, or returning because p has an error.
LEMMA ContinueInv ==
    ASSUME NEW p, NEW c, NEW er \in 0..MaxLen,
           Continue(p, c, er), nparsed \in 0..MaxLen,
           ParserInv(p),
           p.http_errno = "HPE_OK" => c.active /\ StateInv(p, c)
    PROVE  /\ StateInv(parser', call')
           /\ nparsed' \in 0..MaxLen
           /\ ~call'.active => parser'.http_errno # "HPE_OK"
  <1>1. CASE p.http_errno = "HPE_OK"
    BY <1>1 DEF Continue
  <1>2. CASE p.http_errno # "HPE_OK"
    <2>1. parser' = p /\ call' = NoCall /\ nparsed' = er
      BY <1>2 DEF Continue, Return
    <2> QED
      BY <1>2, <2>1, NoCallType DEF StateInv, CountInv
  <1> QED
    BY <1>1, <1>2
\* A step without a callback.
LEMMA QuietInv ==
    ASSUME IInv, call.active, cb' = NoCb, NEW p, NEW c, NEW er \in 0..MaxLen,
           Continue(p, c, er), ParserInv(p),
           p.http_errno = "HPE_OK" => c.active /\ StateInv(p, c)
    PROVE  StepOK
  <1>1. /\ StateInv(parser', call')
        /\ nparsed' \in 0..MaxLen
        /\ ~call'.active => parser'.http_errno # "HPE_OK"
    BY ContinueInv DEF IInv
  <1>2. cb' \in CallbackRecord /\ cb'.for \notin DataCb
    BY CbRetAssumption DEF NoCb, CallbackRecord, DataCb
  <1> QED
    BY <1>1, <1>2 DEF StepOK

\* The call after its byte has been consumed.
LEMMA NextByteInv ==
    ASSUME IInv, call.active, call.cur # NoByte
    PROVE  /\ NextByte \in Call /\ Offsets(NextByte)
           /\ NextByte.cur = NoByte /\ NextByte.run = 0
           /\ NextByte.mark = call.mark /\ NextByte.pos = call.pos + 1
  <1>1. call \in Call /\ Offsets(call)
    BY DEF IInv, StateInv
  <1>2. /\ NextByte.active = call.active /\ NextByte.len = call.len
        /\ NextByte.pos = call.pos + 1 /\ NextByte.cur = NoByte
        /\ NextByte.mark = call.mark /\ NextByte.run = 0
    BY <1>1 DEF NextByte, Call
  <1>3. call.pos + 1 \in 0..MaxLen /\ 0 \in 0..MaxLen
    BY <1>1, MaxLenAssumption DEF Call, Offsets
  <1>4. NextByte \in Call
    BY <1>1, <1>3 DEF NextByte, Call
  <1> QED
    BY <1>1, <1>2, <1>4 DEF Offsets, Call

\* A step that consumes its byte: the marks must suit the new state.
LEMMA StepInv ==
    ASSUME IInv, call.active, call.cur # NoByte, NEW p, Step(p), ParserInv(p),
           p.http_errno = "HPE_OK" =>
              /\ MarkInv(p, call)
              /\ p.state = "s_chunk_size_start" => p.nread = 0
    PROVE  StepOK
  <1>1. p.http_errno = "HPE_OK" => NextByte.active /\ StateInv(p, NextByte)
    BY NextByteInv DEF MarkInv, CountInv, StateInv, Offsets
  <1> QED
    BY <1>1, QuietInv DEF Step, IInv, StateInv, Call, Offsets

\* goto reexecute.
LEMMA ReexecuteInv ==
    ASSUME IInv, call.active, call.cur # NoByte, NEW p, Reexecute(p), ParserInv(p),
           p.http_errno = "HPE_OK" => MarkInv(p, call) /\ p.state # "s_chunk_size_start"
    PROVE  StepOK
  <1>1. p.http_errno = "HPE_OK" => call.active /\ StateInv(p, call)
    BY DEF IInv, StateInv, MarkInv, CountInv, Offsets
  <1> QED
    BY <1>1, QuietInv DEF Reexecute, IInv, StateInv, Call, Offsets

\* CALLBACK_NOTIFY.
LEMMA NotifyInv ==
    ASSUME IInv, call.active, NEW f \in NotifyCb, NEW p, NEW c, NEW er \in 0..MaxLen,
           Notify(f, p, c, er), ParserInv(p),
           p.http_errno = "HPE_OK" => c.active /\ StateInv(p, c)
    PROVE  StepOK
  <1>1. PICK ret \in CbRet :
           /\ cb' = [for |-> f, at |-> 0, n |-> 0, ret |-> ret]
           /\ Continue(Called(p, p, ret), c, er)
    BY DEF Notify
  <1>2. /\ ParserInv(Called(p, p, ret))
        /\ Called(p, p, ret).http_errno = "HPE_OK" => c.active /\ StateInv(p, c) /\ Called(p, p, ret) = p
    BY ErrorInv DEF Called, Errno
  <1>3. /\ StateInv(parser', call')
        /\ nparsed' \in 0..MaxLen
        /\ ~call'.active => parser'.http_errno # "HPE_OK"
    BY <1>1, <1>2, ContinueInv DEF IInv
  <1>4. cb' \in CallbackRecord /\ cb'.for \notin DataCb
    BY <1>1 DEF CallbackRecord, DataCb, NotifyCb
  <1> QED
    BY <1>3, <1>4 DEF StepOK

\* A call whose mark of f has been cleared.
LEMMA ClearedMark ==
    ASSUME NEW f \in DataCb, NEW c \in Call, Offsets(c), NEW q,
           ParserInv(q), q.http_errno = "HPE_OK", CountInv(q, c),
           \A g \in DataCb : g # f /\ c.mark[g] # 0 => q.state \in MarkStates[g],
           NEW d, (d = c /\ c.mark[f] = 0) \/ d = [c EXCEPT !.mark[f] = 0]
    PROVE  d.active /\ StateInv(q, d)
  <1>1. /\ d \in Call
        /\ d.active = c.active /\ d.len = c.len /\ d.pos = c.pos
        /\ d.cur = c.cur /\ d.run = c.run
        /\ \A g \in DataCb : d.mark[g] = IF g = f THEN 0 ELSE c.mark[g]
    BY MaxLenAssumption DEF Call
  <1>2. Offsets(d)
    BY <1>1 DEF Offsets, Call
  <1>3. MarkInv(q, d) /\ CountInv(q, d)
    BY <1>1 DEF MarkInv, CountInv
  <1> QED
    BY <1>1, <1>2, <1>3 DEF StateInv, Offsets

\* CALLBACK_DATA of a string that is delivered from its mark up to n bytes further.
LEMMA DataThenInv ==
    ASSUME IInv, call.active, NEW f \in DataCb, NEW n \in Nat,
           NEW p, NEW er \in 0..MaxLen, NEW q, NEW eq \in 0..MaxLen, NEW c \in Call,
           DataThen(f, n, p, er, q, eq, c),
           ParserInv(p), ParserInv(q), Offsets(c),
           c.mark[f] # 0 => c.mark[f] - 1 + n <= call.len,
           q.http_errno = "HPE_OK" =>
              /\ CountInv(q, c)
              /\ \A g \in DataCb : g # f /\ c.mark[g] # 0 => q.state \in MarkStates[g]
    PROVE  StepOK
  <1>1. CASE c.mark[f] = 0
    <2>1. cb' = NoCb /\ Continue(q, c, eq)
      BY <1>1 DEF DataThen
    <2>2. q.http_errno = "HPE_OK" => c.active /\ StateInv(q, c)
      BY <1>1, ClearedMark
    <2> QED
      BY <2>1, <2>2, QuietInv
  <1>2. CASE c.mark[f] # 0
    <2> DEFINE d == [c EXCEPT !.mark[f] = 0]
    <2>1. PICK ret \in CbRet :
             /\ cb' = [for |-> f, at |-> c.mark[f] - 1, n |-> n, ret |-> ret]
             /\ Continue(Called(p, q, ret), d, IF ret = 0 THEN eq ELSE er)
      BY <1>2 DEF DataThen
    <2>2. /\ ParserInv(Called(p, q, ret))
          /\ Called(p, q, ret).http_errno = "HPE_OK"
                => q.http_errno = "HPE_OK" /\ Called(p, q, ret) = q
      BY ErrorInv DEF Called, Errno
    <2>3. q.http_errno = "HPE_OK" => d.active /\ StateInv(q, d)
      BY ClearedMark
    <2>4. /\ StateInv(parser', call')
          /\ nparsed' \in 0..MaxLen
          /\ ~call'.active => parser'.http_errno # "HPE_OK"
      <3> HIDE DEF d
      <3> QED
        BY <2>1, <2>2, <2>3, ContinueInv DEF IInv
    <2>5. cb' \in CallbackRecord /\ cb'.at + cb'.n <= call.len
      BY <1>2, <2>1, MaxLenAssumption DEF CallbackRecord, Call
    <2> QED
      BY <2>4, <2>5 DEF StepOK
  <1> QED
    BY <1>1, <1>2
-----------------------------------------------------------------------------
(* States and marks *)

\* UPDATE_STATE within the head of a message.
LEMMA HeadMove ==
    ASSUME NEW p, ParserInv(p), p.state \in HeadStates, NEW s \in PlainStates
    PROVE  /\ ParserInv(Move(p, s))
           /\ Move(p, s) = [p EXCEPT !.state = s]
           /\ Move(p, s).state = s /\ Move(p, s).http_errno = p.http_errno
           /\ Move(p, s).flags = p.flags
  BY DEF ParserInv, Move, Parser, LengthInv, FlagsInv, HeaderInv, PlainStates, HeadStates,
         HeaderPhaseStates, ChunkStates, BodyStates, State

\* The strings that may be marked, state by state.
LEMMA MarkStatesOf ==
    /\ DataCb = {"header_field", "header_value", "body", "status"}
    /\ MarkStates["header_field"] = {"s_header_field"}
    /\ MarkStates["header_value"] = {"s_header_value"}
    /\ MarkStates["status"] = {"s_res_status"}
    /\ MarkStates["body"] = {"s_body_identity", "s_body_identity_eof", "s_chunk_data",
                             "s_chunk_data_almost_done"}
  BY DEF DataCb, MarkStates

StringStates == {"s_header_field", "s_header_value", "s_res_status", "s_body_identity",
                 "s_body_identity_eof", "s_chunk_data", "s_chunk_data_almost_done"}

\* Elsewhere no string is marked, so any state may follow.
LEMMA Unmarked ==
    ASSUME IInv, call.active, parser.state \notin StringStates
    PROVE  /\ \A f \in DataCb : call.mark[f] = 0
           /\ \A q : MarkInv(q, call)
  BY MarkStatesOf DEF IInv, StateInv, MarkInv, StringStates

\* A step at a state has a parser without error and a byte.
LEMMA AtInv ==
    ASSUME IInv, NEW s, At(s)
    PROVE  /\ call.active /\ call \in Call /\ Offsets(call) /\ call.pos < call.len
           /\ call.cur \in Lexeme /\ call.cur # NoByte
           /\ ParserInv(parser) /\ parser.http_errno = "HPE_OK" /\ parser.state = s
           /\ call.pos \in 0..MaxLen /\ call.pos + 1 \in 0..MaxLen
           /\ MarkInv(parser, call)
  BY MaxLenAssumption DEF IInv, StateInv, At, Call, Offsets

-----------------------------------------------------------------------------
(* The status line *)

\* The version is only read by should_keep_alive.
LEMMA Http11Inv ==
    ASSUME NEW p, ParserInv(p), NEW b \in BOOLEAN
    PROVE  ParserInv([p EXCEPT !.http11 = b]) /\ [p EXCEPT !.http11 = b].state = p.state
  BY DEF ParserInv, Parser, LengthInv, FlagsInv, HeaderInv

\* s_dead: blank bytes, or the error of a closed connection.
LEMMA DeadInv ==
    ASSUME IInv, Dead PROVE StepOK
  <1> DEFINE p == IF call.cur.c \in {"CR", "LF"} THEN parser
                  ELSE Error(parser, "HPE_CLOSED_CONNECTION")
  <1>1. At("s_dead") /\ Step(p)
    BY DEF Dead
  <1>2. ParserInv(p) /\ (p.http_errno = "HPE_OK" => p = parser)
    BY <1>1, AtInv, ErrorInv DEF Errno
  <1> QED
    BY <1>1, <1>2, AtInv, StepInv

\* s_res_H .. s_res_http_minor.
LEMMA VersionInv ==
    ASSUME IInv, Version PROVE StepOK
  <1>1. At("s_res_H")
    BY DEF Version
  <1> DEFINE q == [Move(parser, "s_res_first_status_code") EXCEPT !.http11 = call.cur.v > 0]
  <1>2. PICK e \in {"HPE_STRICT", "HPE_INVALID_VERSION"} :
           Step(IF call.cur.c = "ver" THEN q ELSE Error(parser, e))
    BY DEF Version
  <1>3. ParserInv(q) /\ q.state # "s_chunk_size_start"
    <2>1. ParserInv(Move(parser, "s_res_first_status_code"))
          /\ Move(parser, "s_res_first_status_code").state = "s_res_first_status_code"
      BY <1>1, AtInv, HeadMove DEF PlainStates, HeadStates, HeaderPhaseStates, ChunkStates
    <2>2. (call.cur.v > 0) \in BOOLEAN
      OBVIOUS
    <2> QED
      BY <2>1, <2>2, Http11Inv
  <1>4. ParserInv(Error(parser, e)) /\ Error(parser, e).http_errno # "HPE_OK"
    BY <1>1, <1>2, AtInv, ErrorInv DEF Errno
  <1>5. MarkInv(q, call)
    BY <1>1, AtInv, Unmarked DEF StringStates
  <1> HIDE DEF q
  <1>6. CASE call.cur.c = "ver"
    BY <1>1, <1>2, <1>3, <1>5, <1>6, AtInv, StepInv
  <1>7. CASE call.cur.c # "ver"
    BY <1>1, <1>2, <1>4, <1>7, AtInv, StepInv
  <1> QED
    BY <1>6, <1>7

\* s_start_res: the flags and the length of the message before are forgotten.
LEMMA StartResInv ==
    ASSUME IInv, StartRes PROVE StepOK
  <1> DEFINE p == [parser EXCEPT !.flags = {}, !.content_length = ULLONG_MAX]
  <1>1. At("s_start_res")
    BY DEF StartRes
  <1>2. /\ ParserInv(parser) /\ parser.http_errno = "HPE_OK" /\ parser.state = "s_start_res"
        /\ call.active /\ call.cur # NoByte /\ call.pos + 1 \in 0..MaxLen
    BY <1>1, AtInv
  <1>3. ParserInv(p) /\ p.state = "s_start_res" /\ p.http_errno = "HPE_OK"
    <2>1. p \in Parser
      BY <1>2, LengthAssumption DEF ParserInv, Parser
    <2>2. /\ p.state = "s_start_res" /\ p.http_errno = "HPE_OK"
          /\ p.content_length = ULLONG_MAX
      BY <1>2 DEF ParserInv, Parser
    <2> QED
      BY <2>1, <2>2, LengthAssumption
         DEF ParserInv, LengthInv, FlagsInv, HeaderInv, ChunkStates, HeadStates, BodyStates
  <1>4. /\ ParserInv(Move(p, "s_res_H")) /\ Move(p, "s_res_H").state = "s_res_H"
        /\ Move(p, "s_res_H").http_errno = "HPE_OK"
    <2> DEFINE q == Move(p, "s_res_H")
    <2>1. q \in Parser
      BY <1>3 DEF ParserInv, Parser, Move, State, HeaderPhaseStates
    <2>2. /\ q.state = "s_res_H" /\ q.http_errno = "HPE_OK"
          /\ q.content_length = ULLONG_MAX
      BY <1>2 DEF ParserInv, Parser, Move
    <2> QED
      BY <2>1, <2>2, LengthAssumption
         DEF ParserInv, LengthInv, FlagsInv, HeaderInv, ChunkStates, HeadStates, BodyStates
  <1>4a. /\ ParserInv(Error(p, "HPE_INVALID_CONSTANT"))
        /\ Error(p, "HPE_INVALID_CONSTANT").http_errno # "HPE_OK"
    BY <1>3, ErrorInv DEF Errno
  <1>5. \A q : q.state # "s_chunk_size_start" /\ q.http_errno = "HPE_OK" /\ ParserInv(q)
                 => NextByte.active /\ StateInv(q, NextByte)
    BY <1>1, <1>2, NextByteInv, Unmarked DEF StringStates, StateInv, Offsets, MarkInv, CountInv
  <1> HIDE DEF p
  <1>6. CASE Step(Error(p, "HPE_INVALID_CONSTANT"))
    BY <1>2, <1>4a, <1>6, StepInv
  <1>7. CASE Notify("message_begin", Move(p, "s_res_H"), NextByte, call.pos + 1)
    BY <1>2, <1>4, <1>5, <1>7, NotifyInv DEF NotifyCb
  <1>8. CASE Notify("message_begin", p, NextByte, call.pos + 1)
    BY <1>2, <1>3, <1>5, <1>8, NotifyInv DEF NotifyCb
  <1> QED
    BY <1>6, <1>7, <1>8 DEF StartRes, p

\* The status code, whole: it decides only whether the message needs an end of file.
LEMMA FirstStatusCodeInv ==
    ASSUME IInv, FirstStatusCode PROVE StepOK
  <1>1. At("s_res_first_status_code")
    BY DEF FirstStatusCode
  <1> DEFINE q == [Move(parser, "s_res_status_code") EXCEPT !.status_code = call.cur.v]
  <1>2. /\ ParserInv(parser) /\ parser.http_errno = "HPE_OK"
        /\ parser.state = "s_res_first_status_code"
        /\ call.active /\ call.cur # NoByte /\ call.cur.v \in Nat
    BY <1>1, AtInv DEF Lexeme
  <1>3. ParserInv(q) /\ q.state = "s_res_status_code"
    <2>1. ParserInv(Move(parser, "s_res_status_code"))
          /\ Move(parser, "s_res_status_code").state = "s_res_status_code"
      BY <1>2, HeadMove DEF PlainStates, HeadStates, HeaderPhaseStates, ChunkStates
    <2> QED
      BY <1>2, <2>1 DEF ParserInv, Parser, LengthInv, FlagsInv, HeaderInv
  <1>4. ParserInv(Error(parser, "HPE_INVALID_STATUS"))
        /\ Error(parser, "HPE_INVALID_STATUS").http_errno # "HPE_OK"
    BY <1>2, ErrorInv DEF Errno
  <1>5. MarkInv(q, call) /\ MarkInv(parser, call)
    BY <1>2, Unmarked DEF StringStates
  <1> HIDE DEF q
  <1>6. Step(parser) \/ Step(q) \/ Step(Error(parser, "HPE_INVALID_STATUS"))
    BY DEF FirstStatusCode, q
  <1> QED
    BY <1>2, <1>3, <1>4, <1>5, <1>6, StepInv

\* A case that only moves on to a plain state of the head, or fails.
LEMMA HeadStep ==
    ASSUME IInv, call.active, call.cur # NoByte, parser.state \in HeadStates \ StringStates,
           \/ \E s \in PlainStates : Step(Move(parser, s))
           \/ \E e \in Errno \ {"HPE_OK"} : Step(Error(parser, e))
           \/ Step(parser)
    PROVE  StepOK
  <1>1. ParserInv(parser) /\ parser.http_errno = "HPE_OK"
    BY DEF IInv, StateInv
  <1>2. \A q : MarkInv(q, call)
    BY Unmarked
  <1>3. ASSUME NEW s \in PlainStates, Step(Move(parser, s)) PROVE StepOK
    <2>1. ParserInv(Move(parser, s)) /\ Move(parser, s).state # "s_chunk_size_start"
      BY <1>1, HeadMove DEF PlainStates, HeadStates, ChunkStates
    <2> QED
      BY <1>2, <1>3, <2>1, StepInv
  <1>4. ASSUME NEW e \in Errno \ {"HPE_OK"}, Step(Error(parser, e)) PROVE StepOK
    BY <1>1, <1>4, ErrorInv, StepInv
  <1>5. CASE Step(parser)
    BY <1>1, <1>2, <1>5, StepInv DEF HeadStates, ChunkStates
  <1> QED
    BY <1>3, <1>4, <1>5

\* s_res_status_code, after the last digit.
LEMMA StatusCodeInv ==
    ASSUME IInv, StatusCode PROVE StepOK
  <1>1. /\ call.active /\ call.cur # NoByte
        /\ parser.state \in HeadStates \ StringStates
    BY AtInv DEF StatusCode, At, HeadStates, HeaderPhaseStates, StringStates, ChunkStates
  <1>2. \/ \E s \in PlainStates : Step(Move(parser, s))
        \/ \E e \in Errno \ {"HPE_OK"} : Step(Error(parser, e))
    BY DEF Errno, StatusCode, PlainStates, HeadStates, HeaderPhaseStates, ChunkStates
  <1> QED
    BY <1>1, <1>2, HeadStep

\* s_res_line_almost_done.
LEMMA ResLineAlmostDoneInv ==
    ASSUME IInv, ResLineAlmostDone PROVE StepOK
  <1>1. /\ call.active /\ call.cur # NoByte
        /\ parser.state \in HeadStates \ StringStates
    BY DEF ResLineAlmostDone, At, HeadStates, HeaderPhaseStates, StringStates, ChunkStates
  <1>2. \/ \E s \in PlainStates : Step(Move(parser, s))
        \/ \E e \in Errno \ {"HPE_OK"} : Step(Error(parser, e))
    BY DEF ResLineAlmostDone, Errno, PlainStates, HeadStates, HeaderPhaseStates, ChunkStates
  <1> QED
    BY <1>1, <1>2, HeadStep

\* MARK(f), at the byte under the switch.
LEMMA MarkedInv ==
    ASSUME IInv, call.active, call.cur # NoByte,
           NEW c \in Call, Offsets(c), call.pos <= c.pos, NEW f \in DataCb
    PROVE  /\ Marked(c, f) \in Call /\ Offsets(Marked(c, f))
           /\ Marked(c, f).pos = c.pos /\ Marked(c, f).cur = c.cur
           /\ Marked(c, f).run = c.run /\ Marked(c, f).len = c.len
           /\ Marked(c, f).mark[f] = IF c.mark[f] = 0 THEN call.pos + 1 ELSE c.mark[f]
           /\ Marked(c, f).mark[f] # 0
           /\ \A g \in DataCb : g # f => Marked(c, f).mark[g] = c.mark[g]
  <1>1. call \in Call /\ call.pos + 1 \in 0..MaxLen
    BY AtInv, MaxLenAssumption DEF IInv, StateInv, Call, Offsets
  <1>2. /\ Marked(c, f).pos = c.pos /\ Marked(c, f).cur = c.cur
        /\ Marked(c, f).run = c.run /\ Marked(c, f).len = c.len
        /\ Marked(c, f).active = c.active
        /\ Marked(c, f).mark = [c.mark EXCEPT ![f] = IF c.mark[f] = 0 THEN call.pos + 1
                                                                      ELSE c.mark[f]]
    BY DEF Marked, Call
  <1>3. Marked(c, f) \in Call
    BY <1>1 DEF Marked, Call
  <1> QED
    BY <1>1, <1>2, <1>3 DEF Offsets, Call

\* The first byte of a string: it is marked, and nothing else is.
LEMMA FirstByteInv ==
    ASSUME IInv, call.active, call.cur # NoByte, cb' = NoCb,
           parser.state \notin StringStates,
           NEW f \in DataCb, NEW q, ParserInv(q),
           q.http_errno = "HPE_OK" => q.state \in MarkStates[f] /\ q.state # "s_chunk_size_start",
           Continue(q, Marked(NextByte, f), call.pos)
    PROVE  StepOK
  <1> DEFINE c == Marked(NextByte, f)
  <1>1. /\ NextByte \in Call /\ Offsets(NextByte) /\ call.pos <= NextByte.pos
        /\ \A g \in DataCb : NextByte.mark[g] = 0
    BY NextByteInv, Unmarked DEF IInv, StateInv, Call
  <1>2. c \in Call /\ Offsets(c) /\ \A g \in DataCb : g # f => c.mark[g] = 0
    BY <1>1, MarkedInv
  <1> HIDE DEF c
  <1>3. q.http_errno = "HPE_OK" => c.active /\ StateInv(q, c)
    BY <1>2 DEF StateInv, MarkInv, CountInv, Offsets
  <1>4. call.pos \in 0..MaxLen
    BY DEF IInv, StateInv, Call
  <1>5. Continue(q, c, call.pos)
    BY DEF c
  <1> QED
    BY <1>3, <1>4, <1>5, QuietInv

\* Entering a state that the invariant restricts only by its header_state.
LEMMA StatusMove ==
    ASSUME NEW p, ParserInv(p), p.state \in HeadStates
    PROVE  /\ ParserInv(Move(p, "s_res_status")) /\ Move(p, "s_res_status").state = "s_res_status"
           /\ ParserInv(Move(p, "s_header_field_start"))
           /\ Move(p, "s_header_field_start").state = "s_header_field_start"
           /\ ParserInv(Move(p, "s_res_line_almost_done"))
           /\ Move(p, "s_res_line_almost_done").state = "s_res_line_almost_done"
  BY HeadMove DEF PlainStates, HeadStates, HeaderPhaseStates, ChunkStates

\* s_res_status_start.
LEMMA StatusStartInv ==
    ASSUME IInv, StatusStart PROVE StepOK
  <1>1. At("s_res_status_start")
    BY DEF StatusStart
  <1>2. /\ call.active /\ call.cur # NoByte /\ ParserInv(parser)
        /\ parser.state \in HeadStates \ StringStates
    BY <1>1, AtInv DEF HeadStates, HeaderPhaseStates, StringStates, ChunkStates
  <1>3. CASE \E s \in PlainStates : Step(Move(parser, s))
    BY <1>2, <1>3, HeadStep
  <1>4. CASE /\ cb' = NoCb
             /\ Continue(Move(parser, "s_res_status"), Marked(NextByte, "status"), call.pos)
    <2>1. "s_res_status" \in MarkStates["status"] /\ "status" \in DataCb
      BY MarkStatesOf
    <2> QED
      BY <1>2, <1>4, <2>1, StatusMove, FirstByteInv
  <1> QED
    BY <1>3, <1>4 DEF StatusStart, PlainStates, HeadStates, HeaderPhaseStates, ChunkStates

\* A callback for the string whose last byte precedes this one, which is consumed.
LEMMA DeliverInv ==
    ASSUME IInv, NEW f \in DataCb, NEW s, At(s), s \in MarkStates[f],
           NEW p, ParserInv(p), p.http_errno = "HPE_OK" => p.state # "s_chunk_size_start",
           NEW q, ParserInv(q), q.http_errno = "HPE_OK" => q.state # "s_chunk_size_start",
           NEW er \in 0..MaxLen, NEW eq \in 0..MaxLen,
           DataThen(f, Length(f, call), p, er, q, eq, NextByte)
    PROVE  StepOK
  <1>1. /\ call.active /\ call \in Call /\ Offsets(call) /\ call.cur # NoByte
        /\ parser.state = s /\ MarkInv(parser, call)
    BY AtInv
  <1>2. /\ NextByte \in Call /\ Offsets(NextByte) /\ NextByte.mark = call.mark
    BY <1>1, NextByteInv
  <1>3. \A g \in DataCb : g # f => call.mark[g] = 0
    BY <1>1, MarkStatesOf DEF MarkInv
  <1>4. /\ Length(f, call) \in Nat
        /\ call.mark[f] # 0 => call.mark[f] - 1 + Length(f, call) <= call.len
    BY <1>1 DEF Length, Offsets, Call
  <1>5. q.http_errno = "HPE_OK" => CountInv(q, NextByte)
    BY DEF CountInv
  <1> QED
    BY <1>1, <1>2, <1>3, <1>4, <1>5, DataThenInv

\* s_res_status.
LEMMA StatusInv ==
    ASSUME IInv, Status PROVE StepOK
  <1>1. At("s_res_status")
    BY DEF Status
  <1>2. /\ call.active /\ call.cur # NoByte /\ ParserInv(parser) /\ MarkInv(parser, call)
        /\ parser.state = "s_res_status" /\ call.pos + 1 \in 0..MaxLen
    BY <1>1, AtInv
  <1>3. CASE Step(parser)
    BY <1>2, <1>3, StepInv
  <1>4. CASE \E s \in {"s_res_line_almost_done", "s_header_field_start"} :
                Data("status", Length("status", call), Move(parser, s), call.pos + 1, NextByte)
    <2>1. PICK s \in {"s_res_line_almost_done", "s_header_field_start"} :
             Data("status", Length("status", call), Move(parser, s), call.pos + 1, NextByte)
      BY <1>4
    <2>2. ParserInv(Move(parser, s)) /\ Move(parser, s).state # "s_chunk_size_start"
      BY <1>2, StatusMove DEF HeadStates, HeaderPhaseStates, ChunkStates
    <2>3. "s_res_status" \in MarkStates["status"] /\ "status" \in DataCb
      BY MarkStatesOf
    <2> QED
      BY <1>1, <1>2, <2>1, <2>2, <2>3, DeliverInv DEF Data
  <1> QED
    BY <1>3, <1>4 DEF Status

-----------------------------------------------------------------------------
(* Header names *)

\* COUNT_HEADER_SIZE changes the count and perhaps the error, nothing else.
LEMMA CountHeaderSize ==
    ASSUME NEW p, ParserInv(p), NEW n \in Nat
    PROVE  /\ ParserInv(Count(p, n))
           /\ Count(p, n).state = p.state /\ Count(p, n).header_state = p.header_state
           /\ Count(p, n).flags = p.flags /\ Count(p, n).content_length = p.content_length
           /\ Count(p, n).nread = p.nread + n
           /\ Count(p, n).http_errno \in {p.http_errno, "HPE_HEADER_OVERFLOW"}
  <1>1. /\ Count(p, n).state = p.state /\ Count(p, n).header_state = p.header_state
        /\ Count(p, n).flags = p.flags /\ Count(p, n).content_length = p.content_length
        /\ Count(p, n).nread = p.nread + n
        /\ Count(p, n).http_errno \in {p.http_errno, "HPE_HEADER_OVERFLOW"}
    BY DEF ParserInv, Parser, Count
  <1> DEFINE e == IF p.nread + n > HTTP_MAX_HEADER_SIZE THEN "HPE_HEADER_OVERFLOW"
                                                       ELSE p.http_errno
  <1>2. p \in Parser /\ e \in Errno /\ p.nread + n \in Nat
    BY DEF ParserInv, Parser, Errno
  <1>3. Count(p, n) = [p EXCEPT !.nread = p.nread + n, !.http_errno = e]
    BY DEF Count
  <1>4. Count(p, n) \in Parser
    <2> HIDE DEF e
    <2> QED
      BY <1>2, <1>3 DEF Parser
  <1> QED
    BY <1>1, <1>4 DEF ParserInv, LengthInv, FlagsInv, HeaderInv

\* The state of a name that has just begun.
LEMMA NameInv ==
    ASSUME NEW p, ParserInv(p), p.state \in HeadStates, NEW h \in NameStates,
           NEW q, q = [Move(p, "s_header_field") EXCEPT !.header_state = h]
    PROVE  ParserInv(q) /\ q.state = "s_header_field" /\ q.http_errno = p.http_errno
  <1>1. /\ q.state = "s_header_field" /\ q.header_state = h /\ q.flags = p.flags
        /\ q.content_length = p.content_length /\ q.http_errno = p.http_errno
    BY DEF ParserInv, Parser, Move
  <1>2. q \in Parser
    BY DEF ParserInv, Parser, Move, State, HeaderPhaseStates, NameStates, HeaderState
  <1> QED
    BY <1>1, <1>2 DEF ParserInv, LengthInv, FlagsInv, HeaderInv, HeadStates,
                      HeaderPhaseStates, ChunkStates, BodyStates

\* s_header_field_start.
LEMMA HeaderFieldStartInv ==
    ASSUME IInv, HeaderFieldStart PROVE StepOK
  <1>1. At("s_header_field_start")
    BY DEF HeaderFieldStart
  <1>2. /\ call.active /\ call.cur # NoByte /\ ParserInv(parser)
        /\ parser.state \in HeadStates \ StringStates
    BY <1>1, AtInv DEF HeadStates, HeaderPhaseStates, StringStates, ChunkStates
  <1>3. CASE \/ \E s \in PlainStates : Step(Move(parser, s))
             \/ \E e \in Errno \ {"HPE_OK"} : Step(Error(parser, e))
    BY <1>2, <1>3, HeadStep
  <1>4. CASE Reexecute(Move(parser, "s_headers_almost_done"))
    <2>1. /\ ParserInv(Move(parser, "s_headers_almost_done"))
          /\ Move(parser, "s_headers_almost_done").state # "s_chunk_size_start"
      BY <1>2, HeadMove DEF PlainStates, HeadStates, HeaderPhaseStates, ChunkStates
    <2> QED
      BY <1>2, <1>4, <2>1, Unmarked, ReexecuteInv
  <1>5. CASE /\ cb' = NoCb
             /\ Continue([Move(parser, "s_header_field") EXCEPT
                              !.header_state = NameStart(call.cur)],
                         Marked(NextByte, "header_field"), call.pos)
    <2> DEFINE q == [Move(parser, "s_header_field") EXCEPT
                         !.header_state = NameStart(call.cur)]
    <2>1. NameStart(call.cur) \in NameStates
      BY DEF NameStart, NameStates
    <2>2. ParserInv(q) /\ q.state = "s_header_field"
      BY <1>2, <2>1, NameInv
    <2>3. "s_header_field" \in MarkStates["header_field"] /\ "header_field" \in DataCb
      BY MarkStatesOf
    <2> HIDE DEF q
    <2>4. Continue(q, Marked(NextByte, "header_field"), call.pos)
      BY <1>5 DEF q
    <2> QED
      BY <1>2, <1>5, <2>2, <2>3, <2>4, FirstByteInv
  <1> QED
    BY <1>3, <1>4, <1>5
       DEF HeaderFieldStart, Errno, PlainStates, HeadStates, HeaderPhaseStates, ChunkStates

\* A further byte of a name or value: the loop goes on with run.
LEMMA LoopInv ==
    ASSUME IInv, call.active, call.cur # NoByte, cb' = NoCb,
           NEW q, ParserInv(q), q.http_errno = "HPE_OK" => q.state = parser.state,
           parser.state # "s_chunk_size_start",
           Continue(q, [NextByte EXCEPT !.run = call.run + 1], call.pos)
    PROVE  StepOK
  <1> DEFINE c == [NextByte EXCEPT !.run = call.run + 1]
  <1>1. /\ NextByte \in Call /\ Offsets(NextByte) /\ NextByte.mark = call.mark
        /\ NextByte.pos = call.pos + 1
        /\ call \in Call /\ Offsets(call) /\ MarkInv(parser, call)
    BY NextByteInv DEF IInv, StateInv
  <1>2. /\ c.active = NextByte.active /\ c.len = NextByte.len /\ c.pos = call.pos + 1
        /\ c.cur = NextByte.cur /\ c.mark = call.mark /\ c.run = call.run + 1
    BY <1>1 DEF Call
  <1>3. call.run + 1 \in 0..MaxLen
    BY <1>1, MaxLenAssumption DEF Offsets, Call
  <1>4. c \in Call
    BY <1>1, <1>3 DEF Call
  <1> HIDE DEF c
  <1>5. Offsets(c)
    BY <1>1, <1>2 DEF Offsets, Call
  <1>6. q.http_errno = "HPE_OK" => c.active /\ StateInv(q, c)
    BY <1>1, <1>2, <1>4, <1>5 DEF StateInv, MarkInv, CountInv, Offsets
  <1>7. call.pos \in 0..MaxLen
    BY <1>1 DEF Call
  <1>8. Continue(q, c, call.pos)
    BY DEF c
  <1> QED
    BY <1>6, <1>7, <1>8, QuietInv

\* s_header_field.
LEMMA HeaderFieldInv ==
    ASSUME IInv, HeaderField PROVE StepOK
  <1> DEFINE p == Count(parser, call.run)
             q == [parser EXCEPT !.header_state = NameStep(parser.header_state, call.cur)]
  <1>1. At("s_header_field")
    BY DEF HeaderField
  <1>2. /\ call.active /\ call.cur # NoByte /\ call \in Call /\ ParserInv(parser)
        /\ MarkInv(parser, call) /\ parser.state = "s_header_field"
        /\ parser.http_errno = "HPE_OK" /\ call.pos + 1 \in 0..MaxLen
    BY <1>1, AtInv
  <1>3. ParserInv(p) /\ p.state = "s_header_field"
    <2>1. call.run \in Nat
      BY <1>2, MaxLenAssumption DEF Call
    <2> QED
      BY <1>2, <2>1, CountHeaderSize
  <1>4. CASE /\ cb' = NoCb
             /\ Continue(q, [NextByte EXCEPT !.run = call.run + 1], call.pos)
    <2>1. NameStep(parser.header_state, call.cur) \in NameStates
      BY DEF NameStep, NameStates
    <2>2. q = [Move(parser, "s_header_field") EXCEPT
                   !.header_state = NameStep(parser.header_state, call.cur)]
      BY <1>2 DEF Move, ParserInv, Parser
    <2>3. ParserInv(q) /\ q.state = "s_header_field"
      BY <1>2, <2>1, <2>2, NameInv DEF HeadStates, HeaderPhaseStates, ChunkStates
    <2> HIDE DEF q
    <2> QED
      BY <1>2, <1>4, <2>3, LoopInv
  <1>5. CASE p.http_errno # "HPE_OK" /\ Step(p)
    BY <1>2, <1>3, <1>5, StepInv
  <1>6. CASE Data("header_field", Length("header_field", call),
                  Move(p, "s_header_value_discard_ws"), call.pos + 1, NextByte)
    <2>1. /\ ParserInv(Move(p, "s_header_value_discard_ws"))
          /\ Move(p, "s_header_value_discard_ws").state # "s_chunk_size_start"
      BY <1>3, HeadMove DEF PlainStates, HeadStates, HeaderPhaseStates, ChunkStates
    <2>2. "s_header_field" \in MarkStates["header_field"] /\ "header_field" \in DataCb
      BY MarkStatesOf
    <2> HIDE DEF p
    <2> QED
      BY <1>1, <1>2, <1>6, <2>1, <2>2, DeliverInv DEF Data
  <1>7. CASE Step(Error(p, "HPE_INVALID_HEADER_TOKEN"))
    BY <1>2, <1>3, <1>7, ErrorInv, StepInv DEF Errno
  <1> QED
    BY <1>4, <1>5, <1>6, <1>7 DEF HeaderField

\* The end of the buffer inside a name or value.
LEMMA LeaveInnerLoopInv ==
    ASSUME IInv, LeaveInnerLoop PROVE StepOK
  <1> DEFINE p == Count(parser, call.run)
             c == [call EXCEPT !.run = 0]
  <1>1. /\ call.active /\ call \in Call /\ Offsets(call) /\ MarkInv(parser, call)
        /\ ParserInv(parser) /\ parser.http_errno = "HPE_OK" /\ CountInv(parser, call)
        /\ call.run > 0 /\ cb' = NoCb /\ Continue(p, c, call.pos)
    BY DEF LeaveInnerLoop, IInv, StateInv
  <1>2. call.run \in Nat /\ call.pos \in 0..MaxLen /\ 0 \in 0..MaxLen
    BY <1>1, MaxLenAssumption DEF Call
  <1>3. ParserInv(p) /\ p.state = parser.state
    BY <1>1, <1>2, CountHeaderSize
  <1>4. /\ c \in Call /\ c.active = call.active /\ c.pos = call.pos /\ c.len = call.len
        /\ c.cur = call.cur /\ c.mark = call.mark /\ c.run = 0
    BY <1>1, <1>2 DEF Call
  <1>5. parser.state # "s_chunk_size_start"
    BY <1>1 DEF CountInv
  <1> HIDE DEF c, p
  <1>6. Offsets(c) /\ MarkInv(p, c) /\ CountInv(p, c)
    BY <1>1, <1>2, <1>3, <1>4, <1>5 DEF Offsets, MarkInv, CountInv
  <1> QED
    BY <1>1, <1>2, <1>3, <1>4, <1>6, QuietInv DEF StateInv, Offsets

-----------------------------------------------------------------------------
(* Header values *)

\* A parser that reads a value of a header.
LEMMA ValueStateInv ==
    ASSUME NEW p, ParserInv(p), p.state \in HeadStates,
           NEW q \in Parser, q.state = "s_header_value",
           p.flags \subseteq q.flags,
           \/ q.content_length = p.content_length
           \/ "F_CONTENTLENGTH" \in q.flags /\ q.content_length <= ULLONG_MAX,
           q.http_errno = "HPE_OK" =>
              /\ q.header_state \notin NoValueStates
              /\ q.header_state = "h_content_length" => "F_CONTENTLENGTH" \in q.flags
    PROVE  ParserInv(q)
  BY DEF ParserInv, Parser, LengthInv, FlagsInv, HeaderInv, HeadStates, HeaderPhaseStates,
         ChunkStates, BodyStates

\* The first byte of a value leaves a header_state that the loop over it expects.
LEMMA ValueStartInv ==
    ASSUME ParserInv(parser), parser.http_errno = "HPE_OK", parser.state \in HeadStates,
           NEW ch \in Lexeme
    PROVE  /\ ParserInv(ValueStart(ch))
           /\ ValueStart(ch).http_errno = "HPE_OK" => ValueStart(ch).state = "s_header_value"
  <1> DEFINE p == Move(parser, "s_header_value")
             h == parser.header_state
             r == ValueStart(ch)
  <1>1. /\ p \in Parser /\ p.state = "s_header_value" /\ p.header_state = h
        /\ p.flags = parser.flags /\ p.content_length = parser.content_length
        /\ p.http_errno = "HPE_OK"
    BY DEF ParserInv, Parser, Move, State, HeaderPhaseStates
  <1>2. CASE h = "h_upgrade"
    <2>1. r = [p EXCEPT !.header_state = "h_general", !.flags = p.flags \cup {"F_UPGRADE"}]
      BY <1>2, <1>1 DEF ValueStart, Parser
    <2> HIDE DEF p, r
    <2>2. /\ r \in Parser /\ r.state = "s_header_value" /\ r.header_state = "h_general"
          /\ r.flags = p.flags \cup {"F_UPGRADE"} /\ r.content_length = p.content_length
      BY <1>1, <2>1 DEF Parser, HeaderState, Flag
    <2> QED
      BY <1>1, <2>2, ValueStateInv DEF NoValueStates, r
  <1>3. ASSUME NEW g \in HeaderState \ (NoValueStates \cup {"h_content_length"}),
               r = [p EXCEPT !.header_state = g]
        PROVE  ParserInv(r) /\ r.state = "s_header_value"
    <2> HIDE DEF p, r
    <2>1. /\ r \in Parser /\ r.state = "s_header_value" /\ r.header_state = g
          /\ r.flags = p.flags /\ r.content_length = p.content_length
      BY <1>1, <1>3 DEF Parser
    <2> QED
      BY <1>1, <2>1, ValueStateInv
  <1>4. CASE h = "h_content_length"
    <2>1. CASE r \in {Error(p, "HPE_INVALID_CONTENT_LENGTH"),
                      Error(p, "HPE_UNEXPECTED_CONTENT_LENGTH")}
      <3> HIDE DEF p, r
      <3>1. PICK e \in Errno \ {"HPE_OK"} : r = [p EXCEPT !.http_errno = e]
        BY <2>1 DEF Error, Errno
      <3>2. /\ r \in Parser /\ r.state = "s_header_value" /\ r.flags = p.flags
            /\ r.content_length = p.content_length /\ r.http_errno # "HPE_OK"
        BY <1>1, <3>1 DEF Parser
      <3> QED
        BY <1>1, <3>2, ValueStateInv DEF r
    <2>2. CASE IsNum(ch) /\ r = [p EXCEPT !.flags = p.flags \cup {"F_CONTENTLENGTH"},
                                          !.content_length = ch.v]
      <3> HIDE DEF p, r
      <3>0. ch.v \in Nat /\ p.flags \cup {"F_CONTENTLENGTH"} \in SUBSET Flag
        BY <1>1 DEF Parser, Flag, Lexeme
      <3>1. /\ r \in Parser /\ r.state = "s_header_value" /\ r.header_state = p.header_state
            /\ r.flags = p.flags \cup {"F_CONTENTLENGTH"} /\ r.content_length = ch.v
        BY <1>1, <2>2, <3>0 DEF Parser
      <3>2. r.content_length <= ULLONG_MAX
        BY <2>2, <3>1, LengthAssumption DEF IsNum, Lexeme
      <3> QED
        BY <1>1, <1>4, <3>1, <3>2, ValueStateInv DEF NoValueStates, r
    <2> QED
      BY <1>4, <2>1, <2>2, <1>1 DEF ValueStart
  <1>5. CASE h = "h_matching_connection_token_start"
    <2>1. r = p
      BY <1>5 DEF ValueStart
    <2> QED
      BY <1>1, <1>5, <2>1, ValueStateInv DEF NoValueStates
  <1>6. CASE h \notin {"h_upgrade", "h_content_length", "h_matching_connection_token_start"}
    <2>1. \E g \in HeaderState \ (NoValueStates \cup {"h_content_length"}) :
             r = [p EXCEPT !.header_state = g]
      BY <1>6 DEF ValueStart, HeaderState, NoValueStates
    <2> QED
      BY <2>1, <1>3
  <1> QED
    BY <1>2, <1>4, <1>5, <1>6

\* s_header_value_discard_ws and s_header_value_start: a value begins.
LEMMA StartValueInv ==
    ASSUME IInv, call.active, call.cur # NoByte,
           parser.state \in HeadStates \ StringStates, StartValue
    PROVE  StepOK
  <1>1. ParserInv(parser) /\ parser.http_errno = "HPE_OK" /\ call.cur \in Lexeme
    BY DEF IInv, StateInv, Call
  <1>2. /\ ParserInv(ValueStart(call.cur))
        /\ ValueStart(call.cur).http_errno = "HPE_OK"
              => ValueStart(call.cur).state = "s_header_value"
    BY <1>1, ValueStartInv
  <1>3. /\ "header_value" \in DataCb
        /\ ValueStart(call.cur).http_errno = "HPE_OK"
              => /\ ValueStart(call.cur).state \in MarkStates["header_value"]
                 /\ ValueStart(call.cur).state # "s_chunk_size_start"
    BY <1>2, MarkStatesOf
  <1>4. /\ cb' = NoCb
        /\ Continue(ValueStart(call.cur), Marked(NextByte, "header_value"), call.pos)
    BY DEF StartValue
  <1> QED
    BY <1>2, <1>3, <1>4, FirstByteInv

\* s_header_value_discard_ws: white space, an empty line or the first byte.
LEMMA HeaderValueDiscardWsInv ==
    ASSUME IInv, HeaderValueDiscardWs PROVE StepOK
  <1>1. /\ call.active /\ call.cur # NoByte
        /\ parser.state \in HeadStates \ StringStates
    BY DEF HeaderValueDiscardWs, At, HeadStates, HeaderPhaseStates, StringStates, ChunkStates
  <1>2. CASE \/ \E s \in PlainStates : Step(Move(parser, s))
             \/ Step(parser)
    BY <1>1, <1>2, HeadStep
  <1>3. CASE StartValue
    BY <1>1, <1>3, StartValueInv
  <1> QED
    BY <1>2, <1>3
       DEF HeaderValueDiscardWs, PlainStates, HeadStates, HeaderPhaseStates, ChunkStates

\* s_header_value_start, where a folded line goes on.
LEMMA HeaderValueStartInv ==
    ASSUME IInv, HeaderValueStart PROVE StepOK
  <1>1. /\ call.active /\ call.cur # NoByte
        /\ parser.state \in HeadStates \ StringStates
    BY DEF HeaderValueStart, At, HeadStates, HeaderPhaseStates, StringStates, ChunkStates
  <1> QED
    BY <1>1, StartValueInv DEF HeaderValueStart

\* A header_state that matches a value never returns to one that matches a name.
LEMMA ValueStepType ==
    ASSUME NEW h \in HeaderState, NEW ch, h \notin NoValueStates
    PROVE  ValueStep(h, ch) \in HeaderState \ (NoValueStates \cup {"h_content_length"})
  BY DEF ValueStep, HeaderState, NoValueStates

\* The flags that values set are not those of the framing by length.
LEMMA FlagOfType ==
    ASSUME NEW h PROVE FlagOf(h) \in SUBSET (Flag \ {"F_TRAILING", "F_CONTENTLENGTH"})
  BY DEF FlagOf, Flag

\* A length is refused before it could reach ULLONG_MAX.
LEMMA OverflowBound ==
    ASSUME NEW n \in Nat, NEW d \in Nat
    PROVE  /\ ~Overflow(n, 10) /\ d < 10 => n * 10 + d < ULLONG_MAX
           /\ ~Overflow(n, 16) /\ d < 16 => n * 16 + d < ULLONG_MAX
  BY LengthAssumption DEF Overflow

\* A further byte of a value.
LEMMA ValueByteInv ==
    ASSUME ParserInv(parser), parser.http_errno = "HPE_OK", parser.state = "s_header_value",
           NEW ch \in Lexeme
    PROVE  /\ ParserInv(ValueByte(parser, ch))
           /\ ValueByte(parser, ch).state = "s_header_value"
  <1> DEFINE r == ValueByte(parser, ch)
  <1>1. /\ parser \in Parser /\ parser.header_state \in HeaderState
        /\ parser.header_state \notin NoValueStates
        /\ parser.header_state = "h_content_length" => "F_CONTENTLENGTH" \in parser.flags
        /\ parser.state \in HeadStates
    BY DEF ParserInv, HeaderInv, Parser, HeadStates, HeaderPhaseStates, ChunkStates
  <1>2. CASE \E e \in Errno \ {"HPE_OK"} : r = Error(parser, e)
    <2>1. PICK e \in Errno \ {"HPE_OK"} : r = Error(parser, e)
      BY <1>2
    <2>2. ParserInv(Error(parser, e)) /\ Error(parser, e).state = "s_header_value"
      BY <1>1, ErrorInv DEF Parser, Error
    <2> QED
      BY <2>1, <2>2
  <1>3. CASE r = parser
    BY <1>3
  <1>4. CASE /\ parser.header_state = "h_content_length"
             /\ IsNum(ch) /\ ~Overflow(parser.content_length, 10)
             /\ r = [parser EXCEPT !.content_length = parser.content_length * 10 + ch.v]
    <2>1. /\ parser.content_length \in Nat /\ ch.v \in Nat
          /\ parser.content_length * 10 + ch.v \in Nat
      BY <1>1 DEF Parser, Lexeme
    <2>2. parser.content_length * 10 + ch.v <= ULLONG_MAX
      BY <1>4, <2>1, OverflowBound, LengthAssumption DEF IsNum
    <2> HIDE DEF r
    <2>3. /\ r \in Parser /\ r.state = "s_header_value"
          /\ r.header_state = parser.header_state /\ r.flags = parser.flags
          /\ r.content_length = parser.content_length * 10 + ch.v
      BY <1>1, <1>4, <2>1 DEF Parser
    <2> QED
      BY <1>1, <1>4, <2>2, <2>3, ValueStateInv DEF NoValueStates, r
  <1>5. CASE \E more \in SUBSET (Flag \ {"F_TRAILING", "F_CONTENTLENGTH"}) :
                r = [parser EXCEPT !.header_state = ValueStep(parser.header_state, ch),
                                   !.flags = parser.flags \cup more]
    <2>1. PICK more \in SUBSET (Flag \ {"F_TRAILING", "F_CONTENTLENGTH"}) :
             r = [parser EXCEPT !.header_state = ValueStep(parser.header_state, ch),
                                !.flags = parser.flags \cup more]
      BY <1>5
    <2> DEFINE g == ValueStep(parser.header_state, ch)
    <2>2. g \in HeaderState \ (NoValueStates \cup {"h_content_length"})
      BY <1>1, ValueStepType
    <2>3. parser.flags \cup more \in SUBSET Flag
      BY <1>1 DEF Parser
    <2> HIDE DEF r, g
    <2>4. /\ r \in Parser /\ r.state = "s_header_value" /\ r.header_state = g
          /\ r.flags = parser.flags \cup more /\ r.content_length = parser.content_length
      BY <1>1, <2>1, <2>2, <2>3 DEF Parser, g
    <2> QED
      BY <1>1, <2>2, <2>4, ValueStateInv DEF r
  <1>6. CASE ~IsHeaderChar(ch)
    BY <1>2, <1>6 DEF ValueByte, Errno
  <1>7. CASE IsHeaderChar(ch) /\ parser.header_state = "h_content_length"
    BY <1>2, <1>3, <1>4, <1>7 DEF ValueByte, LengthDigit, Errno
  <1>8. CASE IsHeaderChar(ch) /\ parser.header_state # "h_content_length"
    <2>1. /\ FlagOf(parser.header_state) \in SUBSET (Flag \ {"F_TRAILING", "F_CONTENTLENGTH"})
          /\ parser.flags = parser.flags \cup {}
      BY FlagOfType
    <2>2. \E more \in {FlagOf(parser.header_state), {}} :
             r = [parser EXCEPT !.header_state = ValueStep(parser.header_state, ch),
                                !.flags = parser.flags \cup more]
      BY <1>8, <2>1 DEF ValueByte
    <2> QED
      BY <1>5, <2>1, <2>2
  <1> QED
    BY <1>6, <1>7, <1>8

\* A byte inside s_header_value that is looked at.
LEMMA HeaderValueByteInv ==
    ASSUME IInv, HeaderValueByte PROVE StepOK
  <1>1. At("s_header_value")
    BY DEF HeaderValueByte
  <1>2. /\ call.active /\ call.cur # NoByte /\ call.cur \in Lexeme /\ ParserInv(parser)
        /\ parser.state = "s_header_value" /\ parser.http_errno = "HPE_OK"
    BY <1>1, AtInv
  <1>3. /\ ParserInv(ValueByte(parser, call.cur))
        /\ ValueByte(parser, call.cur).state = "s_header_value"
    BY <1>2, ValueByteInv
  <1>4. /\ cb' = NoCb
        /\ Continue(ValueByte(parser, call.cur), [NextByte EXCEPT !.run = call.run + 1], call.pos)
    BY DEF HeaderValueByte
  <1> QED
    BY <1>2, <1>3, <1>4, LoopInv

\* Whatever the peer may send next is a lexeme.
LEMMA OfferedType ==
    ASSUME ParserInv(parser) PROVE Offered(parser) \subseteq Lexeme
  <1>1. parser.state \in State /\ parser.header_state \in HeaderState
    BY DEF ParserInv, Parser
  <1>2. Any \in Lexeme
    BY DEF Any, Lexeme, Class
  <1> QED
    BY <1>1, <1>2, PeerAssumption DEF Offered

\* The bytes of a value that memchr skips, in a buffer of any length.
LEMMA HeaderValueSkipInv ==
    ASSUME IInv, HeaderValueSkip PROVE StepOK
  <1>1. At("s_header_value")
    BY DEF HeaderValueSkip
  <1>2. /\ call.active /\ call \in Call /\ Offsets(call) /\ call.cur # NoByte
        /\ call.pos < call.len /\ call.pos \in 0..MaxLen
        /\ ParserInv(parser) /\ MarkInv(parser, call)
        /\ parser.state = "s_header_value" /\ parser.http_errno = "HPE_OK"
    BY <1>1, AtInv
  <1> DEFINE Skip(k, ch) == [call EXCEPT !.pos = call.pos + k, !.run = call.run + k, !.cur = ch]
  <1>3. cb' = NoCb
    BY DEF HeaderValueSkip
  <1>4. PICK k \in Nat, ch \in Lexeme \cup {NoByte} :
           /\ k >= 1 /\ call.pos + k <= call.len
           /\ ch # NoByte => call.pos + k < call.len
           /\ Continue(parser, Skip(k, ch), call.pos)
    <2>1. Offered(parser) \subseteq Lexeme
      BY <1>2, OfferedType
    <2>2. /\ call.len \in Nat /\ call.pos \in Nat
          /\ call.len - call.pos \in Nat /\ call.len - call.pos >= 1
      BY <1>2, MaxLenAssumption DEF Call
    <2> DEFINE limit == Lesser(call.len - call.pos, HTTP_MAX_HEADER_SIZE)
    <2>3. limit \in Nat /\ limit <= call.len - call.pos
      BY <2>2, HeaderSizeAssumption DEF Lesser
    <2>4. \/ \E k \in 1..(limit - 1), ch \in Offered(parser) :
                Continue(parser, Skip(k, ch), call.pos)
          \/ Continue(parser, Skip(call.len - call.pos, NoByte), call.pos)
      BY DEF HeaderValueSkip
    <2> HIDE DEF Skip, limit
    <2>5. CASE \E k \in 1..(limit - 1), ch \in Offered(parser) :
                  Continue(parser, Skip(k, ch), call.pos)
      <3>1. PICK k \in 1..(limit - 1), ch \in Offered(parser) :
               Continue(parser, Skip(k, ch), call.pos)
        BY <2>5
      <3>2. k \in Nat /\ k >= 1 /\ call.pos + k < call.len /\ call.pos + k <= call.len
        BY <2>2, <2>3
      <3>3. ch \in Lexeme \cup {NoByte}
        BY <2>1
      <3> QED
        BY <3>1, <3>2, <3>3
    <2>6. CASE Continue(parser, Skip(call.len - call.pos, NoByte), call.pos)
      <3>1. call.pos + (call.len - call.pos) <= call.len
        BY <2>2
      <3> QED
        BY <2>2, <2>6, <3>1
    <2> QED
      BY <2>4, <2>5, <2>6
  <1> DEFINE c == Skip(k, ch)
  <1>5. call.pos + k \in 0..MaxLen /\ call.run + k \in 0..MaxLen
    BY <1>2, <1>4, MaxLenAssumption DEF Call, Offsets
  <1>6. /\ c \in Call /\ c.active = call.active /\ c.len = call.len /\ c.pos = call.pos + k
        /\ c.cur = ch /\ c.mark = call.mark /\ c.run = call.run + k
    BY <1>2, <1>5 DEF Call
  <1>7. Continue(parser, c, call.pos)
    BY <1>4
  <1> HIDE DEF c
  <1>8. Offsets(c)
    BY <1>2, <1>4, <1>6, MaxLenAssumption DEF Offsets, Call
  <1>9. MarkInv(parser, c) /\ CountInv(parser, c)
    BY <1>2, <1>6 DEF MarkInv, CountInv
  <1> QED
    BY <1>2, <1>3, <1>6, <1>7, <1>8, <1>9, QuietInv DEF StateInv, Offsets

\* The state after the CR or LF of a value.
LEMMA AlmostDoneMove ==
    ASSUME IInv, At("s_header_value")
    PROVE  /\ ParserInv(Move(parser, "s_header_almost_done"))
           /\ Move(parser, "s_header_almost_done").state = "s_header_almost_done"
           /\ ParserInv(Count(Move(parser, "s_header_almost_done"), call.run))
           /\ Count(Move(parser, "s_header_almost_done"), call.run).state
                 = "s_header_almost_done"
  <1>1. /\ ParserInv(parser) /\ parser.state \in HeadStates /\ call.run \in Nat
    BY AtInv, MaxLenAssumption DEF HeadStates, HeaderPhaseStates, ChunkStates, Call
  <1>2. /\ ParserInv(Move(parser, "s_header_almost_done"))
        /\ Move(parser, "s_header_almost_done").state = "s_header_almost_done"
    BY <1>1, HeadMove DEF PlainStates, HeadStates, HeaderPhaseStates, ChunkStates
  <1> QED
    BY <1>1, <1>2, CountHeaderSize

\* A CR ends a value: the slice is the value, and its bytes are counted afterwards.
LEMMA HeaderValueCRInv ==
    ASSUME IInv, HeaderValueCR PROVE StepOK
  <1> DEFINE p == Move(parser, "s_header_almost_done")
             q == Count(p, call.run)
  <1>1. /\ At("s_header_value")
        /\ DataThen("header_value", Length("header_value", call), p, call.pos + 1, q,
                    call.pos, NextByte)
    BY DEF HeaderValueCR, InValue
  <1>2. ParserInv(p) /\ p.state # "s_chunk_size_start" /\ ParserInv(q) /\ q.state # "s_chunk_size_start"
    BY <1>1, AlmostDoneMove
  <1>3. call.pos \in 0..MaxLen /\ call.pos + 1 \in 0..MaxLen
    BY <1>1, AtInv
  <1>4. "s_header_value" \in MarkStates["header_value"] /\ "header_value" \in DataCb
    BY MarkStatesOf
  <1> HIDE DEF p, q
  <1> QED
    BY <1>1, <1>2, <1>3, <1>4, DeliverInv

\* A LF ends a value: its bytes are counted first, and the LF is examined again.
LEMMA HeaderValueLFInv ==
    ASSUME IInv, HeaderValueLF PROVE StepOK
  <1> DEFINE p == Count(Move(parser, "s_header_almost_done"), call.run)
             c == [call EXCEPT !.run = 0]
  <1>1. At("s_header_value")
    BY DEF HeaderValueLF, InValue
  <1>2. ParserInv(p) /\ p.state = "s_header_almost_done"
    BY <1>1, AlmostDoneMove
  <1>3. /\ call.active /\ call \in Call /\ Offsets(call) /\ call.pos \in 0..MaxLen
        /\ MarkInv(parser, call) /\ parser.state = "s_header_value"
    BY <1>1, AtInv
  <1>4. CASE p.http_errno # "HPE_OK" /\ cb' = NoCb /\ Return(p, call.pos)
    <2>1. Continue(p, call, call.pos)
      BY <1>4 DEF Continue
    <2> QED
      BY <1>2, <1>3, <1>4, <2>1, QuietInv
  <1>5. CASE Data("header_value", Length("header_value", call), p, call.pos, c)
    <2>1. /\ c \in Call /\ c.active = call.active /\ c.pos = call.pos /\ c.len = call.len
          /\ c.cur = call.cur /\ c.mark = call.mark /\ c.run = 0
      <3>1. 0 \in 0..MaxLen
        BY MaxLenAssumption
      <3> QED
        BY <1>3, <3>1 DEF Call
    <2> HIDE DEF c, p
    <2>2. Offsets(c)
      BY <1>3, <2>1 DEF Offsets, Call
    <2>3. \A g \in DataCb : g # "header_value" => c.mark[g] = 0
      BY <1>3, <2>1, MarkStatesOf DEF MarkInv
    <2>4. /\ Length("header_value", call) \in Nat /\ "header_value" \in DataCb
          /\ c.mark["header_value"] # 0
                => c.mark["header_value"] - 1 + Length("header_value", call) <= call.len
      BY <1>3, <2>1, MarkStatesOf DEF Length, Offsets, Call
    <2>5. CountInv(p, c)
      BY <1>2 DEF CountInv
    <2> QED
      BY <1>2, <1>3, <1>5, <2>1, <2>2, <2>3, <2>4, <2>5, DataThenInv DEF Data
  <1> QED
    BY <1>4, <1>5 DEF HeaderValueLF

\* Flags added at the end of a value, or none, before the next name.
LEMMA AddFlagInv ==
    ASSUME NEW p, ParserInv(p), p.state \in HeadStates, NEW h, NEW q,
           q = [Move(p, "s_header_field_start") EXCEPT !.flags = p.flags \cup FlagOf(h)]
    PROVE  ParserInv(q) /\ q.state = "s_header_field_start" /\ q.http_errno = p.http_errno
  <1>1. FlagOf(h) \in SUBSET (Flag \ {"F_TRAILING", "F_CONTENTLENGTH"})
    BY FlagOfType
  <1>2. p.flags \cup FlagOf(h) \in SUBSET Flag
    BY <1>1 DEF ParserInv, Parser
  <1>3. /\ q.state = "s_header_field_start" /\ q.flags = p.flags \cup FlagOf(h)
        /\ q.content_length = p.content_length /\ q.http_errno = p.http_errno
    BY DEF ParserInv, Parser, Move
  <1>4. q \in Parser
    BY <1>2 DEF ParserInv, Parser, Move, State, HeaderPhaseStates
  <1> QED
    BY <1>1, <1>3, <1>4 DEF ParserInv, LengthInv, FlagsInv, HeaderInv, HeadStates,
                            HeaderPhaseStates, ChunkStates, BodyStates

\* s_header_almost_done.
LEMMA HeaderAlmostDoneInv ==
    ASSUME IInv, HeaderAlmostDone PROVE StepOK
  <1>1. /\ call.active /\ call.cur # NoByte
        /\ parser.state \in HeadStates \ StringStates
    BY DEF HeaderAlmostDone, At, HeadStates, HeaderPhaseStates, StringStates, ChunkStates
  <1>2. \/ \E s \in PlainStates : Step(Move(parser, s))
        \/ \E e \in Errno \ {"HPE_OK"} : Step(Error(parser, e))
    BY DEF HeaderAlmostDone, Errno, PlainStates, HeadStates, HeaderPhaseStates, ChunkStates
  <1> QED
    BY <1>1, <1>2, HeadStep

\* s_header_value_discard_ws_almost_done.
LEMMA HeaderValueDiscardWsAlmostDoneInv ==
    ASSUME IInv, HeaderValueDiscardWsAlmostDone PROVE StepOK
  <1>1. /\ call.active /\ call.cur # NoByte
        /\ parser.state \in HeadStates \ StringStates
    BY DEF HeaderValueDiscardWsAlmostDone, At, HeadStates, HeaderPhaseStates, StringStates,
           ChunkStates
  <1>2. \/ \E s \in PlainStates : Step(Move(parser, s))
        \/ \E e \in Errno \ {"HPE_OK"} : Step(Error(parser, e))
    BY DEF HeaderValueDiscardWsAlmostDone, Errno, PlainStates, HeadStates, HeaderPhaseStates,
           ChunkStates
  <1> QED
    BY <1>1, <1>2, HeadStep

\* s_header_value_lws: the value goes on, or its flag is set.
LEMMA HeaderValueLwsInv ==
    ASSUME IInv, HeaderValueLws PROVE StepOK
  <1> DEFINE q == [Move(parser, "s_header_field_start") EXCEPT
                       !.flags = parser.flags \cup FlagOf(parser.header_state)]
  <1>1. At("s_header_value_lws")
    BY DEF HeaderValueLws
  <1>2. /\ call.active /\ call.cur # NoByte /\ ParserInv(parser)
        /\ parser.state \in HeadStates \ StringStates
    BY <1>1, AtInv DEF HeadStates, HeaderPhaseStates, StringStates, ChunkStates
  <1>3. ParserInv(q) /\ q.state = "s_header_field_start"
    BY <1>2, AddFlagInv
  <1>4. /\ ParserInv(Move(parser, "s_header_value_start"))
        /\ Move(parser, "s_header_value_start").state = "s_header_value_start"
    BY <1>2, HeadMove DEF PlainStates, HeadStates, HeaderPhaseStates, ChunkStates
  <1>5. Reexecute(q) \/ Reexecute(Move(parser, "s_header_value_start"))
    <2>1. Move(parser, "s_header_field_start").flags = parser.flags
      BY <1>2 DEF Move, ParserInv, Parser
    <2> QED
      BY <2>1 DEF HeaderValueLws
  <1> HIDE DEF q
  <1> QED
    BY <1>2, <1>3, <1>4, <1>5, Unmarked, ReexecuteInv

\* s_header_value_discard_lws: an empty value is delivered.
LEMMA HeaderValueDiscardLwsInv ==
    ASSUME IInv, HeaderValueDiscardLws PROVE StepOK
  <1> DEFINE q == [Move(parser, "s_header_field_start") EXCEPT
                       !.flags = parser.flags \cup FlagOf(parser.header_state)]
             c == Marked(call, "header_value")
  <1>1. At("s_header_value_discard_lws")
    BY DEF HeaderValueDiscardLws
  <1>2. /\ call.active /\ call.cur # NoByte /\ call \in Call /\ Offsets(call)
        /\ call.pos \in 0..MaxLen /\ call.pos < call.len
        /\ ParserInv(parser) /\ parser.state \in HeadStates \ StringStates
    BY <1>1, AtInv DEF HeadStates, HeaderPhaseStates, StringStates, ChunkStates
  <1>3. ParserInv(q) /\ q.state = "s_header_field_start"
    BY <1>2, AddFlagInv
  <1>4. "header_value" \in DataCb
    BY MarkStatesOf
  <1>5. CASE \E s \in PlainStates : Step(Move(parser, s))
    BY <1>2, <1>5, HeadStep
  <1>6. CASE Data("header_value", 0, q, call.pos, c)
    <2>1. \A g \in DataCb : call.mark[g] = 0
      BY <1>2, Unmarked
    <2>2. /\ c \in Call /\ Offsets(c)
          /\ c.mark["header_value"] = call.pos + 1
          /\ \A g \in DataCb : g # "header_value" => c.mark[g] = 0
      BY <1>2, <1>4, <2>1, MarkedInv DEF Call
    <2>3. CountInv(q, c)
      BY <1>3 DEF CountInv
    <2>4. c.mark["header_value"] # 0 => c.mark["header_value"] - 1 + 0 <= call.len
      BY <1>2, <2>2 DEF Call
    <2> HIDE DEF c, q
    <2> QED
      BY <1>2, <1>3, <1>4, <1>6, <2>2, <2>3, <2>4, DataThenInv DEF Data
  <1>7. Move(parser, "s_header_field_start").flags = parser.flags
    BY <1>2 DEF Move, ParserInv, Parser
  <1> QED
    BY <1>5, <1>6, <1>7
       DEF HeaderValueDiscardLws, PlainStates, HeadStates, HeaderPhaseStates, ChunkStates

-----------------------------------------------------------------------------
(* The end of the headers and of the message *)

\* The states between two messages.
LEMMA NewMessageInv ==
    ASSUME NEW p, ParserInv(p)
    PROVE  /\ ParserInv(NewMessage(p)) /\ NewMessage(p).state \in {"s_start_res", "s_dead"}
           /\ NewMessage(p).http_errno = p.http_errno /\ NewMessage(p).upgrade = p.upgrade
  <1>1. PICK s \in {"s_start_res", "s_dead"} : NewMessage(p) = [p EXCEPT !.state = s]
    BY DEF NewMessage, Move
  <1> DEFINE q == NewMessage(p)
  <1> HIDE DEF q
  <1>2. /\ q.state = s /\ q.content_length = p.content_length
        /\ q.http_errno = p.http_errno /\ q.upgrade = p.upgrade
    BY <1>1 DEF ParserInv, Parser, q
  <1>3. q \in Parser
    BY <1>1 DEF ParserInv, Parser, State, HeaderPhaseStates, q
  <1>4. ParserInv(q)
    BY <1>2, <1>3 DEF ParserInv, LengthInv, FlagsInv, HeaderInv, HeadStates, ChunkStates,
                      HeaderPhaseStates, BodyStates
  <1> QED
    BY <1>2, <1>4 DEF q

\* The message_complete callback, and what follows it.
LEMMA MessageCompleteInv ==
    ASSUME IInv, call.active, call.cur # NoByte, parser.state \notin StringStates,
           NEW p, ParserInv(p), p.http_errno = "HPE_OK", MessageComplete(p)
    PROVE  StepOK
  <1>1. PICK ret \in CbRet :
           /\ cb' = [for |-> "message_complete", at |-> 0, n |-> 0, ret |-> ret]
           /\ LET q == Called(NewMessage(p), NewMessage(p), ret)
              IN  IF p.upgrade THEN Return(q, call.pos + 1)
                  ELSE Continue(q, NextByte, call.pos + 1)
    BY DEF MessageComplete
  <1> DEFINE q == Called(NewMessage(p), NewMessage(p), ret)
  <1>2. /\ ParserInv(NewMessage(p)) /\ NewMessage(p).state \in {"s_start_res", "s_dead"}
        /\ NewMessage(p).upgrade = p.upgrade
    BY NewMessageInv
  <1>3. /\ ParserInv(q) /\ q.state \in {"s_start_res", "s_dead"} /\ q.upgrade = p.upgrade
    <2>1. CASE ret = 0
      BY <1>2, <2>1 DEF Called
    <2>2. CASE ret # 0
      <3>1. q = [NewMessage(p) EXCEPT !.http_errno = "HPE_CB"]
        BY <2>2 DEF Called, Error
      <3>2. ParserInv(q)
        BY <1>2, <2>2, ErrorInv DEF Called, Errno
      <3> QED
        BY <1>2, <3>1, <3>2 DEF ParserInv, Parser
    <2> QED
      BY <2>1, <2>2
  <1> HIDE DEF q
  <1>4. call.pos + 1 \in 0..MaxLen
    BY MaxLenAssumption DEF IInv, StateInv, Call, Offsets
  <1>5. cb' \in CallbackRecord /\ cb'.for \notin DataCb
    BY <1>1 DEF CallbackRecord, DataCb, NotifyCb
  <1>6. CASE p.upgrade
    <2>1. parser' = q /\ call' = NoCall /\ nparsed' = call.pos + 1
      BY <1>1, <1>6 DEF Return, q
    <2>2. StateInv(parser', call')
      BY <1>3, <2>1, NoCallType DEF StateInv, CountInv
    <2> QED
      BY <1>3, <1>4, <1>5, <1>6, <2>1, <2>2 DEF StepOK
  <1>7. CASE ~p.upgrade
    <2>1. Continue(q, NextByte, call.pos + 1)
      BY <1>1, <1>7 DEF q
    <2>2. q.http_errno = "HPE_OK" => NextByte.active /\ StateInv(q, NextByte)
      BY <1>3, NextByteInv, Unmarked DEF StateInv, MarkInv, CountInv, Offsets
    <2>3. /\ StateInv(parser', call')
          /\ nparsed' \in 0..MaxLen
          /\ ~call'.active => parser'.http_errno # "HPE_OK"
      BY <1>3, <1>4, <2>1, <2>2, ContinueInv DEF IInv
    <2> QED
      BY <1>5, <2>3 DEF StepOK
  <1> QED
    BY <1>6, <1>7

\* The headers are complete: either both framings are refused, or one is left.
LEMMA HeadersCompleteInv ==
    ASSUME IInv, At("s_headers_almost_done"), "F_TRAILING" \notin parser.flags,
           ~({"F_CHUNKED", "F_CONTENTLENGTH"} \subseteq parser.flags),
           NEW b \in BOOLEAN, NEW p, p = [Move(parser, "s_headers_done") EXCEPT !.upgrade = b],
           HeadersComplete(p)
    PROVE  StepOK
  <1>1. /\ call.active /\ call.cur # NoByte /\ call \in Call /\ Offsets(call)
        /\ call.pos \in 0..MaxLen /\ ParserInv(parser)
        /\ parser.state = "s_headers_almost_done" /\ parser.http_errno = "HPE_OK"
    BY AtInv
  <1>2. ASSUME NEW g \in SUBSET {"F_SKIPBODY"}, NEW u \in BOOLEAN, NEW q,
               q = [p EXCEPT !.flags = p.flags \cup g, !.upgrade = u]
        PROVE  ParserInv(q) /\ q.state = "s_headers_done"
    <2>1. /\ p \in Parser /\ p.state = "s_headers_done" /\ p.flags = parser.flags
          /\ p.content_length = parser.content_length
      BY <1>1 DEF ParserInv, Parser, Move, State, HeaderPhaseStates
    <2>2. p.flags \cup g \in SUBSET Flag
      BY <2>1 DEF Parser, Flag
    <2>3. /\ q \in Parser /\ q.state = "s_headers_done" /\ q.flags = parser.flags \cup g
          /\ q.content_length = parser.content_length
      BY <1>2, <2>1, <2>2 DEF Parser
    <2> QED
      BY <1>1, <2>3 DEF ParserInv, LengthInv, FlagsInv, HeaderInv, HeadStates,
                        HeaderPhaseStates, ChunkStates, BodyStates
  <1>3. p \in Parser /\ p = [p EXCEPT !.flags = p.flags \cup {}, !.upgrade = p.upgrade]
    BY <1>1 DEF ParserInv, Parser, Move, State, HeaderPhaseStates
  <1>4. ParserInv(p) /\ p.state = "s_headers_done"
    <2>1. p.upgrade \in BOOLEAN /\ {} \in SUBSET {"F_SKIPBODY"}
      BY <1>3 DEF Parser
    <2> QED
      BY <1>2, <1>3, <2>1
  <1>5. PICK ret \in CbRet :
           /\ cb' = [for |-> "headers_complete", at |-> 0, n |-> 0, ret |-> ret]
           /\ Continue(CASE ret = 0 -> p
                         [] ret = 1 -> [p EXCEPT !.flags = p.flags \cup {"F_SKIPBODY"}]
                         [] ret = 2 -> [p EXCEPT !.flags = p.flags \cup {"F_SKIPBODY"},
                                                 !.upgrade = TRUE]
                         [] OTHER   -> Error(p, "HPE_CB"),
                       call, call.pos)
    BY DEF HeadersComplete
  <1>6. [p EXCEPT !.flags = p.flags \cup {"F_SKIPBODY"}]
           = [p EXCEPT !.flags = p.flags \cup {"F_SKIPBODY"}, !.upgrade = p.upgrade]
    BY <1>3 DEF Parser
  <1>7. ASSUME NEW q, Continue(q, call, call.pos), ParserInv(q),
               q.http_errno = "HPE_OK" => q.state = "s_headers_done"
        PROVE  StepOK
    <2>1. q.http_errno = "HPE_OK" => call.active /\ StateInv(q, call)
      BY <1>1, <1>7, Unmarked DEF StateInv, CountInv, StringStates
    <2>2. /\ StateInv(parser', call')
          /\ nparsed' \in 0..MaxLen
          /\ ~call'.active => parser'.http_errno # "HPE_OK"
      BY <1>1, <1>7, <2>1, ContinueInv DEF IInv
    <2>3. cb' \in CallbackRecord /\ cb'.for \notin DataCb
      BY <1>5 DEF CallbackRecord, DataCb, NotifyCb
    <2> QED
      BY <2>2, <2>3 DEF StepOK
  <1>8. CASE ret = 0
    <2>1. Continue(p, call, call.pos)
      BY <1>5, <1>8
    <2> QED
      BY <1>4, <1>7, <2>1
  <1>9. CASE ret = 1
    <2> DEFINE q == [p EXCEPT !.flags = p.flags \cup {"F_SKIPBODY"}]
    <2>1. Continue(q, call, call.pos)
      BY <1>5, <1>9
    <2>2. p.upgrade \in BOOLEAN
      BY <1>3 DEF Parser
    <2>3. q = [p EXCEPT !.flags = p.flags \cup {"F_SKIPBODY"}, !.upgrade = p.upgrade]
      BY <1>6
    <2> HIDE DEF q
    <2>4. ParserInv(q) /\ q.state = "s_headers_done"
      BY <1>2, <2>2, <2>3
    <2> QED
      BY <1>7, <2>1, <2>4
  <1>10. CASE ret = 2
    <2> DEFINE q == [p EXCEPT !.flags = p.flags \cup {"F_SKIPBODY"}, !.upgrade = TRUE]
    <2>1. Continue(q, call, call.pos)
      BY <1>5, <1>10
    <2>2. ParserInv(q) /\ q.state = "s_headers_done"
      BY <1>2
    <2> HIDE DEF q
    <2> QED
      BY <1>7, <2>1, <2>2
  <1>11. CASE ret \notin {0, 1, 2}
    BY <1>4, <1>5, <1>7, <1>11, ErrorInv DEF Errno
  <1> QED
    BY <1>8, <1>9, <1>10, <1>11

\* s_headers_almost_done.
LEMMA HeadersAlmostDoneInv ==
    ASSUME IInv, HeadersAlmostDone PROVE StepOK
  <1>1. At("s_headers_almost_done")
    BY DEF HeadersAlmostDone
  <1>2. /\ call.active /\ call.cur # NoByte /\ call \in Call /\ Offsets(call)
        /\ call.pos \in 0..MaxLen /\ ParserInv(parser)
        /\ parser.state = "s_headers_almost_done" /\ parser.http_errno = "HPE_OK"
    BY <1>1, AtInv
  <1>3. CASE \E e \in Errno \ {"HPE_OK"} : Step(Error(parser, e))
    BY <1>2, <1>3, HeadStep DEF HeadStates, HeaderPhaseStates, StringStates, ChunkStates
  <1>4. CASE /\ "F_TRAILING" \in parser.flags
             /\ Notify("chunk_complete", Move(parser, "s_message_done"), call, call.pos)
    <2> DEFINE p == Move(parser, "s_message_done")
    <2>1. /\ p \in Parser /\ p.state = "s_message_done" /\ p.flags = parser.flags
          /\ p.content_length = parser.content_length
      BY <1>2 DEF ParserInv, Parser, Move, State, BodyStates
    <2> HIDE DEF p
    <2>2. ParserInv(p)
      BY <1>2, <1>4, <2>1 DEF ParserInv, LengthInv, FlagsInv, HeaderInv, HeadStates,
                        HeaderPhaseStates, ChunkStates, BodyStates
    <2>3. p.http_errno = "HPE_OK" => call.active /\ StateInv(p, call)
      BY <1>2, <2>1, <2>2, Unmarked DEF StateInv, CountInv, StringStates
    <2> QED
      BY <1>2, <1>4, <2>2, <2>3, NotifyInv DEF NotifyCb, p
  <1>5. CASE /\ "F_TRAILING" \notin parser.flags
             /\ ~({"F_CHUNKED", "F_CONTENTLENGTH"} \subseteq parser.flags)
             /\ HeadersComplete([Move(parser, "s_headers_done") EXCEPT
                   !.upgrade = {"F_UPGRADE", "F_CONNECTION_UPGRADE"} \subseteq parser.flags])
    <2>1. ({"F_UPGRADE", "F_CONNECTION_UPGRADE"} \subseteq parser.flags) \in BOOLEAN
      OBVIOUS
    <2> QED
      BY <1>1, <1>5, <2>1, HeadersCompleteInv
  <1>6. CASE call.cur.c # "LF"
    <2>1. Step(Error(parser, "HPE_STRICT"))
      BY <1>6 DEF HeadersAlmostDone
    <2> QED
      BY <1>3, <2>1 DEF Errno
  <1>7. CASE call.cur.c = "LF" /\ "F_TRAILING" \in parser.flags
    <2>1. Notify("chunk_complete", Move(parser, "s_message_done"), call, call.pos)
      BY <1>7 DEF HeadersAlmostDone
    <2> QED
      BY <1>4, <1>7, <2>1
  <1>8. CASE call.cur.c = "LF" /\ "F_TRAILING" \notin parser.flags
    <2>1. CASE {"F_CHUNKED", "F_CONTENTLENGTH"} \subseteq parser.flags
      <3>1. Step(Error(parser, "HPE_UNEXPECTED_CONTENT_LENGTH"))
        BY <1>8, <2>1 DEF HeadersAlmostDone
      <3> QED
        BY <1>3, <3>1 DEF Errno
    <2>2. CASE ~({"F_CHUNKED", "F_CONTENTLENGTH"} \subseteq parser.flags)
      <3>1. HeadersComplete([Move(parser, "s_headers_done") EXCEPT
                   !.upgrade = {"F_UPGRADE", "F_CONNECTION_UPGRADE"} \subseteq parser.flags])
        BY <1>8, <2>2 DEF HeadersAlmostDone
      <3> QED
        BY <1>5, <1>8, <2>2, <3>1
    <2> QED
      BY <2>1, <2>2
  <1> QED
    BY <1>6, <1>7, <1>8

\* What the choice of the state that reads the body says about its framing.
LEMMA BodyStateOf ==
    ASSUME NEW p
    PROVE  /\ BodyState(p) \in {"none", "s_chunk_size_start", "s_body_identity",
                                "s_body_identity_eof"}
           /\ BodyState(p) = "s_chunk_size_start" => "F_CHUNKED" \in p.flags
           /\ BodyState(p) \in {"s_body_identity", "s_body_identity_eof"}
                 => "F_CHUNKED" \notin p.flags
           /\ BodyState(p) = "s_body_identity" => p.content_length \notin {0, ULLONG_MAX}
  BY DEF BodyState

\* s_headers_done.
LEMMA HeadersDoneInv ==
    ASSUME IInv, HeadersDone PROVE StepOK
  <1> DEFINE p == [parser EXCEPT !.nread = 0]
  <1>1. At("s_headers_done")
    BY DEF HeadersDone
  <1>2. /\ call.active /\ call.cur # NoByte /\ ParserInv(parser)
        /\ parser.state = "s_headers_done" /\ parser.http_errno = "HPE_OK"
        /\ parser.state \notin StringStates
    BY <1>1, AtInv DEF StringStates
  <1>3. /\ p \in Parser /\ p.state = "s_headers_done" /\ p.flags = parser.flags
        /\ p.content_length = parser.content_length /\ p.nread = 0 /\ p.http_errno = "HPE_OK"
        /\ p.header_state = parser.header_state
    BY <1>2 DEF ParserInv, Parser
  <1> HIDE DEF p
  <1>4. ParserInv(p)
    BY <1>2, <1>3 DEF ParserInv, LengthInv, FlagsInv, HeaderInv
  <1>5. CASE Step(Error(parser, "HPE_STRICT"))
    BY <1>2, <1>5, ErrorInv, StepInv DEF Errno
  <1>6. CASE BodyState(p) # "none" /\ Step(Move(p, BodyState(p)))
    <2> DEFINE q == Move(p, BodyState(p))
    <2>1. BodyState(p) \in {"s_chunk_size_start", "s_body_identity", "s_body_identity_eof"}
      BY <1>6, BodyStateOf
    <2>2. /\ q \in Parser /\ q.state = BodyState(p) /\ q.flags = p.flags /\ q.nread = 0
          /\ q.content_length = p.content_length
      BY <1>3, <2>1 DEF Parser, Move, State, HeaderPhaseStates, BodyStates
    <2> HIDE DEF q
    <2>3. ParserInv(q)
      BY <1>3, <1>4, <2>1, <2>2, BodyStateOf
         DEF ParserInv, LengthInv, FlagsInv, HeaderInv, HeadStates, HeaderPhaseStates,
             ChunkStates, BodyStates
    <2>4. Step(q)
      BY <1>6 DEF q
    <2> QED
      BY <1>2, <2>2, <2>3, <2>4, Unmarked, StepInv
  <1>7. CASE MessageComplete(p)
    BY <1>2, <1>3, <1>4, <1>7, MessageCompleteInv
  <1> QED
    BY <1>5, <1>6, <1>7 DEF HeadersDone, p

-----------------------------------------------------------------------------
(* Bodies *)

\* What is read of a body or chunk at once: at least the current byte, at most what is
\* left of the buffer and of the length.
LEMMA ToReadInv ==
    ASSUME IInv, NEW s \in {"s_body_identity", "s_chunk_data"}, At(s),
           NEW p, p = [parser EXCEPT !.content_length = parser.content_length - ToRead]
    PROVE  /\ ToRead \in Nat /\ ToRead >= 1 /\ call.pos + ToRead <= call.len
           /\ p \in Parser /\ p.content_length < ULLONG_MAX
           /\ p.state = parser.state /\ p.flags = parser.flags
           /\ p.http_errno = "HPE_OK" /\ p.header_state = parser.header_state
  <1>1. /\ call \in Call /\ call.pos < call.len /\ ParserInv(parser)
        /\ parser.state = s /\ parser.http_errno = "HPE_OK"
    BY AtInv
  <1>2. /\ parser \in Parser /\ parser.content_length \in Nat
        /\ parser.content_length <= ULLONG_MAX /\ parser.content_length # 0
    BY <1>1 DEF ParserInv, LengthInv, Parser
  <1>3. /\ ToRead \in Nat /\ ToRead >= 1 /\ call.pos + ToRead <= call.len
        /\ ToRead <= parser.content_length
    BY <1>1, <1>2 DEF ToRead, Lesser, Call
  <1>4. parser.content_length - ToRead \in Nat
    BY <1>2, <1>3
  <1>5. p.content_length = parser.content_length - ToRead
    BY <1>2 DEF Parser
  <1>6. p \in Parser
    BY <1>2, <1>4 DEF Parser
  <1>7. p.content_length < ULLONG_MAX
    BY <1>2, <1>3, <1>5, LengthAssumption
  <1> QED
    BY <1>1, <1>2, <1>3, <1>6, <1>7 DEF Parser

\* s_body_identity.
LEMMA BodyIdentityInv ==
    ASSUME IInv, BodyIdentity PROVE StepOK
  <1> DEFINE p == [parser EXCEPT !.content_length = parser.content_length - ToRead]
             a == Advance(ToRead)
             c == Marked(a, "body")
  <1>1. At("s_body_identity")
    BY DEF BodyIdentity
  <1>2. /\ call.active /\ call.cur # NoByte /\ call \in Call /\ Offsets(call)
        /\ ParserInv(parser) /\ parser.state = "s_body_identity"
        /\ parser.http_errno = "HPE_OK" /\ call.pos \in 0..MaxLen /\ MarkInv(parser, call)
    BY <1>1, AtInv
  <1>3. /\ ToRead \in Nat /\ ToRead >= 1 /\ call.pos + ToRead <= call.len
        /\ p \in Parser /\ p.content_length < ULLONG_MAX
        /\ p.state = parser.state /\ p.flags = parser.flags
        /\ p.http_errno = "HPE_OK" /\ p.header_state = parser.header_state
    BY <1>1, ToReadInv
  <1> HIDE DEF p
  <1>4. "F_CHUNKED" \notin p.flags /\ "F_CONTENTLENGTH" \in p.flags
    BY <1>2, <1>3 DEF ParserInv, FlagsInv
  <1>5. "body" \in DataCb /\ \A g \in DataCb : g # "body" => call.mark[g] = 0
    BY <1>2, MarkStatesOf DEF MarkInv
  <1>6. /\ a \in Call /\ Offsets(a) /\ call.pos <= a.pos
        /\ a.pos = call.pos + ToRead - 1 /\ a.mark = call.mark /\ a.active
    <2>1. call.pos + ToRead - 1 \in 0..MaxLen
      BY <1>2, <1>3, MaxLenAssumption DEF Call
    <2>2. /\ a.pos = call.pos + ToRead - 1 /\ a.mark = call.mark /\ a.active = call.active
          /\ a.len = call.len /\ a.cur = call.cur /\ a.run = call.run
      BY <1>2 DEF Advance, Call
    <2>3. a \in Call
      BY <1>2, <2>1 DEF Advance, Call
    <2> HIDE DEF a
    <2> QED
      BY <1>2, <1>3, <2>2, <2>3 DEF Offsets, Call
  <1> HIDE DEF a
  <1>7. /\ c \in Call /\ Offsets(c) /\ c.pos = call.pos + ToRead - 1 /\ c.run = a.run
        /\ c.mark["body"] # 0 /\ \A g \in DataCb : g # "body" => c.mark[g] = 0
    BY <1>2, <1>5, <1>6, MarkedInv
  <1> HIDE DEF c
  <1>8. CASE /\ p.content_length = 0
             /\ Data("body", c.pos + 2 - c.mark["body"], Move(p, "s_message_done"), c.pos, c)
    <2> DEFINE q == Move(p, "s_message_done")
    <2>1. /\ q \in Parser /\ q.state = "s_message_done" /\ q.flags = p.flags
          /\ q.content_length = 0
      BY <1>3, <1>8 DEF Parser, Move, State, BodyStates
    <2> HIDE DEF q
    <2>2. ParserInv(q) /\ CountInv(q, c)
      BY <1>4, <2>1, LengthAssumption
         DEF ParserInv, LengthInv, FlagsInv, HeaderInv, HeadStates, CountInv,
                        HeaderPhaseStates, ChunkStates, BodyStates
    <2>3. c.pos \in 0..MaxLen /\ c.pos + 1 <= call.len
      BY <1>2, <1>3, <1>7 DEF Call
    <2>4. c.mark["body"] \in Nat /\ c.mark["body"] <= c.pos + 1
      BY <1>5, <1>7 DEF Call, Offsets
    <2>5. /\ c.pos + 2 - c.mark["body"] \in Nat
          /\ c.mark["body"] - 1 + (c.pos + 2 - c.mark["body"]) <= call.len
      BY <1>2, <2>3, <2>4 DEF Call
    <2>6. DataThen("body", c.pos + 2 - c.mark["body"], q, c.pos, q, c.pos, c)
      BY <1>8 DEF Data, q
    <2> QED
      BY <1>2, <1>5, <1>7, <2>2, <2>3, <2>5, <2>6, DataThenInv
  <1>9. CASE /\ p.content_length # 0 /\ cb' = NoCb
             /\ Continue(p, [c EXCEPT !.pos = c.pos + 1, !.cur = NoByte], call.pos)
    <2> DEFINE d == [c EXCEPT !.pos = c.pos + 1, !.cur = NoByte]
    <2>1. /\ d.active = c.active /\ d.len = c.len /\ d.pos = c.pos + 1 /\ d.cur = NoByte
          /\ d.run = c.run /\ d.mark = c.mark
      BY <1>7 DEF Call
    <2>2. c.pos + 1 <= c.len /\ c.pos + 1 \in 0..MaxLen
      BY <1>2, <1>6, <1>7, <1>3, MarkedInv, MaxLenAssumption DEF Call, Offsets, Advance, a, c, Marked
    <2>3. d \in Call
      BY <1>7, <2>2 DEF Call
    <2> HIDE DEF d
    <2>4. Offsets(d) /\ d.active
      BY <1>7, <2>1, <2>2 DEF Offsets, Call
    <2>5. "s_body_identity" \in MarkStates["body"]
      BY MarkStatesOf
    <2>6. MarkInv(p, d)
      BY <1>2, <1>3, <1>7, <2>1, <2>5 DEF MarkInv
    <2>7. ParserInv(p) /\ CountInv(p, d)
      <3>1. p.content_length \in Nat
        BY <1>3 DEF Parser
      <3>2. p.content_length <= ULLONG_MAX /\ p.content_length # ULLONG_MAX
        BY <1>3, <3>1, LengthAssumption
      <3> QED
        BY <1>2, <1>3, <1>4, <1>9, <3>2 DEF ParserInv, LengthInv, FlagsInv, HeaderInv, HeadStates,
                        CountInv, HeaderPhaseStates, ChunkStates, BodyStates
    <2>8. p.http_errno = "HPE_OK" => d.active /\ StateInv(p, d)
      BY <1>3, <2>3, <2>4, <2>6, <2>7 DEF StateInv
    <2>9. Continue(p, d, call.pos)
      BY <1>9 DEF d
    <2> QED
      BY <1>2, <1>9, <2>7, <2>8, <2>9, QuietInv
  <1> QED
    BY <1>8, <1>9 DEF BodyIdentity, p, a, c

\* s_body_identity_eof.
LEMMA BodyIdentityEofInv ==
    ASSUME IInv, BodyIdentityEof PROVE StepOK
  <1> DEFINE c == Marked(call, "body")
             d == [c EXCEPT !.pos = call.len, !.cur = NoByte]
  <1>1. At("s_body_identity_eof")
    BY DEF BodyIdentityEof
  <1>2. /\ call.active /\ call.cur # NoByte /\ call \in Call /\ Offsets(call)
        /\ ParserInv(parser) /\ parser.state = "s_body_identity_eof"
        /\ call.pos \in 0..MaxLen /\ MarkInv(parser, call) /\ call.pos <= call.pos
    BY <1>1, AtInv DEF Call
  <1>3. "body" \in DataCb /\ \A g \in DataCb : g # "body" => call.mark[g] = 0
    BY <1>2, MarkStatesOf DEF MarkInv
  <1>4. /\ c \in Call /\ Offsets(c) /\ c.pos = call.pos /\ c.run = call.run /\ c.len = call.len
        /\ \A g \in DataCb : g # "body" => c.mark[g] = 0
    BY <1>2, <1>3, MarkedInv
  <1> HIDE DEF c
  <1>5. /\ d.active = c.active /\ d.len = c.len /\ d.pos = c.len /\ d.cur = NoByte
        /\ d.run = c.run /\ d.mark = c.mark
    BY <1>4 DEF Call
  <1>6. d \in Call
    BY <1>2, <1>4 DEF Call
  <1>7. Continue(parser, d, call.pos) /\ cb' = NoCb
    BY DEF BodyIdentityEof, c
  <1> HIDE DEF d
  <1>8. Offsets(d) /\ d.active
    BY <1>4, <1>5 DEF Offsets, Call
  <1>9. "s_body_identity_eof" \in MarkStates["body"]
    BY MarkStatesOf
  <1>10. StateInv(parser, d)
    BY <1>2, <1>4, <1>5, <1>6, <1>8, <1>9 DEF StateInv, MarkInv, CountInv, IInv
  <1> QED
    BY <1>2, <1>7, <1>8, <1>10, QuietInv

\* s_message_done.
LEMMA MessageDoneInv ==
    ASSUME IInv, MessageDone PROVE StepOK
  <1>1. At("s_message_done")
    BY DEF MessageDone
  <1> QED
    BY <1>1, AtInv, MessageCompleteInv DEF MessageDone, StringStates

\* Between two states that read the size line of a chunk.
LEMMA ChunkSizeMove ==
    ASSUME NEW p, ParserInv(p), p.state \in ChunkStates, NEW q \in Parser,
           q.state \in {"s_chunk_size", "s_chunk_parameters", "s_chunk_size_almost_done"},
           q.flags = p.flags, q.content_length < ULLONG_MAX
    PROVE  ParserInv(q)
  <1>1. q.content_length \in Nat /\ ULLONG_MAX \in Nat
    BY LengthAssumption DEF Parser
  <1>2. q.content_length <= ULLONG_MAX /\ q.content_length # ULLONG_MAX
    BY <1>1
  <1> QED
    BY <1>2 DEF ParserInv, LengthInv, FlagsInv, HeaderInv, HeadStates, HeaderPhaseStates,
                ChunkStates, BodyStates

\* A step of a chunk state that reads no string.
LEMMA ChunkStep ==
    ASSUME IInv, NEW s \in ChunkStates \ StringStates, At(s), NEW q,
           \/ Step(q) /\ ParserInv(q) /\ q.state # "s_chunk_size_start"
           \/ \E e \in Errno \ {"HPE_OK"} : Step(Error(parser, e))
    PROVE  StepOK
  <1>1. /\ call.active /\ call.cur # NoByte /\ ParserInv(parser)
        /\ parser.state \notin StringStates
    BY AtInv
  <1>2. CASE Step(q) /\ ParserInv(q) /\ q.state # "s_chunk_size_start"
    BY <1>1, <1>2, Unmarked, StepInv
  <1>3. CASE \E e \in Errno \ {"HPE_OK"} : Step(Error(parser, e))
    BY <1>1, <1>3, ErrorInv, StepInv
  <1> QED
    BY <1>2, <1>3

\* s_chunk_size_start: the first digit.
LEMMA ChunkSizeStartInv ==
    ASSUME IInv, ChunkSizeStart PROVE StepOK
  <1> DEFINE q == [Move(parser, "s_chunk_size") EXCEPT !.content_length = call.cur.v]
  <1>1. At("s_chunk_size_start")
    BY DEF ChunkSizeStart
  <1>2. call.cur.v \in Nat /\ parser \in Parser /\ ParserInv(parser)
        /\ parser.state = "s_chunk_size_start"
    BY <1>1, AtInv DEF Lexeme, ParserInv
  <1>3. CASE IsHex(call.cur)
    <2>1. Step(q)
      BY <1>3 DEF ChunkSizeStart
    <2>2. /\ q \in Parser /\ q.state = "s_chunk_size" /\ q.flags = parser.flags
          /\ q.content_length = call.cur.v
      BY <1>2 DEF Parser, Move, State, HeaderPhaseStates
    <2>3. q.content_length < ULLONG_MAX
      BY <1>2, <1>3, <2>2, LengthAssumption DEF IsHex
    <2> HIDE DEF q
    <2>4. ParserInv(q)
      BY <1>2, <2>2, <2>3, ChunkSizeMove DEF ChunkStates
    <2> QED
      BY <1>1, <2>1, <2>2, <2>4, ChunkStep DEF ChunkStates, StringStates
  <1>4. CASE ~IsHex(call.cur)
    <2>1. Step(Error(parser, "HPE_INVALID_CHUNK_SIZE"))
      BY <1>4 DEF ChunkSizeStart
    <2> QED
      BY <1>1, <2>1, ChunkStep DEF ChunkStates, StringStates, Errno
  <1> QED
    BY <1>3, <1>4

\* Another state of the size line, the size left as it is.
LEMMA SizeLineMove ==
    ASSUME IInv, NEW r \in {"s_chunk_size", "s_chunk_parameters", "s_chunk_size_almost_done"},
           At(r),
           NEW s \in {"s_chunk_parameters", "s_chunk_size_almost_done"}
    PROVE  ParserInv(Move(parser, s)) /\ Move(parser, s).state = s
  <1> DEFINE q == Move(parser, s)
  <1>1. ParserInv(parser) /\ parser \in Parser /\ parser.state = r /\ parser.state \in ChunkStates
    BY AtInv DEF ParserInv, ChunkStates
  <1>2. /\ q \in Parser /\ q.state = s /\ q.flags = parser.flags
        /\ q.content_length = parser.content_length
    BY <1>1 DEF Parser, Move, State, HeaderPhaseStates
  <1>3. q.content_length < ULLONG_MAX
    <2>1. /\ parser.content_length \in Nat /\ parser.content_length <= ULLONG_MAX
          /\ parser.content_length # ULLONG_MAX
      BY <1>1 DEF ParserInv, LengthInv, Parser, ChunkStates
    <2> QED
      BY <1>2, <2>1, LengthAssumption
  <1> HIDE DEF q
  <1>4. ParserInv(q)
    BY <1>1, <1>2, <1>3, ChunkSizeMove
  <1> QED
    BY <1>2, <1>4 DEF q

\* s_chunk_size: the size grows by a digit unless it could overflow.
LEMMA ChunkSizeInv ==
    ASSUME IInv, ChunkSize PROVE StepOK
  <1> DEFINE q == [parser EXCEPT !.content_length = parser.content_length * 16 + call.cur.v]
  <1>1. At("s_chunk_size")
    BY DEF ChunkSize
  <1>2. /\ call.cur.v \in Nat /\ parser \in Parser /\ ParserInv(parser)
        /\ parser.state = "s_chunk_size" /\ parser.content_length \in Nat
    BY <1>1, AtInv DEF Lexeme, ParserInv, Parser
  <1>3. CASE \E s \in {"s_chunk_parameters", "s_chunk_size_almost_done"} : Step(Move(parser, s))
    BY <1>1, <1>3, SizeLineMove, ChunkStep DEF ChunkStates, StringStates
  <1>4. CASE \E e \in Errno \ {"HPE_OK"} : Step(Error(parser, e))
    BY <1>1, <1>4, ChunkStep DEF ChunkStates, StringStates
  <1>5. CASE IsHex(call.cur) /\ ~Overflow(parser.content_length, 16) /\ Step(q)
    <2>1. parser.content_length * 16 + call.cur.v < ULLONG_MAX
      BY <1>2, <1>5, OverflowBound DEF IsHex
    <2>2. parser.content_length * 16 + call.cur.v \in Nat
      BY <1>2
    <2>3. /\ q.state = "s_chunk_size" /\ q.flags = parser.flags
          /\ q.content_length = parser.content_length * 16 + call.cur.v
      BY <1>2 DEF Parser
    <2>4. q \in Parser
      BY <1>2, <2>2 DEF Parser
    <2>5. Step(q)
      BY <1>5
    <2> HIDE DEF q
    <2>6. ParserInv(q)
      BY <1>2, <2>1, <2>3, <2>4, ChunkSizeMove DEF ChunkStates
    <2> QED
      BY <1>1, <2>3, <2>5, <2>6, ChunkStep DEF ChunkStates, StringStates
  <1>6. \/ Step(Move(parser, "s_chunk_size_almost_done"))
        \/ Step(Move(parser, "s_chunk_parameters"))
        \/ Step(Error(parser, "HPE_INVALID_CONTENT_LENGTH"))
        \/ Step(Error(parser, "HPE_INVALID_CHUNK_SIZE"))
        \/ IsHex(call.cur) /\ ~Overflow(parser.content_length, 16) /\ Step(q)
    BY DEF ChunkSize
  <1> QED
    BY <1>3, <1>4, <1>5, <1>6 DEF Errno

\* s_chunk_parameters: skipped up to the end of the line.
LEMMA ChunkParametersInv ==
    ASSUME IInv, ChunkParameters PROVE StepOK
  <1>1. At("s_chunk_parameters")
    BY DEF ChunkParameters
  <1>2. ParserInv(parser) /\ parser.state = "s_chunk_parameters"
    BY <1>1, AtInv
  <1>3. Step(Move(parser, "s_chunk_size_almost_done")) \/ Step(parser)
    BY DEF ChunkParameters
  <1> QED
    BY <1>1, <1>2, <1>3, SizeLineMove, ChunkStep DEF ChunkStates, StringStates

\* A notification after which the byte is consumed.
LEMMA NotifyStep ==
    ASSUME IInv, NEW s \in State \ StringStates, At(s), NEW f \in NotifyCb, NEW q,
           Notify(f, q, NextByte, call.pos + 1), ParserInv(q),
           q.state = "s_chunk_size_start" => q.nread = 0
    PROVE  StepOK
  <1>1. /\ call.active /\ call.cur # NoByte /\ call.pos + 1 \in 0..MaxLen
        /\ parser.state \notin StringStates
    BY AtInv
  <1>2. q.http_errno = "HPE_OK" => NextByte.active /\ StateInv(q, NextByte)
    BY <1>1, NextByteInv, Unmarked DEF StateInv, MarkInv, CountInv, Offsets
  <1> QED
    BY <1>1, <1>2, NotifyInv

\* s_chunk_size_almost_done: a size of zero begins the trailer.
LEMMA ChunkSizeAlmostDoneInv ==
    ASSUME IInv, ChunkSizeAlmostDone PROVE StepOK
  <1> DEFINE p == [parser EXCEPT !.nread = 0]
             t == [Move(p, "s_header_field_start") EXCEPT
                       !.flags = parser.flags \cup {"F_TRAILING"}]
             d == Move(p, "s_chunk_data")
  <1>1. At("s_chunk_size_almost_done")
    BY DEF ChunkSizeAlmostDone
  <1>2. /\ ParserInv(parser) /\ parser \in Parser /\ "F_CHUNKED" \in parser.flags
        /\ parser.state = "s_chunk_size_almost_done"
        /\ parser.content_length <= ULLONG_MAX /\ parser.content_length # ULLONG_MAX
    BY <1>1, AtInv DEF ParserInv, FlagsInv, LengthInv, ChunkStates
  <1>3. CASE Step(Error(parser, "HPE_STRICT"))
    BY <1>1, <1>3, ChunkStep DEF ChunkStates, StringStates, Errno
  <1>4. CASE Notify("chunk_header", t, NextByte, call.pos + 1)
    <2>1. parser.flags \cup {"F_TRAILING"} \in SUBSET Flag
      BY <1>2 DEF Parser, Flag
    <2>2. /\ t \in Parser /\ t.state = "s_header_field_start"
          /\ t.flags = parser.flags \cup {"F_TRAILING"}
          /\ t.content_length = parser.content_length
      BY <1>2, <2>1 DEF Parser, Move, State, HeaderPhaseStates
    <2> HIDE DEF t
    <2>3. ParserInv(t)
      BY <1>2, <2>2 DEF ParserInv, LengthInv, FlagsInv, HeaderInv, HeadStates,
                        HeaderPhaseStates, ChunkStates, BodyStates
    <2> QED
      BY <1>1, <1>4, <2>2, <2>3, NotifyStep DEF NotifyCb, State, HeaderPhaseStates, StringStates
  <1>5. CASE parser.content_length # 0 /\ Notify("chunk_header", d, NextByte, call.pos + 1)
    <2>1. /\ d \in Parser /\ d.state = "s_chunk_data" /\ d.flags = parser.flags
          /\ d.content_length = parser.content_length
      BY <1>2 DEF Parser, Move, State, BodyStates
    <2> HIDE DEF d
    <2>2. ParserInv(d)
      BY <1>2, <1>5, <2>1 DEF ParserInv, LengthInv, FlagsInv, HeaderInv, HeadStates,
                              HeaderPhaseStates, ChunkStates, BodyStates
    <2> QED
      BY <1>1, <1>5, <2>1, <2>2, NotifyStep DEF NotifyCb, State, HeaderPhaseStates, StringStates
  <1>6. p.content_length = parser.content_length /\ Move(p, "s_header_field_start").flags = parser.flags
    BY <1>2 DEF Parser, Move
  <1> HIDE DEF p
  <1>7. \/ Step(Error(parser, "HPE_STRICT")) \/ Step(Error(p, "HPE_STRICT"))
        \/ Notify("chunk_header", t, NextByte, call.pos + 1)
        \/ parser.content_length # 0 /\ Notify("chunk_header", d, NextByte, call.pos + 1)
    BY <1>6 DEF ChunkSizeAlmostDone, p
  <1>8. CASE Step(Error(p, "HPE_STRICT"))
    <2> DEFINE e == Error(p, "HPE_STRICT")
    <2>1. /\ p \in Parser /\ p.state = parser.state /\ p.flags = parser.flags
          /\ p.content_length = parser.content_length /\ p.header_state = parser.header_state
          /\ p.http_errno = parser.http_errno
      BY <1>2 DEF p, Parser
    <2>2. ParserInv(p)
      BY <1>2, <2>1 DEF ParserInv, LengthInv, FlagsInv, HeaderInv
    <2>3. ParserInv(e) /\ e.http_errno # "HPE_OK"
      BY <2>2, ErrorInv DEF Errno
    <2> HIDE DEF e
    <2>4. Step(e)
      BY <1>8 DEF e
    <2> QED
      BY <1>1, <2>3, <2>4, AtInv, StepInv
  <1> QED
    BY <1>3, <1>4, <1>5, <1>7, <1>8

\* s_chunk_data.
LEMMA ChunkDataInv ==
    ASSUME IInv, ChunkData PROVE StepOK
  <1> DEFINE p == [parser EXCEPT !.content_length = parser.content_length - ToRead]
             q == IF p.content_length = 0 THEN Move(p, "s_chunk_data_almost_done") ELSE p
             c == Marked(call, "body")
             d == [c EXCEPT !.pos = c.pos + ToRead, !.cur = NoByte]
  <1>1. At("s_chunk_data")
    BY DEF ChunkData
  <1>2. /\ call.active /\ call.cur # NoByte /\ call \in Call /\ Offsets(call)
        /\ ParserInv(parser) /\ parser.state = "s_chunk_data"
        /\ call.pos \in 0..MaxLen /\ MarkInv(parser, call) /\ call.pos <= call.pos
    BY <1>1, AtInv DEF Call
  <1>3. /\ ToRead \in Nat /\ ToRead >= 1 /\ call.pos + ToRead <= call.len
        /\ p \in Parser /\ p.content_length < ULLONG_MAX
        /\ p.state = parser.state /\ p.flags = parser.flags
        /\ p.http_errno = "HPE_OK" /\ p.header_state = parser.header_state
    BY <1>1, ToReadInv
  <1>4. Continue(q, d, call.pos) /\ cb' = NoCb
    BY DEF ChunkData
  <1> HIDE DEF p
  <1>5. /\ "F_CHUNKED" \in p.flags
        /\ "F_CONTENTLENGTH" \in p.flags => "F_TRAILING" \in p.flags
    BY <1>2, <1>3 DEF ParserInv, FlagsInv, ChunkStates
  <1>6. /\ q \in Parser /\ q.flags = p.flags /\ q.content_length = p.content_length
        /\ q.state = IF q.content_length = 0 THEN "s_chunk_data_almost_done" ELSE "s_chunk_data"
    <2>1. CASE p.content_length = 0
      <3>1. q = Move(p, "s_chunk_data_almost_done")
        BY <2>1
      <3> HIDE DEF q
      <3> QED
        BY <1>3, <2>1, <3>1 DEF Parser, Move, State, BodyStates
    <2>2. CASE p.content_length # 0
      BY <1>2, <1>3, <2>2
    <2> QED
      BY <2>1, <2>2
  <1> HIDE DEF q
  <1>7. q.content_length <= ULLONG_MAX /\ q.content_length # ULLONG_MAX
    BY <1>3, <1>6, LengthAssumption DEF Parser
  <1>8. ParserInv(q)
    BY <1>5, <1>6, <1>7 DEF ParserInv, LengthInv, FlagsInv, HeaderInv, HeadStates,
                            HeaderPhaseStates, ChunkStates, BodyStates
  <1>9. "body" \in DataCb /\ \A g \in DataCb : g # "body" => call.mark[g] = 0
    BY <1>2, MarkStatesOf DEF MarkInv
  <1>10. /\ c \in Call /\ Offsets(c) /\ c.pos = call.pos /\ c.run = call.run /\ c.len = call.len
         /\ \A g \in DataCb : g # "body" => c.mark[g] = 0
    BY <1>2, <1>9, MarkedInv
  <1> HIDE DEF c
  <1>11. /\ d.active = c.active /\ d.len = c.len /\ d.pos = c.pos + ToRead /\ d.cur = NoByte
         /\ d.run = c.run /\ d.mark = c.mark
    BY <1>10 DEF Call
  <1>12. c.pos + ToRead \in 0..MaxLen /\ c.pos + ToRead <= c.len
    BY <1>2, <1>3, <1>10, MaxLenAssumption DEF Call
  <1>13. d \in Call
    BY <1>10, <1>12 DEF Call
  <1> HIDE DEF d
  <1>14. Offsets(d) /\ d.active
    BY <1>3, <1>10, <1>11, <1>12 DEF Offsets, Call
  <1>15. q.http_errno = "HPE_OK" => d.active /\ StateInv(q, d)
    BY <1>6, <1>8, <1>9, <1>10, <1>11, <1>13, <1>14, MarkStatesOf
       DEF StateInv, MarkInv, CountInv
  <1> QED
    BY <1>2, <1>4, <1>8, <1>15, QuietInv

\* s_chunk_data_almost_done: the chunk is delivered.
LEMMA ChunkDataAlmostDoneInv ==
    ASSUME IInv, ChunkDataAlmostDone PROVE StepOK
  <1> DEFINE q == Move(parser, "s_chunk_data_done")
  <1>1. At("s_chunk_data_almost_done")
    BY DEF ChunkDataAlmostDone
  <1>2. /\ call.active /\ call.cur # NoByte /\ ParserInv(parser) /\ parser \in Parser
        /\ parser.state = "s_chunk_data_almost_done" /\ call.pos + 1 \in 0..MaxLen
        /\ "F_CHUNKED" \in parser.flags
    BY <1>1, AtInv DEF ParserInv, FlagsInv, ChunkStates
  <1>3. CASE Step(Error(parser, "HPE_STRICT"))
    BY <1>2, <1>3, ErrorInv, StepInv DEF Errno
  <1>4. CASE Data("body", Length("body", call), q, call.pos + 1, NextByte)
    <2>1. /\ q \in Parser /\ q.state = "s_chunk_data_done" /\ q.flags = parser.flags
          /\ q.content_length = parser.content_length
      BY <1>2 DEF Parser, Move, State, BodyStates
    <2> HIDE DEF q
    <2>2. ParserInv(q)
      BY <1>2, <2>1, LengthAssumption
         DEF ParserInv, LengthInv, FlagsInv, HeaderInv, HeadStates, HeaderPhaseStates,
             ChunkStates, BodyStates
    <2>3. "s_chunk_data_almost_done" \in MarkStates["body"] /\ "body" \in DataCb
      BY MarkStatesOf
    <2> QED
      BY <1>1, <1>2, <1>4, <2>1, <2>2, <2>3, DeliverInv DEF Data
  <1> QED
    BY <1>3, <1>4 DEF ChunkDataAlmostDone

\* s_chunk_data_done: the next chunk.
LEMMA ChunkDataDoneInv ==
    ASSUME IInv, ChunkDataDone PROVE StepOK
  <1> DEFINE q == [Move(parser, "s_chunk_size_start") EXCEPT !.nread = 0]
  <1>1. At("s_chunk_data_done")
    BY DEF ChunkDataDone
  <1>2. /\ call.active /\ call.cur # NoByte /\ ParserInv(parser) /\ parser \in Parser
        /\ parser.state = "s_chunk_data_done" /\ "F_CHUNKED" \in parser.flags
    BY <1>1, AtInv DEF ParserInv, FlagsInv, ChunkStates
  <1>3. CASE Step(Error(parser, "HPE_STRICT"))
    BY <1>2, <1>3, ErrorInv, StepInv DEF Errno
  <1>4. CASE Notify("chunk_complete", q, NextByte, call.pos + 1)
    <2>1. /\ q \in Parser /\ q.state = "s_chunk_size_start" /\ q.flags = parser.flags
          /\ q.content_length = parser.content_length /\ q.nread = 0
      BY <1>2 DEF Parser, Move, State, HeaderPhaseStates
    <2> HIDE DEF q
    <2>2. ParserInv(q)
      BY <1>2, <2>1 DEF ParserInv, LengthInv, FlagsInv, HeaderInv, HeadStates,
                        HeaderPhaseStates, ChunkStates, BodyStates
    <2> QED
      BY <1>1, <1>4, <2>1, <2>2, NotifyStep DEF NotifyCb, State, BodyStates, StringStates
  <1> QED
    BY <1>3, <1>4 DEF ChunkDataDone

-----------------------------------------------------------------------------
(* The steps of a call, and calls *)

\* The head of the for loop: in s_chunk_size_start the first byte is counted as one.
LEMMA FetchInv ==
    ASSUME IInv, Fetch PROVE StepOK
  <1> DEFINE p == IF call.run = 0 /\ ParsingHeader(parser.state) THEN Count(parser, 1)
                                                                 ELSE parser
  <1>1. /\ call.active /\ call.cur = NoByte /\ call.pos < call.len /\ call \in Call
        /\ Offsets(call) /\ ParserInv(parser) /\ parser.http_errno = "HPE_OK"
        /\ MarkInv(parser, call) /\ CountInv(parser, call) /\ parser \in Parser
        /\ call.pos \in 0..MaxLen
    BY DEF Fetch, IInv, StateInv, ParserInv, Call
  <1>2. PICK ch \in Offered(parser) : Continue(p, [call EXCEPT !.cur = ch], call.pos)
    BY DEF Fetch
  <1>3. ch \in Lexeme
    BY <1>1, <1>2, OfferedType
  <1> DEFINE c == [call EXCEPT !.cur = ch]
  <1>4. /\ c.active /\ c.len = call.len /\ c.pos = call.pos /\ c.cur = ch
        /\ c.run = call.run /\ c.mark = call.mark /\ c \in Call
    BY <1>1, <1>3 DEF Call
  <1>5. ch # NoByte
    BY <1>3, NoCallType
  <1>6. /\ ParserInv(Count(parser, 1))
        /\ Count(parser, 1).state = parser.state
        /\ Count(parser, 1).nread = parser.nread + 1
    BY <1>1, CountHeaderSize
  <1>7. /\ ParserInv(p) /\ p.state = parser.state
        /\ call.run = 0 /\ parser.state = "s_chunk_size_start" => p.nread = parser.nread + 1
    BY <1>1, <1>6 DEF ParsingHeader, HeaderPhaseStates
  <1> HIDE DEF p, c
  <1>8. p.http_errno = "HPE_OK" => StateInv(p, c)
    BY <1>1, <1>4, <1>5, <1>7 DEF StateInv, Offsets, MarkInv, CountInv
  <1>9. Continue(p, c, call.pos) /\ cb' = NoCb
    BY <1>2 DEF c, Fetch
  <1> QED
    BY <1>1, <1>4, <1>7, <1>8, <1>9, QuietInv

\* After the loop: an open string is delivered, or the call returns len.
LEMMA EndOfBufferInv ==
    ASSUME IInv, EndOfBuffer PROVE StepOK
  <1>1. /\ call.active /\ call.cur = NoByte /\ call.pos = call.len /\ call \in Call
        /\ Offsets(call) /\ ParserInv(parser) /\ parser.http_errno = "HPE_OK"
        /\ MarkInv(parser, call) /\ CountInv(parser, call) /\ call.len \in 0..MaxLen
    BY DEF EndOfBuffer, IInv, StateInv, Call
  <1>2. CASE \E f \in DataCb : call.mark[f] # 0
                               /\ Data(f, Length(f, call), parser, call.len, call)
    <2>1. PICK f \in DataCb : Data(f, Length(f, call), parser, call.len, call)
      BY <1>2
    <2>2. /\ Length(f, call) \in Nat
          /\ call.mark[f] # 0 => call.mark[f] - 1 + Length(f, call) <= call.len
      BY <1>1 DEF Length, Offsets, Call
    <2> QED
      BY <1>1, <2>1, <2>2, DataThenInv DEF Data, MarkInv
  <1>3. CASE cb' = NoCb /\ Return(parser, call.len)
    <2>1. /\ parser' = parser /\ call' = NoCall /\ NoCall.run = 0 /\ NoCall.cur = NoByte
          /\ CountInv(parser, NoCall)
      BY <1>1, <1>3 DEF Return, CountInv, NoCall
    <2>2. StateInv(parser', call')
      BY <1>1, <2>1, NoCallType DEF StateInv
    <2>3. cb' \in CallbackRecord /\ cb'.for \notin DataCb
      BY <1>3, CbRetAssumption DEF NoCb, CallbackRecord, DataCb
    <2> QED
      BY <1>1, <1>3, <2>2, <2>3 DEF Return, StepOK
  <1> QED
    BY <1>2, <1>3 DEF EndOfBuffer

\* Every step of a call in progress.
LEMMA RunInv ==
    ASSUME IInv, Run PROVE StepOK
  <1>1. CASE Fetch
    BY <1>1, FetchInv
  <1>2. CASE LeaveInnerLoop \/ EndOfBuffer
    BY <1>2, LeaveInnerLoopInv, EndOfBufferInv
  <1>3. CASE Switch
    <2>1. CASE Dead \/ StartRes \/ Version \/ FirstStatusCode \/ StatusCode
               \/ StatusStart \/ Status \/ ResLineAlmostDone
      BY <2>1, DeadInv, StartResInv, VersionInv, FirstStatusCodeInv, StatusCodeInv,
         StatusStartInv, StatusInv, ResLineAlmostDoneInv
    <2>2. CASE HeaderFieldStart \/ HeaderField \/ HeaderValueDiscardWs \/ HeaderValueStart
               \/ HeaderValueCR \/ HeaderValueLF \/ HeaderValueByte \/ HeaderValueSkip
      BY <2>2, HeaderFieldStartInv, HeaderFieldInv, HeaderValueDiscardWsInv,
         HeaderValueStartInv, HeaderValueCRInv, HeaderValueLFInv, HeaderValueByteInv,
         HeaderValueSkipInv
    <2>3. CASE HeaderAlmostDone \/ HeaderValueLws \/ HeaderValueDiscardWsAlmostDone
               \/ HeaderValueDiscardLws \/ HeadersAlmostDone \/ HeadersDone
      BY <2>3, HeaderAlmostDoneInv, HeaderValueLwsInv, HeaderValueDiscardWsAlmostDoneInv,
         HeaderValueDiscardLwsInv, HeadersAlmostDoneInv, HeadersDoneInv
    <2>4. CASE BodyIdentity \/ BodyIdentityEof \/ MessageDone
               \/ ChunkSizeStart \/ ChunkSize \/ ChunkParameters \/ ChunkSizeAlmostDone
               \/ ChunkData \/ ChunkDataAlmostDone \/ ChunkDataDone
      BY <2>4, BodyIdentityInv, BodyIdentityEofInv, MessageDoneInv, ChunkSizeStartInv,
         ChunkSizeInv, ChunkParametersInv, ChunkSizeAlmostDoneInv, ChunkDataInv,
         ChunkDataAlmostDoneInv, ChunkDataDoneInv
    <2> QED
      BY <1>3, <2>1, <2>2, <2>3, <2>4 DEF Switch
  <1> QED
    BY <1>1, <1>2, <1>3 DEF Run

\* Outside a call: the invariant, and no string is handed to a callback.
OutsideOK == IInv' /\ cb'.for \notin DataCb

\* Entering a call, or refusing to because of an earlier error.
LEMMA ExecuteInv ==
    ASSUME IInv, NEW n \in 1..MaxLen, Execute(n) PROVE OutsideOK
  <1>1. /\ call = NoCall /\ ParserInv(parser) /\ CountInv(parser, call)
        /\ nparsed \in 0..MaxLen /\ eof' \in BOOLEAN /\ cb' = NoCb
    BY DEF Execute, IInv, StateInv
  <1>2. cb' \in CallbackRecord /\ cb'.for \notin DataCb
    BY <1>1, CbRetAssumption DEF NoCb, CallbackRecord, DataCb
  <1>3. CASE parser.http_errno # "HPE_OK"
    <2>1. parser' = parser /\ call' = call /\ nparsed' = 0
      BY <1>3 DEF Execute
    <2> QED
      BY <1>1, <1>2, <2>1, MaxLenAssumption DEF OutsideOK, IInv, StateInv
  <1>4. CASE parser.http_errno = "HPE_OK"
    <2> DEFINE c == [NoCall EXCEPT !.active = TRUE, !.len = n, !.mark = OpenMark(parser.state)]
    <2>1. parser' = parser /\ call' = c /\ nparsed' = nparsed
      BY <1>4 DEF Execute
    <2>2. /\ OpenMark(parser.state) \in [DataCb -> 0..MaxLen]
          /\ \A f \in DataCb : OpenMark(parser.state)[f] <= 1
          /\ \A f \in DataCb :
                OpenMark(parser.state)[f] # 0 => parser.state \in MarkStates[f]
      BY MaxLenAssumption, MarkStatesOf DEF OpenMark
    <2>3. /\ c.active /\ c.len = n /\ c.pos = 0 /\ c.cur = NoByte /\ c.run = 0
          /\ c.mark = OpenMark(parser.state)
      BY DEF NoCall
    <2>4. c \in Call
      <3>1. n \in 0..MaxLen /\ NoCall \in Call
        BY NoCallType, MaxLenAssumption
      <3> QED
        BY <2>2, <3>1 DEF Call
    <2> HIDE DEF c
    <2>5. Offsets(c) /\ MarkInv(parser, c)
      BY <2>2, <2>3 DEF Offsets, MarkInv
    <2>6. CountInv(parser, c)
      BY <1>1, <2>3 DEF CountInv, NoCall
    <2>7. StateInv(parser, c)
      BY <1>1, <1>4, <2>3, <2>4, <2>5, <2>6 DEF StateInv
    <2> QED
      BY <1>1, <1>2, <2>1, <2>7 DEF OutsideOK, IInv
  <1> QED
    BY <1>3, <1>4

\* The end of the input.
LEMMA FinishInv ==
    ASSUME IInv, Finish PROVE OutsideOK
  <1>1. ParserInv(parser) /\ CountInv(parser, NoCall) /\ eof' = TRUE
    BY DEF Finish, IInv, StateInv
  <1>2. /\ \/ cb' = NoCb
           \/ \E ret \in CbRet :
                 cb' = [for |-> "message_complete", at |-> 0, n |-> 0, ret |-> ret]
        /\ \/ \E e \in Errno \ {"HPE_OK"}, k \in {0, 1} : Return(Error(parser, e), k)
           \/ Return(parser, 0)
    <2>1. CASE parser.http_errno # "HPE_OK"
      BY <2>1 DEF Finish
    <2>2. CASE parser.http_errno = "HPE_OK" /\ parser.state = "s_body_identity_eof"
      <3>1. PICK ret \in CbRet :
               /\ cb' = [for |-> "message_complete", at |-> 0, n |-> 0, ret |-> ret]
               /\ Return(Called(parser, parser, ret), 0)
        BY <2>2 DEF Finish
      <3> QED
        BY <3>1 DEF Called, Errno
    <2>3. CASE parser.http_errno = "HPE_OK" /\ parser.state \in {"s_dead", "s_start_res"}
      BY <2>3 DEF Finish
    <2>4. CASE parser.http_errno = "HPE_OK"
               /\ parser.state \notin {"s_body_identity_eof", "s_dead", "s_start_res"}
      <3>1. cb' = NoCb /\ Return(Error(parser, "HPE_INVALID_EOF_STATE"), 1)
        BY <2>4 DEF Finish
      <3> QED
        BY <3>1 DEF Errno
    <2> QED
      BY <2>1, <2>2, <2>3, <2>4
  <1>3. cb' \in CallbackRecord /\ cb'.for \notin DataCb
    BY <1>2, CbRetAssumption DEF NoCb, CallbackRecord, DataCb, NotifyCb
  <1>4. ASSUME NEW p, ParserInv(p), CountInv(p, NoCall), NEW k \in {0, 1}, Return(p, k)
        PROVE  OutsideOK
    BY <1>1, <1>3, <1>4, NoCallType, MaxLenAssumption DEF Return, OutsideOK, IInv, StateInv
  <1>5. CASE Return(parser, 0)
    BY <1>1, <1>4, <1>5
  <1>6. CASE \E e \in Errno \ {"HPE_OK"}, k \in {0, 1} : Return(Error(parser, e), k)
    <2>1. PICK e \in Errno \ {"HPE_OK"}, k \in {0, 1} : Return(Error(parser, e), k)
      BY <1>6
    <2>2. ParserInv(Error(parser, e)) /\ CountInv(Error(parser, e), NoCall)
      BY <1>1, ErrorInv DEF CountInv
    <2> QED
      BY <1>4, <2>1, <2>2
  <1> QED
    BY <1>2, <1>5, <1>6

\* A parser that http_parser_init has just set up.
LEMMA InitInv ==
    ASSUME Init PROVE IInv
  <1>1. parser = http_parser_init /\ call = NoCall /\ cb = NoCb /\ nparsed = 0 /\ eof = FALSE
    BY DEF Init
  <1>2. http_parser_init \in Parser
    BY DEF http_parser_init, Parser, State, HeaderPhaseStates, HeaderState, Errno
  <1>3. ParserInv(http_parser_init)
    BY <1>2, LengthAssumption
       DEF ParserInv, http_parser_init, LengthInv, FlagsInv, HeaderInv, HeadStates,
           ChunkStates, BodyStates
  <1>4. CountInv(http_parser_init, NoCall)
    BY DEF CountInv, http_parser_init
  <1>5. NoCb \in CallbackRecord /\ 0 \in 0..MaxLen
    BY CbRetAssumption, MaxLenAssumption DEF NoCb, CallbackRecord
  <1> QED
    BY <1>1, <1>3, <1>4, <1>5, NoCallType DEF IInv, StateInv

\* Every step preserves the invariant and keeps the action properties.
LEMMA NextInv ==
    ASSUME IInv, [Next]_vars
    PROVE  /\ IInv'
           /\ vars' # vars =>
                 /\ cb'.n >= 0
                 /\ cb'.for \in DataCb => cb'.at + cb'.n <= call.len
           /\ call.active /\ ~call'.active /\ parser'.http_errno = "HPE_OK" /\ ~parser'.upgrade
                 => nparsed' = call.len
  <1>1. CASE Run
    <2>1. StepOK
      BY <1>1, RunInv
    <2>2. eof' = eof
      BY <1>1 DEF Run, Fetch
    <2> QED
      BY <2>1, <2>2 DEF StepOK, IInv, CallbackRecord
  <1>2. CASE OutsideOK /\ ~call.active
    BY <1>2 DEF OutsideOK, IInv, CallbackRecord
  <1>3. CASE \E n \in 1..MaxLen : Execute(n)
    BY <1>2, <1>3, ExecuteInv DEF Execute
  <1>4. CASE Finish
    BY <1>2, <1>4, FinishInv DEF Finish
  <1>5. CASE UNCHANGED vars
    BY <1>5 DEF vars, IInv, StateInv, ParserInv, LengthInv, FlagsInv, HeaderInv, CountInv,
                Offsets, MarkInv
  <1> QED
    BY <1>1, <1>3, <1>4, <1>5 DEF Next, Terminated

-----------------------------------------------------------------------------
(* Theorems *)

\* The invariant holds in every reachable state of the engine.
THEOREM Invariance == Spec => []IInv
  <1>1. Init => IInv
    BY InitInv
  <1>2. IInv /\ [Next]_vars => IInv'
    BY NextInv
  <1> QED
    BY <1>1, <1>2, PTL DEF Spec

\* The types of the variables: in particular no integer leaves its range and no
\* offset its buffer, however the peer, the buffers and the callbacks behave.
THEOREM TypeCorrect == Spec => []TypeOK
  <1>1. IInv => TypeOK
    BY DEF IInv, StateInv, ParserInv, TypeOK, CallbackRecord
  <1> QED
    BY <1>1, Invariance, PTL

\* The assertion after the loop: at most one string is open (http_parser.c:2059).
THEOREM OneMark == Spec => []AtMostOneMark
  <1>1. IInv => AtMostOneMark
    BY MarkStatesOf DEF IInv, StateInv, MarkInv, AtMostOneMark
  <1> QED
    BY <1>1, Invariance, PTL

\* No assertion of the body and header cases fails.
THEOREM NoAssertFails == Spec => []Asserts
  <1>1. ASSUME IInv PROVE Asserts
    <2>1. ParserInv(parser) /\ CountInv(parser, call)
          /\ (call.active => parser.http_errno = "HPE_OK")
      BY <1>1 DEF IInv, StateInv
    <2>2. At("s_chunk_size_start") => parser.nread = 1
      BY <2>1 DEF At, CountInv
    <2>3. parser.state \in ChunkStates => "F_CHUNKED" \in parser.flags
      BY <2>1 DEF ParserInv, FlagsInv
    <2>4. /\ parser.state \in {"s_chunk_data", "s_body_identity"}
               => parser.content_length \notin {0, ULLONG_MAX}
          /\ parser.state = "s_chunk_data_almost_done" => parser.content_length = 0
      BY <2>1 DEF ParserInv, LengthInv, ChunkStates
    <2>5. /\ parser.state = "s_header_field" => parser.header_state \in NameStates
          /\ parser.state = "s_header_value" /\ parser.http_errno = "HPE_OK"
               => parser.header_state \notin NoValueStates
      BY <2>1 DEF ParserInv, HeaderInv
    <2> QED
      BY <2>2, <2>3, <2>4, <2>5 DEF Asserts, ChunkStates, NameStates, NoValueStates
  <1> QED
    BY <1>1, Invariance, PTL

\* A message is framed in one way only.
THEOREM FramedOnce == Spec => []OneFraming
  <1>1. IInv => OneFraming
    BY DEF IInv, StateInv, ParserInv, FlagsInv, OneFraming, ChunkStates, BodyStates
  <1> QED
    BY <1>1, Invariance, PTL

\* Every slice handed to a callback lies in the buffer of the call.
THEOREM SlicesBounded == Spec => SlicesInBuffer
  <1>1. IInv /\ [Next]_vars
           => [cb' # NoCb =>
                 /\ cb'.n >= 0
                 /\ cb'.for \in DataCb => cb'.at + cb'.n <= call.len]_vars
    BY NextInv
  <1> QED
    BY <1>1, Invariance, PTL DEF Spec, SlicesInBuffer

\* A call that ends without error or upgrade has consumed its buffer.
THEOREM AllConsumed == Spec => ConsumesAll
  <1>1. IInv /\ [Next]_vars
           => [call.active /\ ~call'.active /\ parser'.http_errno = "HPE_OK" /\ ~parser'.upgrade
                 => nparsed' = call.len]_vars
    BY NextInv
  <1> QED
    BY <1>1, Invariance, PTL DEF Spec, ConsumesAll

-----------------------------------------------------------------------------
(* What the protocol says of the states *)

LineStates == {"s_res_H", "s_res_first_status_code", "s_res_status_code",
               "s_res_status_start", "s_res_status", "s_res_line_almost_done"}

\* The states of a header's value, before its callback or between two of them
ValueStates == {"s_header_value_discard_ws", "s_header_value_discard_ws_almost_done",
                "s_header_value_discard_lws", "s_header_value_start", "s_header_value"}

AfterValue == {"s_header_almost_done", "s_header_value_lws"}

\* The states whose phase is read off the last callback
ByLast == LineStates \cup ValueStates \cup AfterValue
             \cup {"s_header_field_start", "s_header_field", "s_headers_almost_done"}

ChunkSizeStates == {"s_chunk_size_start", "s_chunk_size", "s_chunk_parameters",
                    "s_chunk_size_almost_done"}
InChunk == {"s_chunk_data", "s_chunk_data_almost_done", "s_chunk_data_done"}

Trailing(p) == "F_TRAILING" \in p.flags

\* Before the headers of a block, l may have been the last callback
BeforeNames(p) == IF Trailing(p) THEN {"chunk_header"} ELSE {"message_begin", "status"}

\* l may be the last callback when p is the parser
LastOK(p, l) ==
    p.http_errno = "HPE_OK" =>
        /\ p.state \in {"s_start_res", "s_dead"}
              => l \in {"none", "message_begin", "message_complete"}
        /\ p.state \in LineStates => l \in {"message_begin", "status"} /\ ~Trailing(p)
        /\ p.state \in {"s_header_field_start", "s_headers_almost_done"}
              => l \in BeforeNames(p) \cup {"header_value"}
        /\ p.state = "s_header_field"
              => l \in BeforeNames(p) \cup {"header_field", "header_value"}
        /\ p.state \in ValueStates => l \in {"header_field", "header_value"}
        /\ p.state \in AfterValue => l = "header_value"

\* A string that is being read is marked, or has just been delivered at the end of the
\* buffer; body bytes are marked once they have been passed
StringOpen(p, c) ==
    c.active =>
        /\ \A f \in {"status", "header_field", "header_value"} :
              p.state \in MarkStates[f]
                 => c.mark[f] # 0 \/ (c.cur = NoByte /\ c.pos = c.len /\ c.run = 0)
        /\ c.mark["body"] <= c.pos

PInv ==
    /\ IInv
    /\ LastOK(parser, last)
    /\ StringOpen(parser, call)
    /\ eof => ~call.active

-----------------------------------------------------------------------------
(* The refinement mapping *)

HeadPhaseOf(l) ==
    CASE l = "status" -> "status"
      [] l = "header_field" -> "name"
      [] l = "header_value" -> "value"
      [] l = "message_begin" -> "begun"
      [] OTHER -> "idle"

TrailerPhaseOf(l) ==
    CASE l = "header_field" -> "tname"
      [] l = "header_value" -> "tvalue"
      [] OTHER -> "trailers"

PhaseFor(p, l, e) ==
    IF p.http_errno # "HPE_OK" THEN "over"
    ELSE CASE p.state \in {"s_start_res", "s_dead"} -> HeadPhaseOf(l)
           [] p.state = "s_headers_done" -> PhaseOf(BodyState(p))
           [] p.state = "s_body_identity_eof" /\ e -> "idle"
           [] p.state \in {"s_body_identity", "s_message_done", "s_chunk_size_start",
                           "s_chunk_size", "s_chunk_parameters",
                           "s_chunk_size_almost_done"} \cup BodyStates
              /\ ~(p.state = "s_body_identity_eof" /\ e) -> PhaseOf(p.state)
           [] OTHER -> IF "F_TRAILING" \in p.flags THEN TrailerPhaseOf(l) ELSE HeadPhaseOf(l)

\* The bytes of a body or chunk that the callbacks are still owed
Owed(p, c) ==
    p.content_length + (IF c.mark["body"] = 0 THEN 0 ELSE c.pos + 1 - c.mark["body"])

\* The mapping, as a function of the parser, the call and the last callback.
LEMMA Mapping ==
    /\ phase = PhaseFor(parser, last, eof)
    /\ phase' = PhaseFor(parser', last', eof')
    /\ left = IF phase \in {"body", "chunk"} /\ parser.state # "s_chunk_data_done"
              THEN Owed(parser, call) ELSE 0
    /\ left' = IF phase' \in {"body", "chunk"} /\ parser'.state # "s_chunk_data_done"
               THEN Owed(parser', call') ELSE 0
  <1>1. phase = PhaseFor(parser, last, eof) /\ phase' = PhaseFor(parser', last', eof')
    BY DEF phase, PhaseFor, HeadPhase, HeadPhaseOf, TrailerPhase, TrailerPhaseOf
  <1>2. /\ left = IF phase \in {"body", "chunk"} /\ parser.state # "s_chunk_data_done"
                  THEN Owed(parser, call) ELSE 0
        /\ left' = IF phase' \in {"body", "chunk"} /\ parser'.state # "s_chunk_data_done"
                   THEN Owed(parser', call') ELSE 0
    BY DEF left, Owed, Undelivered
  <1> QED
    BY <1>1, <1>2

\* The phase of each state of a parser without error, before the end of the input.
LEMMA PhaseFacts ==
    ASSUME NEW p, p.http_errno = "HPE_OK", NEW l, NEW e
    PROVE  /\ p.state \in {"s_start_res", "s_dead"} => PhaseFor(p, l, e) = HeadPhaseOf(l)
           /\ p.state \in ByLast
                 => PhaseFor(p, l, e) = IF Trailing(p) THEN TrailerPhaseOf(l) ELSE HeadPhaseOf(l)
           /\ p.state = "s_headers_done" => PhaseFor(p, l, e) = PhaseOf(BodyState(p))
           /\ p.state = "s_body_identity" => PhaseFor(p, l, e) = "body"
           /\ p.state = "s_body_identity_eof" /\ e = FALSE => PhaseFor(p, l, e) = "close"
           /\ p.state = "s_body_identity_eof" /\ e = TRUE => PhaseFor(p, l, e) = "idle"
           /\ p.state \in ChunkSizeStates => PhaseFor(p, l, e) = "chunks"
           /\ p.state \in InChunk => PhaseFor(p, l, e) = "chunk"
           /\ p.state = "s_message_done" => PhaseFor(p, l, e) = "done"
  BY DEF PhaseFor, ByLast, LineStates, ValueStates, AfterValue, BodyStates, ChunkSizeStates,
         InChunk, Trailing, PhaseOf

\* In the headers it is the last callback that tells the phase.
LEMMA HeadPhases ==
    ASSUME NEW p, p.http_errno = "HPE_OK", NEW l, p.state \in ByLast, NEW e
    PROVE  PhaseFor(p, l, e) = IF Trailing(p) THEN TrailerPhaseOf(l) ELSE HeadPhaseOf(l)
  BY PhaseFacts

-----------------------------------------------------------------------------
(* Steps *)

\* A step of the engine within a call, with what last makes of it
Within ==
    /\ PInv /\ IInv' /\ call.active
    /\ last' = IF cb' = NoCb THEN last ELSE cb'.for
    /\ eof' = eof

\* What every step achieves
StepImplements ==
    /\ Protocol!Next
    /\ LastOK(parser', last') /\ StringOpen(parser', call')

\* Before a call, and after a step that goes on with it, the parser has no error.
LEMMA WithinFacts ==
    ASSUME Within
    PROVE  /\ parser.http_errno = "HPE_OK" /\ ParserInv(parser) /\ parser \in Parser
           /\ call \in Call /\ Offsets(call) /\ MarkInv(parser, call)
           /\ LastOK(parser, last) /\ StringOpen(parser, call) /\ eof = FALSE /\ eof' = FALSE
           /\ parser' \in Parser /\ ParserInv(parser') /\ call' \in Call
           /\ call'.active => parser'.http_errno = "HPE_OK" /\ Offsets(call')
                              /\ MarkInv(parser', call')
           /\ ~call'.active => call' = NoCall
           /\ cb' \in CallbackRecord
  BY DEF Within, PInv, IInv, StateInv, ParserInv

\* A step that ends the call with an error, and without a callback.
LEMMA FailStep ==
    ASSUME Within, cb' = NoCb, parser'.http_errno # "HPE_OK"
    PROVE  StepImplements
  <1>1. phase' = "over" /\ left' = 0
    BY Mapping DEF PhaseFor
  <1>2. Protocol!Next
    BY <1>1 DEF Protocol!Next, Protocol!Fail
  <1>3. ~call'.active
    BY WithinFacts
  <1> QED
    BY <1>2, <1>3 DEF StepImplements, LastOK, StringOpen

\* A step without a callback that the protocol does not see.
LEMMA QuietStep ==
    ASSUME Within, cb' = NoCb,
           parser'.http_errno = "HPE_OK" =>
              /\ PhaseFor(parser', last, FALSE) = PhaseFor(parser, last, FALSE)
              /\ PhaseFor(parser, last, FALSE) \in {"body", "chunk"} =>
                    /\ Owed(parser', call') = Owed(parser, call)
                    /\ parser.state # "s_chunk_data_done" /\ parser'.state # "s_chunk_data_done"
              /\ LastOK(parser', last) /\ StringOpen(parser', call')
    PROVE  StepImplements
  <1>1. CASE parser'.http_errno # "HPE_OK"
    BY <1>1, FailStep
  <1>2. CASE parser'.http_errno = "HPE_OK"
    <2>1. last' = last /\ eof = FALSE /\ eof' = FALSE
      BY WithinFacts DEF Within
    <2>2. phase' = phase /\ left' = left
      BY <1>2, <2>1, Mapping
    <2>3. Protocol!Next
      BY <2>2 DEF Protocol!Next, Protocol!Quiet
    <2> QED
      BY <1>2, <2>1, <2>3 DEF StepImplements
  <1> QED
    BY <1>1, <1>2

\* A callback that returned an error ends the call, and what it was allowed to report it
\* did report.
LEMMA RefusedStep ==
    ASSUME Within, cb'.ret # 0, parser'.http_errno # "HPE_OK",
           ASSUME phase' = "over", left' = 0 PROVE Protocol!Next
    PROVE  StepImplements
  <1>1. phase' = "over" /\ left' = 0
    BY Mapping DEF PhaseFor
  <1>2. ~call'.active
    BY WithinFacts
  <1> QED
    BY <1>1, <1>2 DEF StepImplements, LastOK, StringOpen

\* What goes on without an error goes on with p and c.
LEMMA Continued ==
    ASSUME NEW p, NEW c, NEW er, Continue(p, c, er)
    PROVE  parser' = p /\ (p.http_errno = "HPE_OK" => call' = c)
  BY DEF Continue, Return

\* While no string state is entered, no string is open.
LEMMA NoStringOpen ==
    ASSUME Within, parser'.state \notin StringStates
    PROVE  StringOpen(parser', call')
  <1>1. CASE ~call'.active
    BY <1>1 DEF StringOpen
  <1>2. CASE call'.active
    <2>1. MarkInv(parser', call') /\ call' \in Call
      BY <1>2, WithinFacts
    <2>2. call'.mark["body"] = 0 /\ 0 <= call'.pos
      BY <2>1, MarkStatesOf, MaxLenAssumption DEF MarkInv, StringStates, Call
    <2> QED
      BY <2>2, MarkStatesOf DEF StringOpen, StringStates
  <1> QED
    BY <1>1, <1>2

\* A string that is marked is open.
LEMMA MarkedOpen ==
    ASSUME Within, NEW f \in {"status", "header_field", "header_value"},
           parser'.state \in MarkStates[f], call'.active => call'.mark[f] # 0
    PROVE  StringOpen(parser', call')
  <1>1. CASE ~call'.active
    BY <1>1 DEF StringOpen
  <1>2. CASE call'.active
    <2>1. MarkInv(parser', call') /\ call' \in Call
      BY <1>2, WithinFacts
    <2>2. call'.mark["body"] = 0 /\ 0 <= call'.pos
      BY <2>1, MarkStatesOf, MaxLenAssumption DEF MarkInv, Call
    <2>3. \A g \in {"status", "header_field", "header_value"} :
             parser'.state \in MarkStates[g] => g = f
      BY MarkStatesOf
    <2> QED
      BY <1>2, <2>2, <2>3 DEF StringOpen
  <1> QED
    BY <1>1, <1>2

\* A string whose next byte is there is marked.
LEMMA OpenAt ==
    ASSUME Within, NEW f \in {"status", "header_field", "header_value"},
           parser.state \in MarkStates[f], call.cur # NoByte
    PROVE  call.mark[f] # 0
  BY WithinFacts DEF StringOpen, Within

\* A string that is marked when it ends is delivered.
LEMMA Delivered ==
    ASSUME Within, NEW f \in DataCb, NEW n, NEW p, NEW er, NEW q, NEW eq, NEW c,
           DataThen(f, n, p, er, q, eq, c), c.mark[f] # 0
    PROVE  /\ cb'.for = f /\ cb'.n = n /\ last' = f /\ cb' # NoCb
           /\ cb'.ret = 0 => /\ parser' = q
                             /\ q.http_errno = "HPE_OK" => call' = [c EXCEPT !.mark[f] = 0]
           /\ cb'.ret # 0 => parser'.http_errno # "HPE_OK"
  <1>1. PICK ret \in CbRet :
           /\ cb' = [for |-> f, at |-> c.mark[f] - 1, n |-> n, ret |-> ret]
           /\ Continue(Called(p, q, ret), [c EXCEPT !.mark[f] = 0], IF ret = 0 THEN eq ELSE er)
    BY DEF DataThen
  <1>2. /\ parser' = Called(p, q, ret)
        /\ Called(p, q, ret).http_errno = "HPE_OK" => call' = [c EXCEPT !.mark[f] = 0]
    BY <1>1, Continued
  <1>3. cb'.for = f /\ cb'.n = n /\ cb'.ret = ret /\ cb' # NoCb
    BY <1>1 DEF NoCb, DataCb
  <1>4. last' = f
    BY <1>3 DEF Within
  <1>5. ret # 0 => parser'.http_errno # "HPE_OK"
    BY <1>2, WithinFacts DEF Called, Error, Parser
  <1> QED
    BY <1>2, <1>3, <1>4, <1>5 DEF Called

\* The marks of a call whose byte has been consumed.
LEMMA NextByteMarks ==
    ASSUME Within, call.cur # NoByte
    PROVE  /\ NextByte.mark = call.mark /\ NextByte.cur = NoByte
           /\ NextByte.pos = call.pos + 1 /\ NextByte.len = call.len
           /\ \A f \in DataCb : Marked(NextByte, f).mark[f] # 0
  <1>1. call \in Call
    BY WithinFacts
  <1>2. \A f \in DataCb : call.mark[f] \in Nat /\ f \in DOMAIN call.mark
    BY <1>1, MaxLenAssumption DEF Call
  <1> QED
    BY <1>1, <1>2, MaxLenAssumption DEF NextByte, Marked, Call

-----------------------------------------------------------------------------
(* The status line and the headers *)

\* A step within the head of a message, without a callback.
LEMMA QuietHead ==
    ASSUME Within, cb' = NoCb, parser.state \in ByLast,
           parser'.http_errno = "HPE_OK" =>
              /\ parser'.state \in ByLast /\ Trailing(parser') = Trailing(parser)
              /\ LastOK(parser', last) /\ StringOpen(parser', call')
    PROVE  StepImplements
  <1>1. PhaseFor(parser, last, FALSE) = IF Trailing(parser) THEN TrailerPhaseOf(last) ELSE HeadPhaseOf(last)
    BY WithinFacts, PhaseFacts
  <1>2. PhaseFor(parser, last, FALSE) \notin {"body", "chunk"}
    BY <1>1 DEF TrailerPhaseOf, HeadPhaseOf
  <1>3. parser'.http_errno = "HPE_OK" => PhaseFor(parser', last, FALSE) = PhaseFor(parser, last, FALSE)
    BY <1>1, PhaseFacts
  <1> QED
    BY <1>2, <1>3, QuietStep

\* The callback of a status, name or value.
LEMMA HeadCallback ==
    ASSUME Within, parser.state \in ByLast,
           NEW f \in {"status", "header_field", "header_value"}, cb'.for = f, last' = f,
           f = "status" => last \in {"message_begin", "status"} /\ ~Trailing(parser),
           f = "header_field"
              => last \in BeforeNames(parser) \cup {"header_field", "header_value"},
           f = "header_value" => last \in {"header_field", "header_value"},
           cb'.ret = 0 => \/ /\ parser'.http_errno = "HPE_OK"
                             /\ parser'.state \in ByLast /\ Trailing(parser') = Trailing(parser)
                          \/ f = "header_value" /\ parser'.http_errno # "HPE_OK",
           cb'.ret # 0 => parser'.http_errno # "HPE_OK"
    PROVE  Protocol!Next
  <1>1. phase = IF Trailing(parser) THEN TrailerPhaseOf(last) ELSE HeadPhaseOf(last)
    BY WithinFacts, PhaseFacts, Mapping
  <1>2. parser'.http_errno # "HPE_OK" => phase' = "over" /\ left' = 0
    BY Mapping DEF PhaseFor
  <1>3. parser'.http_errno = "HPE_OK"
           => phase' = (IF Trailing(parser) THEN TrailerPhaseOf(f) ELSE HeadPhaseOf(f))
              /\ left' = 0
    <2>1. SUFFICES ASSUME parser'.http_errno = "HPE_OK"
                   PROVE  /\ phase' = (IF Trailing(parser) THEN TrailerPhaseOf(f) ELSE HeadPhaseOf(f))
                          /\ left' = 0
      OBVIOUS
    <2>2. parser'.state \in ByLast /\ Trailing(parser') = Trailing(parser)
      BY <2>1
    <2>3. PhaseFor(parser', f, FALSE)
             = IF Trailing(parser') THEN TrailerPhaseOf(f) ELSE HeadPhaseOf(f)
      BY <2>1, <2>2, HeadPhases
    <2>4. phase' = IF Trailing(parser) THEN TrailerPhaseOf(f) ELSE HeadPhaseOf(f)
      BY <2>2, <2>3, Mapping, WithinFacts
    <2> QED
      BY <2>4, Mapping DEF TrailerPhaseOf, HeadPhaseOf
  <1>4. CASE f = "status"
    <2>1. phase \in {"begun", "status"}
      BY <1>1, <1>4 DEF HeadPhaseOf
    <2>2. Protocol!Then("status", 0)
      BY <1>2, <1>3, <1>4 DEF Protocol!Then, HeadPhaseOf
    <2> QED
      BY <1>4, <2>1, <2>2 DEF Protocol!Next, Protocol!Status, Protocol!Calls
  <1>5. CASE f = "header_field"
    <2>1. CASE Trailing(parser)
      <3>1. phase \in {"trailers", "tname", "tvalue"}
        BY <1>1, <1>5, <2>1 DEF TrailerPhaseOf, BeforeNames
      <3>2. Protocol!Then("tname", 0)
        BY <1>2, <1>3, <1>5, <2>1 DEF Protocol!Then, TrailerPhaseOf
      <3> QED
        BY <1>5, <3>1, <3>2 DEF Protocol!Next, Protocol!HeaderField, Protocol!Calls
    <2>2. CASE ~Trailing(parser)
      <3>1. phase \in {"begun", "status", "name", "value"}
        BY <1>1, <1>5, <2>2 DEF HeadPhaseOf, BeforeNames
      <3>2. Protocol!Then("name", 0)
        BY <1>2, <1>3, <1>5, <2>2 DEF Protocol!Then, HeadPhaseOf
      <3> QED
        BY <1>5, <3>1, <3>2 DEF Protocol!Next, Protocol!HeaderField, Protocol!Calls
    <2> QED
      BY <2>1, <2>2
  <1>6. CASE f = "header_value"
    <2>1. CASE Trailing(parser)
      <3>1. phase \in {"tname", "tvalue"}
        BY <1>1, <1>6, <2>1 DEF TrailerPhaseOf
      <3>2. Protocol!Then("tvalue", 0) \/ Protocol!Then("over", 0)
        BY <1>2, <1>3, <1>6, <2>1 DEF Protocol!Then, TrailerPhaseOf
      <3> QED
        BY <1>6, <3>1, <3>2 DEF Protocol!Next, Protocol!HeaderValue, Protocol!Calls
    <2>2. CASE ~Trailing(parser)
      <3>1. phase \in {"name", "value"}
        BY <1>1, <1>6, <2>2 DEF HeadPhaseOf
      <3>2. Protocol!Then("value", 0) \/ Protocol!Then("over", 0)
        BY <1>2, <1>3, <1>6, <2>2 DEF Protocol!Then, HeadPhaseOf
      <3> QED
        BY <1>6, <3>1, <3>2 DEF Protocol!Next, Protocol!HeaderValue, Protocol!Calls
    <2> QED
      BY <2>1, <2>2
  <1> QED
    BY <1>4, <1>5, <1>6

\* A callback that only notifies.
LEMMA Notified ==
    ASSUME Within, NEW f \in NotifyCb, NEW p, NEW c, NEW er, Notify(f, p, c, er)
    PROVE  /\ cb'.for = f /\ last' = f
           /\ cb'.ret = 0 => parser' = p /\ (p.http_errno = "HPE_OK" => call' = c)
           /\ cb'.ret # 0 => parser'.http_errno # "HPE_OK"
  <1>1. PICK ret \in CbRet :
           /\ cb' = [for |-> f, at |-> 0, n |-> 0, ret |-> ret]
           /\ Continue(Called(p, p, ret), c, er)
    BY DEF Notify
  <1>2. /\ parser' = Called(p, p, ret)
        /\ Called(p, p, ret).http_errno = "HPE_OK" => call' = c
    BY <1>1, Continued
  <1>3. cb'.for = f /\ cb'.ret = ret /\ cb' # NoCb
    BY <1>1 DEF NoCb, NotifyCb
  <1>4. last' = f
    BY <1>3 DEF Within
  <1>5. ret # 0 => parser'.http_errno # "HPE_OK"
    BY <1>2, WithinFacts DEF Called, Error, Parser
  <1> QED
    BY <1>2, <1>3, <1>4, <1>5 DEF Called

\* UPDATE_STATE and SET_ERRNO.
LEMMA MoveFacts ==
    ASSUME Within, NEW s, NEW e
    PROVE  /\ Move(parser, s).state = s /\ Move(parser, s).flags = parser.flags
           /\ Move(parser, s).http_errno = "HPE_OK"
           /\ Move(parser, s).content_length = parser.content_length
           /\ Error(parser, e).http_errno = e
  BY WithinFacts DEF Move, Error, Parser

\* A step that consumes its byte, or examines it again, keeps the marks.
LEMMA Stepped ==
    ASSUME Within, call.cur # NoByte, NEW p, Step(p) \/ Reexecute(p)
    PROVE  /\ cb' = NoCb /\ parser' = p
           /\ p.http_errno = "HPE_OK" => call'.mark = call.mark
  BY Continued, NextByteMarks DEF Step, Reexecute

\* Such a step within the head of a message, to a state that reads no string.
LEMMA HeadMoved ==
    ASSUME Within, call.cur # NoByte, parser.state \in ByLast, NEW p, Step(p) \/ Reexecute(p),
           p.http_errno = "HPE_OK" =>
              /\ p.state \in ByLast \ StringStates /\ Trailing(p) = Trailing(parser)
              /\ LastOK(p, last)
    PROVE  StepImplements
  BY Stepped, NoStringOpen, QuietHead

\* A step of a string that goes on.
LEMMA StringGoesOn ==
    ASSUME Within, call.cur # NoByte, NEW f \in {"status", "header_field", "header_value"},
           parser.state \in MarkStates[f] \cap ByLast, cb' = NoCb,
           parser'.http_errno = "HPE_OK" =>
              /\ parser'.state = parser.state /\ Trailing(parser') = Trailing(parser)
              /\ call'.mark = call.mark
    PROVE  StepImplements
  <1>1. call.mark[f] # 0
    BY OpenAt
  <1>2. CASE parser'.http_errno = "HPE_OK"
    <2>1. StringOpen(parser', call')
      BY <1>1, <1>2, MarkedOpen
    <2>2. LastOK(parser', last)
      BY <1>2, WithinFacts DEF LastOK, BeforeNames
    <2> QED
      BY <1>2, <2>1, <2>2, QuietHead
  <1>3. CASE parser'.http_errno # "HPE_OK"
    BY <1>3, FailStep
  <1> QED
    BY <1>2, <1>3

\* A step that begins a string.
LEMMA StringBegins ==
    ASSUME Within, call.cur # NoByte, NEW f \in {"status", "header_field", "header_value"},
           parser.state \in ByLast, NEW p, NEW er, cb' = NoCb,
           Continue(p, Marked(NextByte, f), er),
           p.http_errno = "HPE_OK" =>
              /\ p.state \in ByLast \cap MarkStates[f] /\ Trailing(p) = Trailing(parser)
              /\ LastOK(p, last)
    PROVE  StepImplements
  <1>1. parser' = p /\ (p.http_errno = "HPE_OK" => call' = Marked(NextByte, f))
    BY Continued
  <1>2. CASE p.http_errno = "HPE_OK"
    <2>1. f \in DataCb
      BY DEF DataCb
    <2>2. call'.mark[f] # 0
      BY <1>1, <1>2, <2>1, NextByteMarks
    <2>3. StringOpen(parser', call')
      BY <1>1, <1>2, <2>2, MarkedOpen
    <2> QED
      BY <1>1, <1>2, <2>3, QuietHead
  <1>3. CASE p.http_errno # "HPE_OK"
    BY <1>1, <1>3, FailStep
  <1> QED
    BY <1>2, <1>3

\* A string that ends, with its callback.
LEMMA StringEnds ==
    ASSUME Within, parser.state \in ByLast,
           NEW f \in {"status", "header_field", "header_value"},
           NEW n, NEW p, NEW er, NEW q, NEW eq, NEW c,
           DataThen(f, n, p, er, q, eq, c), c.mark[f] # 0,
           f = "status" => last \in {"message_begin", "status"} /\ ~Trailing(parser),
           f = "header_field"
              => last \in BeforeNames(parser) \cup {"header_field", "header_value"},
           f = "header_value" => last \in {"header_field", "header_value"},
           \/ /\ q.http_errno = "HPE_OK"
              /\ q.state \in ByLast \ StringStates /\ Trailing(q) = Trailing(parser)
              /\ LastOK(q, f)
           \/ f = "header_value" /\ q.http_errno # "HPE_OK"
    PROVE  StepImplements
  <1>1. f \in DataCb
    BY DEF DataCb
  <1>2. /\ cb'.for = f /\ last' = f
        /\ cb'.ret = 0 => parser' = q
        /\ cb'.ret # 0 => parser'.http_errno # "HPE_OK"
    BY <1>1, Delivered
  <1>3. Protocol!Next
    BY <1>2, HeadCallback
  <1>4. LastOK(parser', last')
    BY <1>2 DEF LastOK
  <1>5. StringOpen(parser', call')
    <2>1. CASE parser'.http_errno = "HPE_OK"
      BY <1>2, <2>1, NoStringOpen
    <2>2. CASE parser'.http_errno # "HPE_OK"
      BY <2>2, WithinFacts DEF StringOpen
    <2> QED
      BY <2>1, <2>2
  <1> QED
    BY <1>3, <1>4, <1>5 DEF StepImplements

\* s_dead: nothing more is reported.
LEMMA DeadImplements ==
    ASSUME Within, Dead PROVE StepImplements
  <1>1. /\ call.cur # NoByte /\ parser.state = "s_dead" /\ parser.http_errno = "HPE_OK"
        /\ LastOK(parser, last)
    BY WithinFacts DEF Dead, At
  <1>2. CASE Step(parser)
    <2>1. cb' = NoCb /\ parser' = parser
      BY <1>1, <1>2, Stepped
    <2>2. StringOpen(parser', call')
      BY <1>1, <2>1, NoStringOpen DEF StringStates
    <2>3. PhaseFor(parser, last, FALSE) \notin {"body", "chunk"}
      BY <1>1, PhaseFacts DEF HeadPhaseOf
    <2> QED
      BY <1>1, <2>1, <2>2, <2>3, QuietStep
  <1>3. CASE Step(Error(parser, "HPE_CLOSED_CONNECTION"))
    BY <1>1, <1>3, Stepped, MoveFacts, FailStep
  <1> QED
    BY <1>2, <1>3 DEF Dead

\* s_start_res: message_begin, for each blank byte before the status line too.
LEMMA StartResImplements ==
    ASSUME Within, StartRes PROVE StepImplements
  <1> DEFINE p == [parser EXCEPT !.flags = {}, !.content_length = ULLONG_MAX]
  <1>1. /\ call.cur # NoByte /\ parser.state = "s_start_res" /\ parser.http_errno = "HPE_OK"
        /\ LastOK(parser, last) /\ parser \in Parser
    BY WithinFacts DEF StartRes, At
  <1>2. /\ p.state = "s_start_res" /\ p.flags = {}
        /\ Move(p, "s_res_H").state = "s_res_H" /\ Move(p, "s_res_H").flags = {}
        /\ Error(p, "HPE_INVALID_CONSTANT").http_errno # "HPE_OK"
    BY <1>1 DEF Parser, Move, Error
  <1> HIDE DEF p
  <1>3. phase \in {"idle", "begun"}
    <2>1. last \in {"none", "message_begin", "message_complete"}
      BY <1>1 DEF LastOK
    <2>2. phase = HeadPhaseOf(last)
      BY <1>1, PhaseFacts, Mapping
    <2> QED
      BY <2>1, <2>2 DEF HeadPhaseOf
  <1>4. CASE \E q \in {p, Move(p, "s_res_H")} : Notify("message_begin", q, NextByte, call.pos + 1)
    <2>1. PICK q \in {p, Move(p, "s_res_H")} : Notify("message_begin", q, NextByte, call.pos + 1)
      BY <1>4
    <2>2. q.state \in {"s_start_res", "s_res_H"} /\ q.flags = {}
      BY <1>2, <2>1
    <2>3. /\ cb'.for = "message_begin" /\ last' = "message_begin"
          /\ cb'.ret = 0 => parser' = q
          /\ cb'.ret # 0 => parser'.http_errno # "HPE_OK"
      BY <2>1, Notified DEF NotifyCb
    <2>4. CASE parser'.http_errno = "HPE_OK"
      <3>1. parser' = q /\ cb'.ret = 0
        BY <2>3, <2>4
      <3>2. phase' = "begun" /\ left' = 0
        <4>1. CASE q.state = "s_start_res"
          <5>1. parser'.state = "s_start_res"
            BY <3>1, <4>1
          <5>2. phase' = HeadPhaseOf("message_begin")
            BY <2>3, <2>4, <5>1, PhaseFacts, Mapping
          <5> QED
            BY <5>2, Mapping DEF HeadPhaseOf
        <4>2. CASE q.state = "s_res_H"
          <5>1. q.state \in ByLast /\ ~Trailing(q)
            BY <2>2, <4>2 DEF ByLast, LineStates, Trailing
          <5> QED
            BY <2>3, <2>4, <3>1, <5>1, HeadPhases, Mapping DEF HeadPhaseOf
        <4> QED
          BY <2>2, <4>1, <4>2
      <3>3. Protocol!Next
        BY <1>3, <2>3, <3>1, <3>2
           DEF Protocol!Next, Protocol!MessageBegin, Protocol!Calls, Protocol!Then
      <3>4. LastOK(parser', last')
        BY <2>2, <2>3, <3>1 DEF LastOK, LineStates, ValueStates, AfterValue, Trailing
      <3>5. StringOpen(parser', call')
        BY <2>2, <3>1, NoStringOpen DEF StringStates
      <3> QED
        BY <3>3, <3>4, <3>5 DEF StepImplements
    <2>5. CASE parser'.http_errno # "HPE_OK"
      <3>1. cb'.ret # 0
        BY <1>1, <1>2, <2>1, <2>3, <2>5 DEF p, Parser, Move
      <3> QED
        BY <1>3, <2>3, <2>5, <3>1, RefusedStep
           DEF Protocol!Next, Protocol!MessageBegin, Protocol!Calls, Protocol!Then
    <2> QED
      BY <2>4, <2>5
  <1>5. CASE Step(Error(p, "HPE_INVALID_CONSTANT"))
    BY <1>1, <1>2, <1>5, Stepped, FailStep
  <1> QED
    BY <1>4, <1>5 DEF StartRes, p

\* Which moves within the head suit the last callback made.
LEMMA LastKept ==
    ASSUME Within, NEW p, Trailing(p) = Trailing(parser),
           \/ parser.state \in LineStates
              /\ p.state \in LineStates \cup {"s_header_field_start"}
           \/ parser.state = "s_header_field_start"
              /\ p.state \in {"s_headers_almost_done", "s_header_field"}
           \/ parser.state \in ValueStates \cup AfterValue /\ p.state \in ValueStates
           \/ parser.state \in AfterValue /\ p.state \in AfterValue \cup {"s_header_field_start"}
    PROVE  LastOK(p, last)
  BY WithinFacts DEF LastOK, LineStates, ValueStates, AfterValue, BeforeNames

\* A move within the status line, or an error.
LEMMA LineImplements ==
    ASSUME Within, call.cur # NoByte, parser.state \in LineStates, NEW p, Step(p),
           p.http_errno = "HPE_OK" =>
              /\ p.state \in (LineStates \ {"s_res_status"}) \cup {"s_header_field_start"}
              /\ p.flags = parser.flags
    PROVE  StepImplements
  <1>1. p.http_errno = "HPE_OK" => /\ p.state \in ByLast \ StringStates
                                   /\ Trailing(p) = Trailing(parser) /\ LastOK(p, last)
    BY LastKept DEF ByLast, LineStates, StringStates, Trailing
  <1> QED
    BY <1>1, HeadMoved DEF ByLast

LEMMA VersionImplements ==
    ASSUME Within, Version PROVE StepImplements
  <1> DEFINE q == [Move(parser, "s_res_first_status_code") EXCEPT !.http11 = call.cur.v > 0]
  <1>1. call.cur # NoByte /\ parser.state \in LineStates /\ parser \in Parser
    BY WithinFacts DEF Version, At, LineStates
  <1>2. q.state = "s_res_first_status_code" /\ q.flags = parser.flags
    BY <1>1 DEF Move, Parser
  <1>3. Step(q) \/ (\E e \in {"HPE_STRICT", "HPE_INVALID_VERSION"} : Step(Error(parser, e)))
    BY DEF Version
  <1> HIDE DEF q
  <1> QED
    BY <1>1, <1>2, <1>3, MoveFacts, LineImplements DEF LineStates

LEMMA FirstStatusCodeImplements ==
    ASSUME Within, FirstStatusCode PROVE StepImplements
  <1> DEFINE q == [Move(parser, "s_res_status_code") EXCEPT !.status_code = call.cur.v]
  <1>1. /\ call.cur # NoByte /\ parser.state = "s_res_first_status_code"
        /\ parser.state \in LineStates \ {"s_res_status"} /\ parser \in Parser
    BY WithinFacts DEF FirstStatusCode, At, LineStates
  <1>2. q.state = "s_res_status_code" /\ q.flags = parser.flags
    BY <1>1 DEF Move, Parser
  <1>3. Step(q) \/ Step(parser) \/ Step(Error(parser, "HPE_INVALID_STATUS"))
    BY DEF FirstStatusCode
  <1> HIDE DEF q
  <1> QED
    BY <1>1, <1>2, <1>3, MoveFacts, LineImplements DEF LineStates

LEMMA StatusCodeImplements ==
    ASSUME Within, StatusCode PROVE StepImplements
  <1>1. call.cur # NoByte /\ parser.state \in LineStates
    BY WithinFacts DEF StatusCode, At, LineStates
  <1>2. \/ \E s \in {"s_res_status_start", "s_res_line_almost_done", "s_header_field_start"} :
              Step(Move(parser, s))
        \/ Step(Error(parser, "HPE_INVALID_STATUS"))
    BY DEF StatusCode
  <1> QED
    BY <1>1, <1>2, MoveFacts, LineImplements DEF LineStates

LEMMA ResLineAlmostDoneImplements ==
    ASSUME Within, ResLineAlmostDone PROVE StepImplements
  <1>1. call.cur # NoByte /\ parser.state \in LineStates
    BY WithinFacts DEF ResLineAlmostDone, At, LineStates
  <1>2. Step(Move(parser, "s_header_field_start")) \/ Step(Error(parser, "HPE_STRICT"))
    BY DEF ResLineAlmostDone
  <1> QED
    BY <1>1, <1>2, MoveFacts, LineImplements DEF LineStates

LEMMA StatusStartImplements ==
    ASSUME Within, StatusStart PROVE StepImplements
  <1> DEFINE q == Move(parser, "s_res_status")
  <1>1. call.cur # NoByte /\ parser.state \in LineStates
    BY WithinFacts DEF StatusStart, At, LineStates
  <1>2. CASE \E s \in {"s_res_line_almost_done", "s_header_field_start"} : Step(Move(parser, s))
    BY <1>1, <1>2, MoveFacts, LineImplements DEF LineStates
  <1>3. CASE cb' = NoCb /\ Continue(q, Marked(NextByte, "status"), call.pos)
    <2>1. q.state = "s_res_status" /\ q.flags = parser.flags
      BY MoveFacts
    <2> HIDE DEF q
    <2>2. Trailing(q) = Trailing(parser) /\ LastOK(q, last)
      BY <1>1, <2>1, LastKept DEF LineStates, Trailing
    <2> QED
      BY <1>1, <1>3, <2>1, <2>2, StringBegins, MarkStatesOf DEF ByLast, LineStates
  <1> QED
    BY <1>2, <1>3 DEF StatusStart

\* s_res_status: on with the reason phrase, or its callback.
LEMMA StatusImplements ==
    ASSUME Within, Status PROVE StepImplements
  <1>1. /\ call.cur # NoByte /\ parser.state = "s_res_status" /\ LastOK(parser, last)
        /\ parser.http_errno = "HPE_OK" /\ parser.state \in LineStates
        /\ parser.state \in MarkStates["status"] \cap ByLast /\ "status" \in DataCb
    BY WithinFacts, MarkStatesOf DEF Status, At, ByLast, LineStates, DataCb
  <1>2. CASE Step(parser)
    BY <1>1, <1>2, Stepped, StringGoesOn
  <1>3. CASE \E s \in {"s_res_line_almost_done", "s_header_field_start"} :
                Data("status", Length("status", call), Move(parser, s), call.pos + 1, NextByte)
    <2>1. PICK s \in {"s_res_line_almost_done", "s_header_field_start"} :
             Data("status", Length("status", call), Move(parser, s), call.pos + 1, NextByte)
      BY <1>3
    <2> DEFINE q == Move(parser, s)
    <2>2. q.state = s /\ q.flags = parser.flags /\ q.http_errno = "HPE_OK"
      BY MoveFacts
    <2> HIDE DEF q
    <2>3. NextByte.mark["status"] # 0
      BY <1>1, NextByteMarks, OpenAt
    <2>4. last \in {"message_begin", "status"} /\ ~Trailing(parser)
      BY <1>1 DEF LastOK
    <2>5. q.state \in ByLast \ StringStates /\ Trailing(q) = Trailing(parser)
      BY <2>2 DEF ByLast, LineStates, StringStates, Trailing
    <2>6. LastOK(q, "status")
      BY <2>2, <2>4, <2>5 DEF LastOK, LineStates, ValueStates, AfterValue, BeforeNames
    <2>7. Data("status", Length("status", call), q, call.pos + 1, NextByte)
      BY <2>1 DEF q
    <2> QED
      BY <1>1, <2>2, <2>3, <2>4, <2>5, <2>6, <2>7, StringEnds DEF Data
  <1> QED
    BY <1>2, <1>3 DEF Status

\* The beginning of a header, or the end of the headers.
LEMMA HeaderFieldStartImplements ==
    ASSUME Within, HeaderFieldStart PROVE StepImplements
  <1> DEFINE q == [Move(parser, "s_header_field") EXCEPT !.header_state = NameStart(call.cur)]
             d == Move(parser, "s_headers_almost_done")
  <1>1. call.cur # NoByte /\ parser.state = "s_header_field_start" /\ parser.state \in ByLast
        /\ parser \in Parser
    BY WithinFacts DEF HeaderFieldStart, At, ByLast
  <1>2. q.state = "s_header_field" /\ q.flags = parser.flags
    BY <1>1 DEF Move, Parser
  <1>3. d.state = "s_headers_almost_done" /\ d.flags = parser.flags
    BY MoveFacts
  <1>4. \/ Step(d) \/ Reexecute(d) \/ Step(Error(parser, "HPE_INVALID_HEADER_TOKEN"))
        \/ cb' = NoCb /\ Continue(q, Marked(NextByte, "header_field"), call.pos)
    BY DEF HeaderFieldStart
  <1> HIDE DEF q, d
  <1>5. CASE Step(d) \/ Reexecute(d)
    <2>1. LastOK(d, last) /\ Trailing(d) = Trailing(parser)
      BY <1>1, <1>3, LastKept DEF Trailing
    <2> QED
      BY <1>1, <1>3, <1>5, <2>1, HeadMoved DEF ByLast, StringStates
  <1>6. CASE Step(Error(parser, "HPE_INVALID_HEADER_TOKEN"))
    BY <1>1, <1>6, MoveFacts, HeadMoved
  <1>7. CASE cb' = NoCb /\ Continue(q, Marked(NextByte, "header_field"), call.pos)
    <2>1. LastOK(q, last) /\ Trailing(q) = Trailing(parser)
      BY <1>1, <1>2, LastKept DEF Trailing
    <2> QED
      BY <1>1, <1>2, <1>7, <2>1, StringBegins, MarkStatesOf DEF ByLast
  <1> QED
    BY <1>4, <1>5, <1>6, <1>7

\* COUNT_HEADER_SIZE changes neither the state nor the flags.
LEMMA Counted ==
    ASSUME Within
    PROVE  /\ call.run \in Nat
           /\ Count(parser, call.run).state = parser.state
           /\ Count(parser, call.run).flags = parser.flags
           /\ Count(parser, call.run) \in Parser
           /\ Count(parser, call.run).content_length = parser.content_length
  <1>1. call.run \in Nat /\ ParserInv(parser)
    BY WithinFacts, MaxLenAssumption DEF Call
  <1> QED
    BY <1>1, CountHeaderSize DEF ParserInv

\* s_header_field: on with the name, or its callback at the colon.
LEMMA HeaderFieldImplements ==
    ASSUME Within, HeaderField PROVE StepImplements
  <1> DEFINE p == Count(parser, call.run)
             q == Move(p, "s_header_value_discard_ws")
             t == [parser EXCEPT !.header_state = NameStep(@, call.cur)]
             c == [NextByte EXCEPT !.run = call.run + 1]
             e == Error(p, "HPE_INVALID_HEADER_TOKEN")
  <1>1. /\ call.cur # NoByte /\ parser.state = "s_header_field" /\ LastOK(parser, last)
        /\ parser.http_errno = "HPE_OK" /\ parser.state \in ByLast /\ parser \in Parser
        /\ parser.state \in MarkStates["header_field"] /\ "header_field" \in DataCb
    BY WithinFacts, MarkStatesOf DEF HeaderField, At, ByLast, DataCb
  <1>2. p.state = "s_header_field" /\ p.flags = parser.flags /\ p \in Parser
    BY <1>1, Counted
  <1>3. t.state = parser.state /\ t.flags = parser.flags /\ c.mark = call.mark
    BY <1>1, NextByteMarks, WithinFacts DEF Parser, Call, NextByte
  <1>4. /\ q.state = "s_header_value_discard_ws" /\ q.flags = parser.flags
        /\ q.http_errno = p.http_errno /\ e.http_errno # "HPE_OK"
    BY <1>2 DEF Parser, Move, Error
  <1>5. \/ cb' = NoCb /\ Continue(t, c, call.pos)
        \/ p.http_errno # "HPE_OK" /\ Step(p)
        \/ /\ p.http_errno = "HPE_OK"
           /\ Data("header_field", Length("header_field", call), q, call.pos + 1, NextByte)
        \/ Step(e)
    BY DEF HeaderField
  <1> HIDE DEF p, q, t, c, e
  <1>6. CASE cb' = NoCb /\ Continue(t, c, call.pos)
    <2>1. parser' = t /\ (t.http_errno = "HPE_OK" => call' = c)
      BY <1>6, Continued
    <2> QED
      BY <1>1, <1>3, <1>6, <2>1, StringGoesOn DEF Trailing
  <1>7. CASE p.http_errno # "HPE_OK" /\ Step(p)
    BY <1>1, <1>7, HeadMoved
  <1>8. CASE /\ p.http_errno = "HPE_OK"
             /\ Data("header_field", Length("header_field", call), q, call.pos + 1, NextByte)
    <2>1. NextByte.mark["header_field"] # 0
      BY <1>1, NextByteMarks, OpenAt
    <2>2. last \in BeforeNames(parser) \cup {"header_field", "header_value"}
      BY <1>1 DEF LastOK
    <2>3. q.state \in ByLast \ StringStates /\ Trailing(q) = Trailing(parser)
      BY <1>4 DEF ByLast, ValueStates, StringStates, Trailing
    <2>4. LastOK(q, "header_field")
      BY <1>4 DEF LastOK, LineStates, ValueStates, AfterValue
    <2> QED
      BY <1>1, <1>4, <1>8, <2>1, <2>2, <2>3, <2>4, StringEnds DEF Data
  <1>9. CASE Step(e)
    BY <1>1, <1>4, <1>9, HeadMoved
  <1> QED
    BY <1>5, <1>6, <1>7, <1>8, <1>9

\* A step without a callback that leaves parser and marks as they are for the protocol.
LEMMA SameStep ==
    ASSUME Within, cb' = NoCb,
           parser'.http_errno = "HPE_OK" =>
              /\ parser'.state = parser.state /\ parser'.flags = parser.flags
              /\ parser'.content_length = parser.content_length
              /\ parser'.upgrade = parser.upgrade /\ parser'.status_code = parser.status_code
              /\ parser.state # "s_chunk_data_done" => Owed(parser', call') = Owed(parser, call)
              /\ StringOpen(parser', call')
    PROVE  StepImplements
  <1>1. CASE parser'.http_errno # "HPE_OK"
    BY <1>1, FailStep
  <1>2. CASE parser'.http_errno = "HPE_OK"
    <2>1. BodyState(parser') = BodyState(parser)
      BY <1>2 DEF BodyState, MessageNeedsEof
    <2>2. PhaseFor(parser', last, FALSE) = PhaseFor(parser, last, FALSE)
      BY <1>2, <2>1, WithinFacts DEF PhaseFor
    <2>3. last' = last /\ eof = FALSE /\ eof' = FALSE
      BY WithinFacts DEF Within
    <2>4. phase' = phase
      BY <2>2, <2>3, Mapping
    <2>5. left' = left
      BY <1>2, <2>4, Mapping
    <2>6. Protocol!Next
      BY <2>4, <2>5 DEF Protocol!Next, Protocol!Quiet
    <2>7. LastOK(parser', last')
      BY <1>2, <2>3, WithinFacts DEF LastOK, BeforeNames, Trailing
    <2> QED
      BY <1>2, <2>6, <2>7 DEF StepImplements
  <1> QED
    BY <1>1, <1>2

\* The loop over a name or a value at the end of the buffer.
LEMMA LeaveInnerLoopImplements ==
    ASSUME Within, LeaveInnerLoop PROVE StepImplements
  <1> DEFINE p == Count(parser, call.run)
             c == [call EXCEPT !.run = 0]
  <1>1. /\ call.cur = NoByte /\ call.pos = call.len /\ cb' = NoCb /\ call \in Call
        /\ call.active /\ StringOpen(parser, call) /\ parser \in Parser
    BY WithinFacts DEF LeaveInnerLoop
  <1>2. /\ p.state = parser.state /\ p.flags = parser.flags
        /\ p.content_length = parser.content_length
    BY Counted
  <1>3. p.upgrade = parser.upgrade /\ p.status_code = parser.status_code
    BY <1>1 DEF Count, Parser
  <1>4. parser' = p /\ (p.http_errno = "HPE_OK" => call' = c)
    BY Continued DEF LeaveInnerLoop
  <1>5. /\ c.cur = NoByte /\ c.pos = call.pos /\ c.len = call.len /\ c.run = 0
        /\ c.mark = call.mark
    BY <1>1 DEF Call
  <1> HIDE DEF p, c
  <1>6. p.http_errno = "HPE_OK" => StringOpen(parser', call')
    BY <1>1, <1>2, <1>4, <1>5 DEF StringOpen
  <1>7. p.http_errno = "HPE_OK" => Owed(parser', call') = Owed(parser, call)
    BY <1>2, <1>4, <1>5 DEF Owed
  <1> QED
    BY <1>1, <1>2, <1>3, <1>4, <1>6, <1>7, SameStep

\* Beginning or continuing a value, and ending its line, never set the flag of the trailer.
LEMMA FlagAdded ==
    ASSUME NEW p, NEW q, NEW more, "F_TRAILING" \notin more, q.flags = p.flags \cup more
    PROVE  Trailing(q) = Trailing(p)
  BY DEF Trailing

LEMMA ValueStartTrailing ==
    ASSUME Within, NEW ch
    PROVE  Trailing(ValueStart(ch)) = Trailing(parser)
  <1> DEFINE h == parser.header_state
             p == Move(parser, "s_header_value")
             r == ValueStart(ch)
  <1>1. p \in Parser /\ p.flags = parser.flags
    BY WithinFacts, MoveFacts DEF Move, Parser, State, HeaderPhaseStates
  <1>2. CASE h = "h_upgrade"
    <2>1. r = [p EXCEPT !.header_state = "h_general", !.flags = p.flags \cup {"F_UPGRADE"}]
      BY <1>1, <1>2 DEF ValueStart, Parser
    <2> HIDE DEF p, r
    <2>2. r.flags = parser.flags \cup {"F_UPGRADE"}
      BY <1>1, <2>1 DEF Parser
    <2> QED
      BY <2>2, FlagAdded DEF r
  <1>3. CASE h = "h_content_length"
    <2>1. \/ \E e : r = [p EXCEPT !.http_errno = e]
          \/ r = [p EXCEPT !.flags = p.flags \cup {"F_CONTENTLENGTH"}, !.content_length = ch.v]
      BY <1>3 DEF ValueStart, Error
    <2> HIDE DEF p, r
    <2>2. r.flags \in {parser.flags \cup {}, parser.flags \cup {"F_CONTENTLENGTH"}}
      BY <1>1, <2>1 DEF Parser
    <2> QED
      BY <2>2, FlagAdded DEF r
  <1>4. CASE h \notin {"h_upgrade", "h_content_length"}
    <2>1. r = p \/ \E g : r = [p EXCEPT !.header_state = g]
      BY <1>4 DEF ValueStart
    <2> HIDE DEF p, r
    <2>2. r.flags = parser.flags \cup {}
      BY <1>1, <2>1 DEF Parser
    <2> QED
      BY <2>2, FlagAdded DEF r
  <1> QED
    BY <1>2, <1>3, <1>4

LEMMA ValueByteTrailing ==
    ASSUME Within, NEW ch
    PROVE  Trailing(ValueByte(parser, ch)) = Trailing(parser)
  <1> DEFINE r == ValueByte(parser, ch)
             h == parser.header_state
  <1>1. parser \in Parser
    BY WithinFacts
  <1>2. \/ \E e : r = [parser EXCEPT !.http_errno = e]
        \/ r = parser
        \/ r = [parser EXCEPT !.content_length = parser.content_length * 10 + ch.v]
        \/ \E more \in {{}, FlagOf(h)} :
              r = [parser EXCEPT !.header_state = ValueStep(h, ch),
                                 !.flags = parser.flags \cup more]
    <2>1. parser.flags = parser.flags \cup {}
      OBVIOUS
    <2>2. CASE IsHeaderChar(ch) /\ h # "h_content_length"
      BY <2>1, <2>2 DEF ValueByte
    <2>3. CASE ~IsHeaderChar(ch)
      BY <2>3 DEF ValueByte, Error
    <2>4. CASE IsHeaderChar(ch) /\ h = "h_content_length"
      BY <2>4 DEF ValueByte, LengthDigit, Error
    <2> QED
      BY <2>2, <2>3, <2>4
  <1> HIDE DEF r
  <1>3. \E more \in {{}, FlagOf(h)} : r.flags = parser.flags \cup more
    BY <1>1, <1>2 DEF Parser
  <1> QED
    BY <1>3, FlagOfType, FlagAdded DEF r

\* A value begins.
LEMMA StartValueImplements ==
    ASSUME Within, call.cur # NoByte, parser.state \in ValueStates, StartValue
    PROVE  StepImplements
  <1> DEFINE q == ValueStart(call.cur)
  <1>1. /\ ParserInv(parser) /\ parser.http_errno = "HPE_OK" /\ call.cur \in Lexeme
        /\ parser.state \in HeadStates /\ parser.state \in ByLast
    BY WithinFacts DEF Call, ValueStates, HeadStates, HeaderPhaseStates, ChunkStates, ByLast
  <1>2. q.http_errno = "HPE_OK" => q.state = "s_header_value"
    BY <1>1, ValueStartInv
  <1>3. Trailing(q) = Trailing(parser)
    BY ValueStartTrailing
  <1>4. cb' = NoCb /\ Continue(q, Marked(NextByte, "header_value"), call.pos)
    BY DEF StartValue
  <1> HIDE DEF q
  <1>5. q.http_errno = "HPE_OK" => LastOK(q, last)
    BY <1>2, <1>3, LastKept DEF ValueStates
  <1> QED
    BY <1>1, <1>2, <1>3, <1>4, <1>5, StringBegins, MarkStatesOf DEF ByLast, ValueStates

\* A move between the states around a value, or an error.
LEMMA ValueMoved ==
    ASSUME Within, call.cur # NoByte, parser.state \in ValueStates \cup AfterValue, NEW p,
           Step(p) \/ Reexecute(p),
           p.http_errno = "HPE_OK" =>
              /\ p.flags = parser.flags
              /\ p.state # "s_header_value"
              /\ \/ p.state \in ValueStates
                 \/ parser.state \in AfterValue
                    /\ p.state \in AfterValue
    PROVE  StepImplements
  <1>1. p.http_errno = "HPE_OK" => Trailing(p) = Trailing(parser) /\ LastOK(p, last)
    BY LastKept DEF Trailing
  <1>2. p.http_errno = "HPE_OK" => p.state \in ByLast \ StringStates
    BY DEF ByLast, ValueStates, AfterValue, StringStates
  <1> QED
    BY <1>1, <1>2, HeadMoved DEF ByLast

LEMMA HeaderValueDiscardWsImplements ==
    ASSUME Within, HeaderValueDiscardWs PROVE StepImplements
  <1>1. /\ call.cur # NoByte /\ parser.state = "s_header_value_discard_ws"
        /\ parser.state \in ValueStates
    BY DEF HeaderValueDiscardWs, At, ValueStates
  <1>2. \/ Step(parser) \/ StartValue
        \/ \E s \in {"s_header_value_discard_ws_almost_done", "s_header_value_discard_lws"} :
              Step(Move(parser, s))
    BY DEF HeaderValueDiscardWs
  <1>3. CASE Step(parser)
    BY <1>1, <1>3, ValueMoved
  <1>4. CASE StartValue
    BY <1>1, <1>4, StartValueImplements
  <1>5. CASE \E s \in {"s_header_value_discard_ws_almost_done", "s_header_value_discard_lws"} :
                Step(Move(parser, s))
    BY <1>1, <1>5, MoveFacts, ValueMoved DEF ValueStates
  <1> QED
    BY <1>2, <1>3, <1>4, <1>5

LEMMA HeaderValueStartImplements ==
    ASSUME Within, HeaderValueStart PROVE StepImplements
  BY StartValueImplements DEF HeaderValueStart, At, ValueStates

LEMMA HeaderValueDiscardWsAlmostDoneImplements ==
    ASSUME Within, HeaderValueDiscardWsAlmostDone PROVE StepImplements
  <1>1. call.cur # NoByte /\ parser.state \in ValueStates
    BY DEF HeaderValueDiscardWsAlmostDone, At, ValueStates
  <1>2. Step(Move(parser, "s_header_value_discard_lws")) \/ Step(Error(parser, "HPE_STRICT"))
    BY DEF HeaderValueDiscardWsAlmostDone
  <1> QED
    BY <1>1, <1>2, MoveFacts, ValueMoved DEF ValueStates

LEMMA HeaderAlmostDoneImplements ==
    ASSUME Within, HeaderAlmostDone PROVE StepImplements
  <1>1. call.cur # NoByte /\ parser.state \in AfterValue
    BY DEF HeaderAlmostDone, At, AfterValue
  <1>2. Step(Move(parser, "s_header_value_lws")) \/ Step(Error(parser, "HPE_LF_EXPECTED"))
    BY DEF HeaderAlmostDone
  <1> QED
    BY <1>1, <1>2, MoveFacts, ValueMoved DEF AfterValue

\* The end of a header, where its flag is set.
LEMMA HeaderEnds ==
    ASSUME Within, NEW q,
           q = [Move(parser, "s_header_field_start") EXCEPT
                    !.flags = @ \cup FlagOf(parser.header_state)]
    PROVE  /\ q.state = "s_header_field_start" /\ q.http_errno = "HPE_OK"
           /\ Trailing(q) = Trailing(parser) /\ LastOK(q, "header_value")
  <1> DEFINE p == Move(parser, "s_header_field_start")
  <1>1. /\ p \in Parser /\ p.state = "s_header_field_start" /\ p.http_errno = "HPE_OK"
        /\ p.flags = parser.flags
    BY WithinFacts, MoveFacts DEF Move, Parser, State, HeaderPhaseStates
  <1> HIDE DEF p
  <1>2. /\ q.state = "s_header_field_start" /\ q.http_errno = "HPE_OK"
        /\ q.flags = parser.flags \cup FlagOf(parser.header_state)
    BY <1>1 DEF Parser, p
  <1>3. Trailing(q) = Trailing(parser)
    BY <1>2, FlagOfType, FlagAdded
  <1> QED
    BY <1>2, <1>3 DEF LastOK, LineStates, ValueStates, AfterValue

LEMMA HeaderValueLwsImplements ==
    ASSUME Within, HeaderValueLws PROVE StepImplements
  <1> DEFINE q == [Move(parser, "s_header_field_start") EXCEPT
                       !.flags = @ \cup FlagOf(parser.header_state)]
  <1>1. /\ call.cur # NoByte /\ parser.state \in AfterValue /\ parser.state \in ByLast
        /\ last = "header_value"
    BY WithinFacts DEF HeaderValueLws, At, AfterValue, ByLast, LastOK
  <1>2. CASE Reexecute(Move(parser, "s_header_value_start"))
    BY <1>1, <1>2, MoveFacts, ValueMoved DEF ValueStates
  <1>3. CASE Reexecute(q)
    <2> HIDE DEF q
    <2>1. /\ q.state = "s_header_field_start" /\ q.http_errno = "HPE_OK"
          /\ Trailing(q) = Trailing(parser) /\ LastOK(q, last)
      BY <1>1, HeaderEnds DEF q
    <2> QED
      BY <1>1, <1>3, <2>1, HeadMoved DEF ByLast, StringStates
  <1> QED
    BY <1>2, <1>3 DEF HeaderValueLws

\* An empty value is reported like any other.
LEMMA HeaderValueDiscardLwsImplements ==
    ASSUME Within, HeaderValueDiscardLws PROVE StepImplements
  <1> DEFINE q == [Move(parser, "s_header_field_start") EXCEPT
                       !.flags = @ \cup FlagOf(parser.header_state)]
             c == Marked(call, "header_value")
  <1>1. /\ call.cur # NoByte /\ parser.state \in ValueStates /\ parser.state \in ByLast
        /\ last \in {"header_field", "header_value"} /\ call \in Call
    BY WithinFacts DEF HeaderValueDiscardLws, At, ValueStates, ByLast, LastOK
  <1>2. CASE Step(Move(parser, "s_header_value_discard_ws"))
    BY <1>1, <1>2, MoveFacts, ValueMoved DEF ValueStates
  <1>3. CASE Data("header_value", 0, q, call.pos, c)
    <2>1. c.mark["header_value"] # 0
      BY <1>1, MaxLenAssumption DEF Marked, Call, DataCb
    <2> HIDE DEF q, c
    <2>2. /\ q.state = "s_header_field_start" /\ q.http_errno = "HPE_OK"
          /\ Trailing(q) = Trailing(parser) /\ LastOK(q, "header_value")
      BY HeaderEnds DEF q
    <2> QED
      BY <1>1, <1>3, <2>1, <2>2, StringEnds DEF Data, ByLast, StringStates
  <1> QED
    BY <1>2, <1>3 DEF HeaderValueDiscardLws

\* The state after a value.
LEMMA ValueEnds ==
    ASSUME Within, parser.state = "s_header_value",
           NEW q \in {Move(parser, "s_header_almost_done"),
                      Count(Move(parser, "s_header_almost_done"), call.run)}
    PROVE  /\ q.state = "s_header_almost_done"
           /\ Trailing(q) = Trailing(parser) /\ LastOK(q, "header_value")
           /\ q.state \in ByLast \ StringStates
  <1> DEFINE p == Move(parser, "s_header_almost_done")
  <1>1. /\ p \in Parser /\ p.state = "s_header_almost_done" /\ p.flags = parser.flags
        /\ call.run \in Nat
    BY WithinFacts, MoveFacts, Counted DEF Move, Parser, State, HeaderPhaseStates
  <1> HIDE DEF p
  <1>2. q.state = "s_header_almost_done" /\ q.flags = parser.flags
    BY <1>1 DEF Count, Parser, p
  <1> QED
    BY <1>2 DEF Trailing, LastOK, LineStates, ValueStates, AfterValue, ByLast, StringStates

\* In a value, the name or an earlier part of the value came last.
LEMMA InValueFacts ==
    ASSUME Within, At("s_header_value")
    PROVE  /\ call.cur # NoByte /\ call.cur \in Lexeme /\ parser.state = "s_header_value"
           /\ parser.state \in ByLast /\ parser.state \in MarkStates["header_value"]
           /\ parser.http_errno = "HPE_OK" /\ parser \in Parser /\ ParserInv(parser)
           /\ call \in Call
           /\ last \in {"header_field", "header_value"} /\ call.mark["header_value"] # 0
  <1>1. /\ call.cur # NoByte /\ call.cur \in Lexeme /\ parser.state = "s_header_value"
        /\ parser.state \in ByLast /\ parser.state \in MarkStates["header_value"]
        /\ parser.http_errno = "HPE_OK" /\ parser \in Parser /\ ParserInv(parser)
        /\ call \in Call
    BY WithinFacts, MarkStatesOf DEF At, ByLast, ValueStates, Call
  <1> QED
    BY <1>1, WithinFacts, OpenAt DEF LastOK, ValueStates

\* A CR ends a value.  If the header block proves too long, the callback has been made.
LEMMA HeaderValueCRImplements ==
    ASSUME Within, HeaderValueCR PROVE StepImplements
  <1> DEFINE p == Move(parser, "s_header_almost_done")
             q == Count(p, call.run)
  <1>1. /\ At("s_header_value")
        /\ DataThen("header_value", Length("header_value", call), p, call.pos + 1, q,
                    call.pos, NextByte)
    BY DEF HeaderValueCR, InValue
  <1>2. /\ NextByte.mark["header_value"] # 0 /\ parser.state \in ByLast
        /\ last \in {"header_field", "header_value"}
        /\ parser.state = "s_header_value"
    BY <1>1, InValueFacts, NextByteMarks
  <1>3. /\ Trailing(q) = Trailing(parser) /\ LastOK(q, "header_value")
        /\ q.state \in ByLast \ StringStates
    BY <1>2, ValueEnds
  <1> HIDE DEF p, q
  <1> QED
    BY <1>1, <1>2, <1>3, StringEnds

\* A LF ends a value: it fails before the callback, or makes it.
LEMMA HeaderValueLFImplements ==
    ASSUME Within, HeaderValueLF PROVE StepImplements
  <1> DEFINE p == Count(Move(parser, "s_header_almost_done"), call.run)
             c == [call EXCEPT !.run = 0]
  <1>1. /\ call.mark["header_value"] # 0 /\ parser.state \in ByLast /\ call \in Call
        /\ last \in {"header_field", "header_value"}
        /\ parser.state = "s_header_value"
    BY InValueFacts DEF HeaderValueLF, InValue
  <1>2. /\ Trailing(p) = Trailing(parser) /\ LastOK(p, "header_value")
        /\ p.state \in ByLast \ StringStates
    BY <1>1, ValueEnds
  <1>3. c.mark["header_value"] # 0
    BY <1>1 DEF Call
  <1>4. \/ p.http_errno # "HPE_OK" /\ cb' = NoCb /\ Return(p, call.pos)
        \/ /\ p.http_errno = "HPE_OK"
           /\ Data("header_value", Length("header_value", call), p, call.pos, c)
    BY DEF HeaderValueLF
  <1> HIDE DEF p, c
  <1>5. CASE p.http_errno # "HPE_OK" /\ cb' = NoCb /\ Return(p, call.pos)
    BY <1>5, FailStep DEF Return
  <1>6. CASE /\ p.http_errno = "HPE_OK"
             /\ Data("header_value", Length("header_value", call), p, call.pos, c)
    BY <1>1, <1>2, <1>3, <1>6, StringEnds DEF Data
  <1> QED
    BY <1>4, <1>5, <1>6

\* The bytes of a value that are looked at, and those that are skipped.
LEMMA HeaderValueByteImplements ==
    ASSUME Within, HeaderValueByte PROVE StepImplements
  <1> DEFINE q == ValueByte(parser, call.cur)
             c == [NextByte EXCEPT !.run = call.run + 1]
  <1>1. /\ call.cur # NoByte /\ call.cur \in Lexeme /\ parser.state = "s_header_value"
        /\ parser.state \in ByLast \cap MarkStates["header_value"]
        /\ parser.http_errno = "HPE_OK" /\ ParserInv(parser) /\ call \in Call
    BY InValueFacts DEF HeaderValueByte
  <1>2. q.state = "s_header_value"
    BY <1>1, ValueByteInv
  <1>3. Trailing(q) = Trailing(parser)
    BY ValueByteTrailing
  <1>4. c.mark = call.mark
    BY <1>1 DEF NextByte, Call
  <1>5. cb' = NoCb /\ parser' = q /\ (q.http_errno = "HPE_OK" => call' = c)
    BY Continued DEF HeaderValueByte
  <1> HIDE DEF q, c
  <1> QED
    BY <1>1, <1>2, <1>3, <1>4, <1>5, StringGoesOn

LEMMA HeaderValueSkipImplements ==
    ASSUME Within, HeaderValueSkip PROVE StepImplements
  <1> DEFINE Skip(k, ch) == [call EXCEPT !.pos = @ + k, !.run = @ + k, !.cur = ch]
  <1>1. /\ call.cur # NoByte /\ parser.state = "s_header_value"
        /\ parser.state \in ByLast \cap MarkStates["header_value"]
        /\ parser.http_errno = "HPE_OK" /\ call \in Call
    BY InValueFacts DEF HeaderValueSkip
  <1>2. cb' = NoCb /\ \E k, ch : Continue(parser, Skip(k, ch), call.pos)
    BY DEF HeaderValueSkip
  <1>3. \A k, ch : Skip(k, ch).mark = call.mark
    BY <1>1 DEF Call
  <1> HIDE DEF Skip
  <1>4. parser' = parser /\ call'.mark = call.mark
    BY <1>1, <1>2, <1>3, Continued
  <1> QED
    BY <1>1, <1>2, <1>4, StringGoesOn

\* The head of the loop: a byte is read, and perhaps counted.
LEMMA FetchImplements ==
    ASSUME Within, Fetch PROVE StepImplements
  <1> DEFINE p == Count(parser, 1)
             c(ch) == [call EXCEPT !.cur = ch]
  <1>1. /\ parser \in Parser /\ call \in Call /\ call.cur = NoByte /\ call.pos < call.len
        /\ StringOpen(parser, call) /\ call.active
    BY WithinFacts DEF Fetch
  <1>2. /\ p.state = parser.state /\ p.flags = parser.flags
        /\ p.content_length = parser.content_length
        /\ p.upgrade = parser.upgrade /\ p.status_code = parser.status_code
    BY <1>1 DEF Count, Parser
  <1>3. PICK q \in {p, parser}, ch \in Offered(parser) : cb' = NoCb /\ Continue(q, c(ch), call.pos)
    BY DEF Fetch
  <1>4. c(ch).mark = call.mark /\ c(ch).pos = call.pos
    BY <1>1 DEF Call
  <1> HIDE DEF c, p
  <1>5. /\ parser' = q /\ q.state = parser.state /\ q.flags = parser.flags
        /\ q.content_length = parser.content_length
        /\ q.upgrade = parser.upgrade /\ q.status_code = parser.status_code
    BY <1>2, <1>3, Continued
  <1>6. q.http_errno = "HPE_OK" => call' = c(ch)
    BY <1>3, Continued
  <1>7. call.pos # call.len
    BY <1>1, MaxLenAssumption DEF Call
  <1>8. q.http_errno = "HPE_OK" => StringOpen(parser', call')
    BY <1>1, <1>4, <1>5, <1>6, <1>7 DEF StringOpen
  <1>9. q.http_errno = "HPE_OK" => Owed(parser', call') = Owed(parser, call)
    BY <1>4, <1>5, <1>6 DEF Owed
  <1> QED
    BY <1>3, <1>5, <1>8, <1>9, SameStep

-----------------------------------------------------------------------------
(* The end of the headers and of messages *)

\* Outside the strings, the body bytes passed so far are all that is open.
LEMMA BodyOpen ==
    ASSUME Within,
           parser'.state \notin {"s_res_status", "s_header_field", "s_header_value"},
           call'.active => call'.mark["body"] <= call'.pos
    PROVE  StringOpen(parser', call')
  BY MarkStatesOf DEF StringOpen

\* In a state that reads no string, nothing is marked and nothing passed but undelivered.
LEMMA NothingOwed ==
    ASSUME Within, parser.state \notin StringStates
    PROVE  /\ \A f \in DataCb : call.mark[f] = 0
           /\ call.cur # NoByte => NextByte.mark["body"] = 0
           /\ Owed(parser, call) = parser.content_length
           /\ parser.content_length \in Nat
  <1>1. \A f \in DataCb : call.mark[f] = 0
    BY Unmarked DEF Within, PInv
  <1>2. call.mark["body"] = 0 /\ parser.content_length \in Nat
    BY <1>1, WithinFacts, MarkStatesOf DEF Parser
  <1> QED
    BY <1>1, <1>2, NextByteMarks DEF Owed

\* message_complete, from the end of a body or of headers without a body.
LEMMA MessageCompleteImplements ==
    ASSUME Within, NEW p, p.http_errno = "HPE_OK", p \in Parser, MessageComplete(p),
           phase = "done"
    PROVE  StepImplements
  <1> DEFINE q == NewMessage(p)
  <1>1. q.state \in {"s_start_res", "s_dead"} /\ q.http_errno = "HPE_OK"
    BY DEF NewMessage, Move, Parser
  <1> HIDE DEF q
  <1>2. PICK ret \in CbRet :
           /\ cb' = [for |-> "message_complete", at |-> 0, n |-> 0, ret |-> ret]
           /\ \/ Return(Called(q, q, ret), call.pos + 1)
              \/ Continue(Called(q, q, ret), NextByte, call.pos + 1)
    BY DEF MessageComplete, q
  <1>3. parser' = Called(q, q, ret)
    BY <1>2, Continued DEF Return
  <1>4. cb'.for = "message_complete" /\ cb'.ret = ret /\ last' = "message_complete"
    BY <1>2 DEF NoCb, Within
  <1>5. CASE ret = 0
    <2>1. parser' = q
      BY <1>3, <1>5 DEF Called
    <2>2. phase' = "idle"
      <3>1. PhaseFor(q, "message_complete", eof') = HeadPhaseOf("message_complete")
        BY <1>1, PhaseFacts
      <3>2. phase' = PhaseFor(q, "message_complete", eof')
        BY <1>4, <2>1, Mapping
      <3> QED
        BY <3>1, <3>2 DEF HeadPhaseOf
    <2>3. left' = 0
      BY <2>2, Mapping
    <2>4. Protocol!Next
      BY <1>4, <1>5, <2>2, <2>3
         DEF Protocol!Next, Protocol!MessageComplete, Protocol!Calls, Protocol!Then
    <2>5. LastOK(parser', last')
      BY <1>1, <1>4, <2>1 DEF LastOK, LineStates, ValueStates, AfterValue
    <2>6. StringOpen(parser', call')
      BY <1>1, <2>1, NoStringOpen DEF StringStates
    <2> QED
      BY <2>4, <2>5, <2>6 DEF StepImplements
  <1>6. CASE ret # 0
    <2>1. parser'.http_errno # "HPE_OK"
      BY <1>3, <1>6, WithinFacts DEF Called, Error, Parser
    <2> QED
      BY <1>4, <1>6, <2>1, RefusedStep
         DEF Protocol!Next, Protocol!MessageComplete, Protocol!Calls, Protocol!Then
  <1> QED
    BY <1>5, <1>6

LEMMA MessageDoneImplements ==
    ASSUME Within, MessageDone PROVE StepImplements
  <1>1. parser.state = "s_message_done" /\ parser.http_errno = "HPE_OK" /\ parser \in Parser
    BY WithinFacts DEF MessageDone, At
  <1>2. phase = "done"
    BY <1>1, PhaseFacts, Mapping
  <1> QED
    BY <1>1, <1>2, MessageCompleteImplements DEF MessageDone

\* A message whose body is skipped has none.
LEMMA BodyPhase ==
    ASSUME NEW p, p.content_length \in Nat
    PROVE  /\ BodyState(p) \in {"none", "s_chunk_size_start", "s_body_identity",
                                "s_body_identity_eof"}
           /\ PhaseOf(BodyState(p)) \in {"body", "close", "chunks", "done"}
           /\ PhaseOf(BodyState(p)) = "body" => p.content_length > 0
           /\ "F_SKIPBODY" \in p.flags => PhaseOf(BodyState(p)) = "done"
           /\ BodyState(p) = "none" => PhaseOf(BodyState(p)) = "done"
           /\ BodyState(p) = "s_chunk_size_start" => PhaseOf(BodyState(p)) = "chunks"
           /\ BodyState(p) = "s_body_identity" => PhaseOf(BodyState(p)) = "body"
           /\ BodyState(p) = "s_body_identity_eof" => PhaseOf(BodyState(p)) = "close"
  <1>1. /\ BodyState(p) \in {"none", "s_chunk_size_start", "s_body_identity",
                             "s_body_identity_eof"}
        /\ BodyState(p) = "s_body_identity" => p.content_length # 0
    BY BodyStateOf
  <1>2. "F_SKIPBODY" \in p.flags => BodyState(p) = "none"
    BY DEF BodyState
  <1> QED
    BY <1>1, <1>2 DEF PhaseOf

\* headers_complete announces the body, or that there is none.
LEMMA HeadersCompleteImplements ==
    ASSUME Within, NEW p \in Parser, p.http_errno = "HPE_OK", p.state = "s_headers_done",
           HeadersComplete(p), parser.state \notin StringStates,
           phase \in {"begun", "status", "value"}
    PROVE  StepImplements
  <1> DEFINE q1 == [p EXCEPT !.flags = @ \cup {"F_SKIPBODY"}]
             q2 == [p EXCEPT !.flags = @ \cup {"F_SKIPBODY"}, !.upgrade = TRUE]
             e  == Error(p, "HPE_CB")
  <1>1. /\ q1.http_errno = "HPE_OK" /\ q1.state = "s_headers_done" /\ "F_SKIPBODY" \in q1.flags
        /\ q2.http_errno = "HPE_OK" /\ q2.state = "s_headers_done" /\ "F_SKIPBODY" \in q2.flags
        /\ q1.content_length \in Nat /\ q2.content_length \in Nat
        /\ e.http_errno # "HPE_OK"
    BY DEF Parser, Error
  <1>2. PICK ret \in CbRet :
           /\ cb' = [for |-> "headers_complete", at |-> 0, n |-> 0, ret |-> ret]
           /\ Continue(CASE ret = 0 -> p [] ret = 1 -> q1 [] ret = 2 -> q2 [] OTHER -> e,
                       call, call.pos)
    BY DEF HeadersComplete
  <1> HIDE DEF q1, q2, e
  <1>3. cb'.for = "headers_complete" /\ cb'.ret = ret /\ last' = "headers_complete"
    BY <1>2 DEF NoCb, Within
  <1>4. CASE ret \in {0, 1, 2}
    <2>1. PICK q \in {p, q1, q2} :
             /\ parser' = q /\ call' = call
             /\ ret = 0 => q = p
             /\ ret # 0 => "F_SKIPBODY" \in q.flags
      <3>1. CASE ret = 0
        BY <1>2, <3>1, Continued
      <3>2. CASE ret = 1
        BY <1>1, <1>2, <3>2, Continued
      <3>3. CASE ret = 2
        BY <1>1, <1>2, <3>3, Continued
      <3> QED
        BY <1>4, <3>1, <3>2, <3>3
    <2>2. q.http_errno = "HPE_OK" /\ q.state = "s_headers_done" /\ q.content_length \in Nat
      BY <1>1, <2>1 DEF Parser
    <2>3. phase' = PhaseOf(BodyState(q))
      <3>1. PhaseFor(q, last', eof') = PhaseOf(BodyState(q))
        BY <2>2, PhaseFacts
      <3>2. phase' = PhaseFor(q, last', eof')
        BY <2>1, Mapping
      <3> QED
        BY <3>1, <3>2
    <2>4. Owed(parser', call') = q.content_length
      <3>1. call'.mark["body"] = 0
        BY <2>1, NothingOwed, MarkStatesOf
      <3> QED
        BY <2>1, <2>2, <3>1 DEF Owed
    <2>5. left' = IF phase' \in {"body", "chunk"} THEN q.content_length ELSE 0
      BY <2>1, <2>2, <2>4, Mapping
    <2>6. Protocol!HeadersComplete
      BY <1>3, <1>4, <2>1, <2>2, <2>3, <2>5, BodyPhase DEF Protocol!HeadersComplete, Protocol!Calls
    <2>7. LastOK(parser', last') /\ StringOpen(parser', call')
      BY <2>1, <2>2, NoStringOpen DEF LastOK, LineStates, ValueStates, AfterValue, StringStates
    <2> QED
      BY <2>6, <2>7 DEF StepImplements, Protocol!Next
  <1>5. CASE ret \notin {0, 1, 2}
    <2>1. parser' = e
      BY <1>2, <1>5, Continued
    <2> QED
      BY <1>1, <1>3, <1>5, <2>1, RefusedStep
         DEF Protocol!Next, Protocol!HeadersComplete, Protocol!Calls
  <1> QED
    BY <1>4, <1>5

\* s_headers_almost_done: the end of a trailer, or of the headers.
LEMMA HeadersAlmostDoneImplements ==
    ASSUME Within, HeadersAlmostDone PROVE StepImplements
  <1> DEFINE d == Move(parser, "s_message_done")
             up == {"F_UPGRADE", "F_CONNECTION_UPGRADE"} \subseteq parser.flags
             h == [Move(parser, "s_headers_done") EXCEPT !.upgrade = up]
  <1>1. /\ call.cur # NoByte /\ parser.state = "s_headers_almost_done"
        /\ parser.state \in ByLast /\ parser.state \notin StringStates
        /\ parser.http_errno = "HPE_OK" /\ parser \in Parser
        /\ last \in BeforeNames(parser) \cup {"header_value"}
    BY WithinFacts DEF HeadersAlmostDone, At, ByLast, StringStates, LastOK
  <1>2. phase = IF Trailing(parser) THEN TrailerPhaseOf(last) ELSE HeadPhaseOf(last)
    BY <1>1, HeadPhases, Mapping
  <1>3. CASE \E e \in {"HPE_STRICT", "HPE_UNEXPECTED_CONTENT_LENGTH"} : Step(Error(parser, e))
    BY <1>1, <1>3, MoveFacts, HeadMoved
  <1>4. CASE Trailing(parser) /\ Notify("chunk_complete", d, call, call.pos)
    <2>1. d.state = "s_message_done" /\ d.http_errno = "HPE_OK"
      BY MoveFacts
    <2> HIDE DEF d
    <2>2. /\ cb'.for = "chunk_complete" /\ last' = "chunk_complete"
          /\ cb'.ret = 0 => parser' = d
          /\ cb'.ret # 0 => parser'.http_errno # "HPE_OK"
      BY <1>4, Notified DEF NotifyCb
    <2>3. phase \in {"trailers", "tvalue"}
      BY <1>1, <1>2, <1>4 DEF TrailerPhaseOf, BeforeNames
    <2>4. CASE cb'.ret = 0
      <3>1. phase' = "done"
        BY <2>1, <2>2, <2>4, PhaseFacts, Mapping
      <3>2. left' = 0
        BY <3>1, Mapping
      <3>3. Protocol!Next
        BY <2>2, <2>3, <2>4, <3>1, <3>2
           DEF Protocol!Next, Protocol!ChunkComplete, Protocol!Calls, Protocol!Then
      <3>4. LastOK(parser', last') /\ StringOpen(parser', call')
        BY <2>1, <2>2, <2>4, NoStringOpen
           DEF LastOK, LineStates, ValueStates, AfterValue, StringStates
      <3> QED
        BY <3>3, <3>4 DEF StepImplements
    <2>5. CASE cb'.ret # 0
      BY <2>2, <2>3, <2>5, RefusedStep
         DEF Protocol!Next, Protocol!ChunkComplete, Protocol!Calls, Protocol!Then
    <2> QED
      BY <2>4, <2>5
  <1>5. CASE ~Trailing(parser) /\ HeadersComplete(h)
    <2>1. up \in BOOLEAN
      OBVIOUS
    <2> HIDE DEF up
    <2>2. h \in Parser /\ h.http_errno = "HPE_OK" /\ h.state = "s_headers_done"
      BY <1>1, <2>1 DEF Parser, Move, State, HeaderPhaseStates
    <2>3. phase \in {"begun", "status", "value"}
      BY <1>1, <1>2, <1>5 DEF HeadPhaseOf, BeforeNames
    <2> HIDE DEF h
    <2> QED
      BY <1>1, <1>5, <2>2, <2>3, HeadersCompleteImplements
  <1>6. \/ \E e \in {"HPE_STRICT", "HPE_UNEXPECTED_CONTENT_LENGTH"} : Step(Error(parser, e))
        \/ Trailing(parser) /\ Notify("chunk_complete", d, call, call.pos)
        \/ ~Trailing(parser) /\ HeadersComplete(h)
    BY DEF HeadersAlmostDone, Trailing
  <1> QED
    BY <1>3, <1>4, <1>5, <1>6

\* s_headers_done: on to the body that was announced, or the end of the message.
LEMMA HeadersDoneImplements ==
    ASSUME Within, HeadersDone PROVE StepImplements
  <1> DEFINE p == [parser EXCEPT !.nread = 0]
             q == Move(p, BodyState(p))
  <1>1. /\ call.cur # NoByte /\ parser.state = "s_headers_done"
        /\ parser.state \notin StringStates
        /\ parser.http_errno = "HPE_OK" /\ parser \in Parser
    BY WithinFacts DEF HeadersDone, At, StringStates
  <1>2. /\ p \in Parser /\ p.http_errno = "HPE_OK" /\ p.flags = parser.flags
        /\ p.content_length = parser.content_length /\ p.upgrade = parser.upgrade
        /\ p.status_code = parser.status_code
    BY <1>1 DEF Parser
  <1>3. \/ Step(Error(parser, "HPE_STRICT"))
        \/ BodyState(p) # "none" /\ Step(q)
        \/ BodyState(p) = "none" /\ MessageComplete(p)
    BY DEF HeadersDone
  <1> HIDE DEF p
  <1>4. BodyState(p) = BodyState(parser)
    BY <1>2 DEF BodyState, MessageNeedsEof
  <1>5. phase = PhaseOf(BodyState(p)) /\ PhaseFor(parser, last, FALSE) = PhaseOf(BodyState(p))
    BY <1>1, <1>4, PhaseFacts, Mapping
  <1>6. CASE Step(Error(parser, "HPE_STRICT"))
    BY <1>1, <1>6, MoveFacts, Stepped, FailStep
  <1>7. CASE BodyState(p) # "none" /\ Step(q)
    <2>1. /\ q.state = BodyState(p) /\ q.http_errno = "HPE_OK"
          /\ q.content_length = p.content_length
          /\ q.state \in {"s_chunk_size_start", "s_body_identity", "s_body_identity_eof"}
      BY <1>2, <1>7, BodyStateOf DEF Move, Parser
    <2> HIDE DEF q
    <2>2. cb' = NoCb /\ parser' = q /\ call'.mark = call.mark
      BY <1>1, <1>7, <2>1, Stepped
    <2>3. PhaseFor(q, last, FALSE) = PhaseOf(BodyState(p))
      <3>1. /\ PhaseOf("s_chunk_size_start") = "chunks" /\ PhaseOf("s_body_identity") = "body"
            /\ PhaseOf("s_body_identity_eof") = "close"
            /\ "s_chunk_size_start" \in ChunkSizeStates
        BY DEF PhaseOf, ChunkSizeStates
      <3>2. /\ q.state = "s_chunk_size_start" => PhaseFor(q, last, FALSE) = "chunks"
            /\ q.state = "s_body_identity" => PhaseFor(q, last, FALSE) = "body"
            /\ q.state = "s_body_identity_eof" => PhaseFor(q, last, FALSE) = "close"
        BY <2>1, <3>1, PhaseFacts
      <3> QED
        BY <2>1, <3>1, <3>2
    <2>4. Owed(parser', call') = Owed(parser, call)
      BY <1>1, <1>2, <2>1, <2>2, NothingOwed, MarkStatesOf DEF Owed
    <2>5. StringOpen(parser', call')
      <3>1. call'.active => call'.mark["body"] = 0 /\ call'.pos \in Nat
        BY <1>1, <2>2, NothingOwed, WithinFacts, MarkStatesOf, MaxLenAssumption DEF Call
      <3> QED
        BY <2>1, <2>2, <3>1, BodyOpen
    <2>6. LastOK(parser', last)
      BY <2>1, <2>2 DEF LastOK, LineStates, ValueStates, AfterValue
    <2> QED
      BY <1>1, <1>5, <2>1, <2>2, <2>3, <2>4, <2>5, <2>6, QuietStep
  <1>8. CASE BodyState(p) = "none" /\ MessageComplete(p)
    BY <1>2, <1>5, <1>8, MessageCompleteImplements DEF PhaseOf
  <1> QED
    BY <1>3, <1>6, <1>7, <1>8

-----------------------------------------------------------------------------
(* Bodies *)

\* The states that read a body say nothing of the last callback.
NoLast == {"s_headers_done", "s_body_identity", "s_body_identity_eof", "s_message_done"}
             \cup ChunkSizeStates \cup InChunk

LEMMA NoLastOK ==
    ASSUME NEW p, p.state \in NoLast, NEW l PROVE LastOK(p, l)
  BY DEF LastOK, NoLast, LineStates, ValueStates, AfterValue, ChunkSizeStates, InChunk

\* The mark of a body that has been set if it was not, and the offsets around it.
LEMMA BodyMark ==
    ASSUME Within, call.cur # NoByte, NEW c \in Call, c.mark = call.mark
    PROVE  /\ Marked(c, "body").mark["body"]
                 = (IF call.mark["body"] = 0 THEN call.pos + 1 ELSE call.mark["body"])
           /\ Marked(c, "body").pos = c.pos
           /\ call.pos \in Nat /\ call.len \in Nat /\ call.mark["body"] \in Nat
           /\ call.mark["body"] <= call.pos /\ call.pos < call.len
           /\ Marked(c, "body").mark["body"] \in Nat \ {0}
           /\ Marked(c, "body").mark["body"] <= call.pos + 1
           /\ Owed(parser, call)
                 = parser.content_length + (call.pos + 1 - Marked(c, "body").mark["body"])
           /\ parser.content_length \in Nat
  <1>1. /\ call \in Call /\ parser.content_length \in Nat /\ call.mark["body"] <= call.pos
        /\ call.pos < call.len
    BY WithinFacts DEF Within, StringOpen, Offsets, Parser
  <1>2. /\ call.pos \in Nat /\ call.len \in Nat /\ call.mark["body"] \in Nat
        /\ "body" \in DOMAIN c.mark /\ "mark" \in DOMAIN c /\ "pos" \in DOMAIN c
    BY <1>1, MaxLenAssumption DEF Call, DataCb
  <1>3. /\ Marked(c, "body").mark["body"]
              = (IF call.mark["body"] = 0 THEN call.pos + 1 ELSE call.mark["body"])
        /\ Marked(c, "body").pos = c.pos
    BY <1>2 DEF Marked, Call
  <1> QED
    BY <1>1, <1>2, <1>3 DEF Owed

\* s_body_identity: all the bytes announced have come, or more are to come.
LEMMA BodyIdentityImplements ==
    ASSUME Within, BodyIdentity PROVE StepImplements
  <1> DEFINE p == [parser EXCEPT !.content_length = parser.content_length - ToRead]
             a == Advance(ToRead)
             c == Marked(a, "body")
             d == [c EXCEPT !.pos = @ + 1, !.cur = NoByte]
             q == Move(p, "s_message_done")
             m == c.mark["body"]
  <1>1. /\ call.cur # NoByte /\ parser.state = "s_body_identity" /\ parser \in Parser
        /\ At("s_body_identity") /\ call \in Call /\ IInv /\ parser.http_errno = "HPE_OK"
    BY WithinFacts DEF BodyIdentity, At, Within, PInv
  <1>2. /\ ToRead \in Nat /\ ToRead >= 1 /\ call.pos + ToRead <= call.len
        /\ p \in Parser /\ p.state = "s_body_identity" /\ p.http_errno = "HPE_OK"
    BY <1>1, ToReadInv
  <1>3. p.content_length = parser.content_length - ToRead
    BY <1>1 DEF Parser
  <1>4. a \in Call /\ a.mark = call.mark /\ a.pos = call.pos + ToRead - 1
    <2>1. call.pos + ToRead - 1 \in 0..MaxLen
      BY <1>1, <1>2, MaxLenAssumption DEF Call
    <2>2. a = [call EXCEPT !.pos = call.pos + ToRead - 1]
      BY DEF Advance
    <2> HIDE DEF a
    <2> QED
      BY <1>1, <2>1, <2>2 DEF Call
  <1>5. /\ q.state = "s_message_done" /\ q.http_errno = "HPE_OK"
    BY <1>2 DEF Move, Parser
  <1> HIDE DEF p, q, a
  <1>6. /\ m = (IF call.mark["body"] = 0 THEN call.pos + 1 ELSE call.mark["body"])
        /\ c.pos = call.pos + ToRead - 1
        /\ m \in Nat \ {0} /\ m <= call.pos + 1 /\ call.pos \in Nat
        /\ Owed(parser, call) = parser.content_length + (call.pos + 1 - m)
        /\ parser.content_length \in Nat
    BY <1>1, <1>4, BodyMark
  <1>7. d.pos = call.pos + ToRead /\ d.mark = c.mark
    BY <1>2, <1>4, <1>6 DEF Marked, Call
  <1>8. phase = "body" /\ left = Owed(parser, call) /\ PhaseFor(parser, last, FALSE) = "body"
    BY <1>1, PhaseFacts, Mapping
  <1>9. CASE /\ p.content_length = 0
             /\ Data("body", c.pos + 2 - m, q, c.pos, c)
    <2> HIDE DEF c
    <2>1. "body" \in DataCb
      BY DEF DataCb
    <2>2. /\ cb'.for = "body" /\ cb'.n = c.pos + 2 - m
          /\ cb'.ret = 0 => parser' = q
          /\ cb'.ret # 0 => parser'.http_errno # "HPE_OK"
      BY <1>6, <1>9, <2>1, Delivered DEF Data
    <2>3. cb'.n = left /\ cb'.n > 0
      BY <1>2, <1>3, <1>6, <1>8, <1>9, <2>2
    <2>4. CASE cb'.ret = 0
      <3>1. phase' = "done" /\ left' = 0
        BY <1>5, <2>2, <2>4, PhaseFacts, Mapping
      <3>2. Protocol!Next
        BY <1>8, <2>2, <2>3, <2>4, <3>1
           DEF Protocol!Next, Protocol!Body, Protocol!Calls, Protocol!Then
      <3>3. LastOK(parser', last') /\ StringOpen(parser', call')
        BY <1>5, <2>2, <2>4, NoLastOK, NoStringOpen DEF NoLast, StringStates
      <3> QED
        BY <3>2, <3>3 DEF StepImplements
    <2>5. CASE cb'.ret # 0
      BY <1>8, <2>2, <2>3, <2>5, RefusedStep
         DEF Protocol!Next, Protocol!Body, Protocol!Calls, Protocol!Then
    <2> QED
      BY <2>4, <2>5
  <1>10. CASE cb' = NoCb /\ Continue(p, d, call.pos)
    <2> HIDE DEF c, d
    <2>1. parser' = p /\ call' = d
      BY <1>2, <1>10, Continued
    <2>2. Owed(parser', call') = Owed(parser, call)
      BY <1>2, <1>3, <1>6, <1>7, <2>1 DEF Owed
    <2>3. PhaseFor(parser', last, FALSE) = "body"
      BY <1>2, <2>1, PhaseFacts
    <2>4. StringOpen(parser', call')
      <3>1. call'.mark["body"] <= call'.pos
        BY <1>2, <1>6, <1>7, <2>1
      <3> QED
        BY <1>2, <2>1, <3>1, BodyOpen
    <2>5. LastOK(parser', last)
      BY <1>2, <2>1, NoLastOK DEF NoLast
    <2> QED
      BY <1>1, <1>2, <1>8, <1>10, <2>1, <2>2, <2>3, <2>4, <2>5, QuietStep
  <1> QED
    BY <1>9, <1>10 DEF BodyIdentity, p, q, a

\* s_body_identity_eof: the rest of the buffer belongs to the body.
LEMMA BodyIdentityEofImplements ==
    ASSUME Within, BodyIdentityEof PROVE StepImplements
  <1> DEFINE c == Marked(call, "body")
             d == [c EXCEPT !.pos = call.len, !.cur = NoByte]
  <1>1. /\ call.cur # NoByte /\ parser.state = "s_body_identity_eof" /\ call \in Call
        /\ parser.http_errno = "HPE_OK" /\ cb' = NoCb /\ Continue(parser, d, call.pos)
    BY WithinFacts DEF BodyIdentityEof, At
  <1>2. /\ c.mark["body"] \in Nat /\ c.mark["body"] <= call.pos + 1
        /\ call.pos \in Nat /\ call.len \in Nat /\ call.pos < call.len
    BY <1>1, BodyMark
  <1>3. d.pos = call.len /\ d.mark = c.mark
    BY <1>1 DEF Marked, Call
  <1> HIDE DEF c, d
  <1>4. parser' = parser /\ call' = d
    BY <1>1, Continued
  <1>5. StringOpen(parser', call')
    <2>1. call'.mark["body"] <= call'.pos
      BY <1>2, <1>3, <1>4
    <2> QED
      BY <1>1, <1>4, <2>1, BodyOpen
  <1>6. PhaseFor(parser, last, FALSE) = "close" /\ LastOK(parser', last)
    BY <1>1, <1>4, PhaseFacts, NoLastOK DEF NoLast
  <1> QED
    BY <1>1, <1>4, <1>5, <1>6, QuietStep

\* A step within the size line of a chunk.
LEMMA SizeLineImplements ==
    ASSUME Within, call.cur # NoByte, parser.state \in ChunkSizeStates, NEW p, Step(p),
           p.http_errno = "HPE_OK" => p.state \in ChunkSizeStates
    PROVE  StepImplements
  <1>1. cb' = NoCb /\ parser' = p
    BY Stepped
  <1>2. PhaseFor(parser, last, FALSE) = "chunks"
    BY WithinFacts, PhaseFacts
  <1>3. ASSUME p.http_errno = "HPE_OK"
        PROVE  /\ PhaseFor(p, last, FALSE) = "chunks" /\ LastOK(p, last)
               /\ StringOpen(parser', call')
    <2>1. p.state \in NoLast /\ p.state \notin StringStates
      BY <1>3 DEF NoLast, ChunkSizeStates, StringStates
    <2> QED
      BY <1>1, <1>3, <2>1, PhaseFacts, NoLastOK, NoStringOpen
  <1> QED
    BY <1>1, <1>2, <1>3, QuietStep

LEMMA ChunkSizeStartImplements ==
    ASSUME Within, ChunkSizeStart PROVE StepImplements
  <1> DEFINE q == [Move(parser, "s_chunk_size") EXCEPT !.content_length = call.cur.v]
  <1>1. call.cur # NoByte /\ parser.state \in ChunkSizeStates /\ parser \in Parser
    BY WithinFacts DEF ChunkSizeStart, At, ChunkSizeStates
  <1>2. q.state = "s_chunk_size"
    BY <1>1 DEF Move, Parser
  <1>3. Step(q) \/ Step(Error(parser, "HPE_INVALID_CHUNK_SIZE"))
    BY DEF ChunkSizeStart
  <1> HIDE DEF q
  <1> QED
    BY <1>1, <1>2, <1>3, MoveFacts, SizeLineImplements DEF ChunkSizeStates

LEMMA ChunkSizeImplements ==
    ASSUME Within, ChunkSize PROVE StepImplements
  <1> DEFINE q == [parser EXCEPT !.content_length = @ * 16 + call.cur.v]
  <1>1. call.cur # NoByte /\ parser.state \in ChunkSizeStates /\ parser \in Parser
    BY WithinFacts DEF ChunkSize, At, ChunkSizeStates
  <1>2. q.state = parser.state
    BY <1>1 DEF Parser
  <1>3. \/ Step(q)
        \/ \E s \in {"s_chunk_size_almost_done", "s_chunk_parameters"} : Step(Move(parser, s))
        \/ \E e \in {"HPE_INVALID_CONTENT_LENGTH", "HPE_INVALID_CHUNK_SIZE"} :
              Step(Error(parser, e))
    BY DEF ChunkSize
  <1> HIDE DEF q
  <1> QED
    BY <1>1, <1>2, <1>3, MoveFacts, SizeLineImplements DEF ChunkSizeStates

LEMMA ChunkParametersImplements ==
    ASSUME Within, ChunkParameters PROVE StepImplements
  <1>1. call.cur # NoByte /\ parser.state \in ChunkSizeStates
    BY DEF ChunkParameters, At, ChunkSizeStates
  <1>2. Step(Move(parser, "s_chunk_size_almost_done")) \/ Step(parser)
    BY DEF ChunkParameters
  <1> QED
    BY <1>1, <1>2, MoveFacts, SizeLineImplements DEF ChunkSizeStates

\* s_chunk_size_almost_done: a chunk is announced, or the trailer begins.
LEMMA ChunkSizeAlmostDoneImplements ==
    ASSUME Within, ChunkSizeAlmostDone PROVE StepImplements
  <1> DEFINE p == [parser EXCEPT !.nread = 0]
             t == [Move(p, "s_header_field_start") EXCEPT !.flags = @ \cup {"F_TRAILING"}]
             d == Move(p, "s_chunk_data")
  <1>1. /\ call.cur # NoByte /\ parser.state = "s_chunk_size_almost_done" /\ parser \in Parser
        /\ parser.http_errno = "HPE_OK" /\ parser.state \notin StringStates
        /\ parser.content_length \in Nat
    BY WithinFacts DEF ChunkSizeAlmostDone, At, StringStates, Parser
  <1>2. phase = "chunks"
    BY <1>1, PhaseFacts, Mapping DEF ChunkSizeStates
  <1>3. /\ t.state = "s_header_field_start" /\ t.http_errno = "HPE_OK" /\ Trailing(t)
        /\ d.state = "s_chunk_data" /\ d.http_errno = "HPE_OK"
        /\ d.content_length = parser.content_length /\ p.content_length = parser.content_length
        /\ Error(p, "HPE_STRICT").http_errno # "HPE_OK"
    BY <1>1 DEF Parser, Move, Error, Trailing
  <1>4. \/ Step(Error(parser, "HPE_STRICT")) \/ Step(Error(p, "HPE_STRICT"))
        \/ Notify("chunk_header", t, NextByte, call.pos + 1)
        \/ parser.content_length # 0 /\ Notify("chunk_header", d, NextByte, call.pos + 1)
    BY <1>3 DEF ChunkSizeAlmostDone
  <1> HIDE DEF p, t, d
  <1>5. CASE Step(Error(parser, "HPE_STRICT")) \/ Step(Error(p, "HPE_STRICT"))
    BY <1>1, <1>3, <1>5, MoveFacts, Stepped, FailStep
  <1>6. ASSUME NEW q, Notify("chunk_header", q, NextByte, call.pos + 1)
        PROVE  /\ cb'.for = "chunk_header" /\ last' = "chunk_header"
               /\ cb'.ret = 0 => parser' = q /\ (q.http_errno = "HPE_OK" => call' = NextByte)
               /\ cb'.ret # 0 => parser'.http_errno # "HPE_OK"
    BY <1>6, Notified DEF NotifyCb
  <1>7. CASE cb'.for = "chunk_header" /\ cb'.ret # 0 /\ parser'.http_errno # "HPE_OK"
    BY <1>2, <1>7, RefusedStep
       DEF Protocol!Next, Protocol!ChunkHeader, Protocol!Calls, Protocol!Then
  <1>8. CASE /\ cb'.for = "chunk_header" /\ last' = "chunk_header" /\ cb'.ret = 0
             /\ parser' = t
    <2>1. phase' = "trailers" /\ left' = 0
      <3>1. t.state \in ByLast
        BY <1>3 DEF ByLast
      <3>2. PhaseFor(t, "chunk_header", eof') = TrailerPhaseOf("chunk_header")
        BY <1>3, <3>1, HeadPhases
      <3>3. phase' = "trailers"
        BY <1>8, <3>2, Mapping DEF TrailerPhaseOf
      <3> QED
        BY <3>3, Mapping
    <2>2. Protocol!Next
      BY <1>2, <1>8, <2>1
         DEF Protocol!Next, Protocol!ChunkHeader, Protocol!Calls, Protocol!Then
    <2>3. LastOK(parser', last')
      BY <1>3, <1>8 DEF LastOK, LineStates, ValueStates, AfterValue, BeforeNames
    <2>4. StringOpen(parser', call')
      BY <1>3, <1>8, NoStringOpen DEF StringStates
    <2> QED
      BY <2>2, <2>3, <2>4 DEF StepImplements
  <1>9. CASE /\ cb'.for = "chunk_header" /\ cb'.ret = 0
             /\ parser' = d /\ call' = NextByte /\ parser.content_length # 0
    <2>1. call'.mark["body"] = 0
      BY <1>1, <1>9, NothingOwed
    <2>2. phase' = "chunk"
      BY <1>3, <1>9, PhaseFacts, Mapping DEF InChunk
    <2>3. left' = parser.content_length
      BY <1>1, <1>3, <1>9, <2>1, <2>2, Mapping DEF Owed
    <2>4. Protocol!Next
      BY <1>1, <1>2, <1>9, <2>2, <2>3 DEF Protocol!Next, Protocol!ChunkHeader, Protocol!Calls
    <2>5. LastOK(parser', last')
      BY <1>3, <1>9, NoLastOK DEF NoLast, InChunk
    <2>6. StringOpen(parser', call')
      <3>1. call'.pos = call.pos + 1 /\ call.pos \in Nat
        BY <1>1, <1>9, NextByteMarks, WithinFacts, MaxLenAssumption DEF Call
      <3> QED
        BY <1>3, <1>9, <2>1, <3>1, BodyOpen
    <2> QED
      BY <2>4, <2>5, <2>6 DEF StepImplements
  <1> QED
    BY <1>3, <1>4, <1>5, <1>6, <1>7, <1>8, <1>9

\* s_chunk_data: the chunk's bytes in this buffer are passed over.
LEMMA ChunkDataImplements ==
    ASSUME Within, ChunkData PROVE StepImplements
  <1> DEFINE p == [parser EXCEPT !.content_length = parser.content_length - ToRead]
             q == IF p.content_length = 0 THEN Move(p, "s_chunk_data_almost_done") ELSE p
             c == Marked(call, "body")
             d == [c EXCEPT !.pos = @ + ToRead, !.cur = NoByte]
             m == c.mark["body"]
  <1>1. /\ call.cur # NoByte /\ parser.state = "s_chunk_data" /\ parser \in Parser
        /\ At("s_chunk_data") /\ call \in Call /\ IInv /\ parser.http_errno = "HPE_OK"
        /\ cb' = NoCb /\ Continue(q, d, call.pos)
    BY WithinFacts DEF ChunkData, At, Within, PInv
  <1>2. /\ ToRead \in Nat /\ ToRead >= 1 /\ call.pos + ToRead <= call.len
        /\ p \in Parser /\ p.state = "s_chunk_data" /\ p.http_errno = "HPE_OK"
    BY <1>1, ToReadInv
  <1>3. p.content_length = parser.content_length - ToRead
    BY <1>1 DEF Parser
  <1> HIDE DEF p
  <1>4. /\ q.state \in {"s_chunk_data", "s_chunk_data_almost_done"}
        /\ q.http_errno = "HPE_OK" /\ q.content_length = p.content_length
    BY <1>2 DEF Move, Parser
  <1> HIDE DEF q
  <1>5. /\ m = (IF call.mark["body"] = 0 THEN call.pos + 1 ELSE call.mark["body"])
        /\ m \in Nat \ {0} /\ m <= call.pos + 1 /\ call.pos \in Nat
        /\ Owed(parser, call) = parser.content_length + (call.pos + 1 - m)
        /\ parser.content_length \in Nat
    BY <1>1, BodyMark
  <1>6. d.pos = call.pos + ToRead /\ d.mark = c.mark
    BY <1>1 DEF Marked, Call
  <1> HIDE DEF c, d
  <1>7. parser' = q /\ call' = d
    BY <1>1, <1>4, Continued
  <1>8. Owed(parser', call') = Owed(parser, call)
    BY <1>2, <1>3, <1>4, <1>5, <1>6, <1>7 DEF Owed
  <1>9. PhaseFor(parser, last, FALSE) = "chunk" /\ PhaseFor(parser', last, FALSE) = "chunk"
    BY <1>1, <1>4, <1>7, PhaseFacts DEF InChunk
  <1>10. StringOpen(parser', call')
    <2>1. call'.mark["body"] <= call'.pos
      BY <1>2, <1>5, <1>6, <1>7
    <2> QED
      BY <1>4, <1>7, <2>1, BodyOpen
  <1>11. LastOK(parser', last)
    BY <1>4, <1>7, NoLastOK DEF NoLast, InChunk
  <1> QED
    BY <1>1, <1>4, <1>7, <1>8, <1>9, <1>10, <1>11, QuietStep

\* s_chunk_data_almost_done: what this buffer holds of the chunk is delivered, if anything.
LEMMA ChunkDataAlmostDoneImplements ==
    ASSUME Within, ChunkDataAlmostDone PROVE StepImplements
  <1> DEFINE q == Move(parser, "s_chunk_data_done")
  <1>1. /\ call.cur # NoByte /\ parser.state = "s_chunk_data_almost_done" /\ call \in Call
        /\ parser.http_errno = "HPE_OK" /\ parser.content_length = 0 /\ "body" \in DataCb
    BY WithinFacts DEF ChunkDataAlmostDone, At, ParserInv, LengthInv, DataCb
  <1>2. q.state = "s_chunk_data_done" /\ q.http_errno = "HPE_OK"
    BY MoveFacts
  <1>3. phase = "chunk" /\ left = Owed(parser, call)
    BY <1>1, PhaseFacts, Mapping DEF InChunk
  <1>4. NextByte.mark["body"] = call.mark["body"]
    BY <1>1, NextByteMarks
  <1>5. \/ Step(Error(parser, "HPE_STRICT"))
        \/ DataThen("body", Length("body", call), q, call.pos + 1, q, call.pos + 1, NextByte)
    BY DEF ChunkDataAlmostDone, Data
  <1> HIDE DEF q
  <1>6. CASE Step(Error(parser, "HPE_STRICT"))
    BY <1>1, <1>6, MoveFacts, Stepped, FailStep
  <1>7. ASSUME parser' = q
        PROVE  phase' = "chunk" /\ left' = 0 /\ StringOpen(parser', call') /\ LastOK(parser', last')
    <2>1. phase' = "chunk"
      BY <1>2, <1>7, PhaseFacts, Mapping DEF InChunk
    <2>2. left' = 0
      BY <1>2, <1>7, Mapping
    <2>3. StringOpen(parser', call') /\ LastOK(parser', last')
      BY <1>2, <1>7, NoStringOpen, NoLastOK DEF NoLast, InChunk, StringStates
    <2> QED
      BY <2>1, <2>2, <2>3
  <1>8. CASE /\ call.mark["body"] # 0
             /\ DataThen("body", Length("body", call), q, call.pos + 1, q, call.pos + 1, NextByte)
    <2>1. /\ cb'.for = "body" /\ cb'.n = Length("body", call)
          /\ cb'.ret = 0 => parser' = q
          /\ cb'.ret # 0 => parser'.http_errno # "HPE_OK"
      BY <1>1, <1>4, <1>8, Delivered
    <2>2. /\ call.mark["body"] \in Nat /\ call.pos \in Nat /\ call.mark["body"] <= call.pos
      BY <1>1, BodyMark
    <2>3. cb'.n > 0 /\ cb'.n = left
      BY <1>1, <1>3, <1>8, <2>1, <2>2 DEF Length, Owed
    <2>4. CASE cb'.ret = 0
      <3>1. left \in Nat /\ left - cb'.n = 0 /\ cb'.n <= left
        BY <1>1, <1>3, <1>8, <2>2, <2>3 DEF Owed
      <3>2. Protocol!Next
        BY <1>3, <1>7, <2>1, <2>3, <2>4, <3>1
           DEF Protocol!Next, Protocol!Body, Protocol!Calls, Protocol!Then
      <3> QED
        BY <1>7, <2>1, <2>4, <3>2 DEF StepImplements
    <2>5. CASE cb'.ret # 0
      <3>1. left \in Nat /\ cb'.n <= left
        BY <1>1, <1>3, <1>8, <2>2, <2>3 DEF Owed
      <3> QED
        BY <1>3, <2>1, <2>3, <2>5, <3>1, RefusedStep
           DEF Protocol!Next, Protocol!Body, Protocol!Calls, Protocol!Then
    <2> QED
      BY <2>4, <2>5
  <1>9. CASE /\ call.mark["body"] = 0
             /\ DataThen("body", Length("body", call), q, call.pos + 1, q, call.pos + 1, NextByte)
    <2>1. cb' = NoCb /\ parser' = q
      BY <1>4, <1>9, Continued DEF DataThen
    <2>2. left = 0
      BY <1>1, <1>3, <1>9 DEF Owed
    <2>3. Protocol!Next
      BY <1>3, <1>7, <2>1, <2>2 DEF Protocol!Next, Protocol!Quiet
    <2> QED
      BY <1>7, <2>1, <2>3 DEF StepImplements
  <1> QED
    BY <1>5, <1>6, <1>8, <1>9

\* s_chunk_data_done: the chunk is complete, and nothing of it is owed.
LEMMA ChunkDataDoneImplements ==
    ASSUME Within, ChunkDataDone PROVE StepImplements
  <1> DEFINE q == [Move(parser, "s_chunk_size_start") EXCEPT !.nread = 0]
  <1>1. /\ call.cur # NoByte /\ parser.state = "s_chunk_data_done" /\ parser \in Parser
        /\ parser.http_errno = "HPE_OK"
    BY WithinFacts DEF ChunkDataDone, At
  <1>2. q.state = "s_chunk_size_start" /\ q.http_errno = "HPE_OK"
    BY <1>1 DEF Move, Parser
  <1>3. phase = "chunk" /\ left = 0
    BY <1>1, PhaseFacts, Mapping DEF InChunk
  <1>4. \/ Step(Error(parser, "HPE_STRICT"))
        \/ Notify("chunk_complete", q, NextByte, call.pos + 1)
    BY DEF ChunkDataDone
  <1> HIDE DEF q
  <1>5. CASE Step(Error(parser, "HPE_STRICT"))
    BY <1>1, <1>5, MoveFacts, Stepped, FailStep
  <1>6. CASE Notify("chunk_complete", q, NextByte, call.pos + 1)
    <2>1. /\ cb'.for = "chunk_complete"
          /\ cb'.ret = 0 => parser' = q
          /\ cb'.ret # 0 => parser'.http_errno # "HPE_OK"
      BY <1>6, Notified DEF NotifyCb
    <2>2. CASE cb'.ret = 0
      <3>1. phase' = "chunks"
        BY <1>2, <2>1, <2>2, PhaseFacts, Mapping DEF ChunkSizeStates
      <3>2. left' = 0
        BY <3>1, Mapping
      <3>3. Protocol!Next
        BY <1>3, <2>1, <2>2, <3>1, <3>2
           DEF Protocol!Next, Protocol!ChunkComplete, Protocol!Calls, Protocol!Then
      <3>4. LastOK(parser', last') /\ StringOpen(parser', call')
        BY <1>2, <2>1, <2>2, NoStringOpen, NoLastOK DEF NoLast, ChunkSizeStates, StringStates
      <3> QED
        BY <3>3, <3>4 DEF StepImplements
    <2>3. CASE cb'.ret # 0
      BY <1>3, <2>1, <2>3, RefusedStep
         DEF Protocol!Next, Protocol!ChunkComplete, Protocol!Calls, Protocol!Then
    <2> QED
      BY <2>2, <2>3
  <1> QED
    BY <1>4, <1>5, <1>6

-----------------------------------------------------------------------------
(* The end of the buffer *)

\* What is still open of a status, name or value is delivered.
LEMMA OpenStringDelivered ==
    ASSUME Within, NEW f \in {"status", "header_field", "header_value"}, call.mark[f] # 0,
           call.cur = NoByte, call.pos = call.len, call.run = 0,
           Data(f, Length(f, call), parser, call.len, call)
    PROVE  StepImplements
  <1> DEFINE c == [call EXCEPT !.mark[f] = 0]
  <1>1. /\ f \in DataCb /\ parser.state \in MarkStates[f] /\ LastOK(parser, last)
        /\ parser.http_errno = "HPE_OK" /\ call \in Call /\ call.mark["body"] <= call.pos
    BY WithinFacts DEF MarkInv, DataCb, Within, StringOpen
  <1>2. /\ cb'.for = f /\ last' = f
        /\ cb'.ret = 0 => parser' = parser /\ call' = c
        /\ cb'.ret # 0 => parser'.http_errno # "HPE_OK"
    BY <1>1, Delivered DEF Data
  <1>3. /\ parser.state \in {"s_res_status", "s_header_field", "s_header_value"}
        /\ f = "status" <=> parser.state = "s_res_status"
        /\ f = "header_field" <=> parser.state = "s_header_field"
        /\ f = "header_value" <=> parser.state = "s_header_value"
    BY <1>1, MarkStatesOf
  <1>4. parser.state \in ByLast
    BY <1>3 DEF ByLast, LineStates, ValueStates
  <1>5. /\ f = "status" => last \in {"message_begin", "status"} /\ ~Trailing(parser)
        /\ f = "header_field"
              => last \in BeforeNames(parser) \cup {"header_field", "header_value"}
        /\ f = "header_value" => last \in {"header_field", "header_value"}
    BY <1>1, <1>3 DEF LastOK, LineStates, ValueStates
  <1>6. Protocol!Next
    BY <1>1, <1>2, <1>4, <1>5, HeadCallback
  <1>7. LastOK(parser', last')
    BY <1>2, <1>3, <1>5 DEF LastOK, LineStates, ValueStates, AfterValue
  <1>8. StringOpen(parser', call')
    <2>1. /\ c.cur = NoByte /\ c.pos = c.len /\ c.run = 0 /\ c.mark["body"] = call.mark["body"]
          /\ c.pos = call.pos
      BY <1>1 DEF Call, DataCb
    <2> HIDE DEF c
    <2>2. CASE cb'.ret = 0
      BY <1>1, <1>2, <2>1, <2>2 DEF StringOpen
    <2>3. CASE cb'.ret # 0
      BY <1>2, <2>3, WithinFacts DEF StringOpen
    <2> QED
      BY <2>2, <2>3
  <1> QED
    BY <1>6, <1>7, <1>8 DEF StepImplements

\* What has been passed of a body or chunk is delivered; the rest of it is still owed.
LEMMA OpenBodyDelivered ==
    ASSUME Within, call.mark["body"] # 0, call.cur = NoByte, call.pos = call.len,
           call.run = 0, Data("body", Length("body", call), parser, call.len, call)
    PROVE  StepImplements
  <1> DEFINE c == [call EXCEPT !.mark["body"] = 0]
             rest == IF phase \in {"body", "chunk"} THEN parser.content_length ELSE 0
  <1>1. /\ "body" \in DataCb /\ parser.state \in MarkStates["body"]
        /\ parser.http_errno = "HPE_OK" /\ call \in Call /\ call.mark["body"] <= call.pos
        /\ parser.content_length \in Nat
    BY WithinFacts DEF MarkInv, DataCb, Within, StringOpen, Parser
  <1>2. /\ cb'.for = "body" /\ cb'.n = Length("body", call)
        /\ cb'.ret = 0 => parser' = parser /\ call' = c
        /\ cb'.ret # 0 => parser'.http_errno # "HPE_OK"
    BY <1>1, Delivered DEF Data
  <1>3. parser.state \in {"s_body_identity", "s_body_identity_eof", "s_chunk_data",
                          "s_chunk_data_almost_done"}
    BY <1>1, MarkStatesOf
  <1>4. /\ phase = PhaseFor(parser, last, FALSE) /\ eof' = FALSE
        /\ phase \in {"body", "chunk", "close"}
        /\ \A l : PhaseFor(parser, l, FALSE) = phase
    <2>1. ASSUME NEW l
          PROVE  /\ parser.state = "s_body_identity" => PhaseFor(parser, l, FALSE) = "body"
                 /\ parser.state = "s_body_identity_eof" => PhaseFor(parser, l, FALSE) = "close"
                 /\ parser.state \in InChunk => PhaseFor(parser, l, FALSE) = "chunk"
      BY <1>1, PhaseFacts
    <2>2. phase = PhaseFor(parser, last, FALSE) /\ eof' = FALSE
      BY WithinFacts, Mapping
    <2> QED
      BY <1>3, <2>1, <2>2 DEF InChunk
  <1>5. call.pos \in Nat /\ call.mark["body"] \in Nat
    BY <1>1, MaxLenAssumption DEF Call
  <1>6. cb'.n > 0 /\ cb'.n \in Nat
    BY <1>1, <1>2, <1>5 DEF Length
  <1>7. phase \in {"body", "chunk"} => left = rest + cb'.n
    BY <1>1, <1>2, <1>3, <1>5, Mapping DEF Length, Owed
  <1>8. rest \in Nat /\ (phase \in {"body", "chunk"} => left - cb'.n = rest /\ cb'.n <= left)
    BY <1>1, <1>6, <1>7
  <1>9. CASE cb'.ret = 0
    <2>1. c.mark["body"] = 0 /\ c.pos = call.pos
      BY <1>1 DEF Call
    <2> HIDE DEF c
    <2>2. phase' = phase
      BY <1>2, <1>4, <1>9, Mapping
    <2>3. left' = rest
      BY <1>1, <1>2, <1>3, <1>9, <2>1, <2>2, Mapping DEF Owed
    <2> HIDE DEF rest
    <2>4. Protocol!Next
      <3>1. CASE phase \in {"body", "chunk"}
        BY <1>2, <1>6, <1>8, <1>9, <2>2, <2>3, <3>1
           DEF Protocol!Next, Protocol!Body, Protocol!Calls, Protocol!Then
      <3>2. CASE phase = "close"
        BY <1>2, <1>6, <1>9, <2>2, <2>3, <3>2
           DEF Protocol!Next, Protocol!Body, Protocol!Calls, Protocol!Then, rest
      <3> QED
        BY <1>4, <3>1, <3>2
    <2>5. LastOK(parser', last')
      BY <1>2, <1>3, <1>9, NoLastOK DEF NoLast, InChunk
    <2>6. StringOpen(parser', call')
      <3>1. call'.mark["body"] <= call'.pos
        BY <1>2, <1>5, <1>9, <2>1
      <3> QED
        BY <1>2, <1>3, <1>9, <3>1, BodyOpen
    <2> QED
      BY <2>4, <2>5, <2>6 DEF StepImplements
  <1>10. CASE cb'.ret # 0
    <2> HIDE DEF rest
    <2> QED
      BY <1>2, <1>4, <1>6, <1>8, <1>10, RefusedStep
         DEF Protocol!Next, Protocol!Body, Protocol!Calls, Protocol!Then
  <1> QED
    BY <1>9, <1>10

LEMMA EndOfBufferImplements ==
    ASSUME Within, EndOfBuffer PROVE StepImplements
  <1>1. call.cur = NoByte /\ call.pos = call.len /\ call.run = 0
    BY DEF EndOfBuffer
  <1>2. ASSUME NEW f \in DataCb, call.mark[f] # 0,
               Data(f, Length(f, call), parser, call.len, call)
        PROVE  StepImplements
    BY <1>1, <1>2, OpenStringDelivered, OpenBodyDelivered, MarkStatesOf
  <1>3. CASE call.mark = NoMark /\ cb' = NoCb /\ Return(parser, call.len)
    <2>1. parser' = parser /\ call' = NoCall
      BY <1>3 DEF Return
    <2>2. Owed(parser', call') = Owed(parser, call)
      <3>1. NoMark["body"] = 0 /\ NoCall.mark = NoMark
        BY DEF NoMark, DataCb, NoCall
      <3> QED
        BY <1>3, <2>1, <3>1 DEF Owed
    <2>3. StringOpen(parser', call')
      BY <2>1 DEF StringOpen, NoCall
    <2> QED
      BY <1>3, <2>1, <2>2, <2>3, SameStep
  <1> QED
    BY <1>2, <1>3 DEF EndOfBuffer

-----------------------------------------------------------------------------
(* The specification *)

\* Every step of a call in progress.
LEMMA RunImplements ==
    ASSUME Within, Run PROVE StepImplements
  <1>1. CASE Fetch \/ LeaveInnerLoop \/ EndOfBuffer
    BY <1>1, FetchImplements, LeaveInnerLoopImplements, EndOfBufferImplements
  <1>2. CASE Switch
    <2>1. CASE Dead \/ StartRes \/ Version \/ FirstStatusCode \/ StatusCode
               \/ StatusStart \/ Status \/ ResLineAlmostDone
      BY <2>1, DeadImplements, StartResImplements, VersionImplements,
         FirstStatusCodeImplements, StatusCodeImplements, StatusStartImplements,
         StatusImplements, ResLineAlmostDoneImplements
    <2>2. CASE HeaderFieldStart \/ HeaderField \/ HeaderValueDiscardWs \/ HeaderValueStart
               \/ HeaderValueCR \/ HeaderValueLF \/ HeaderValueByte \/ HeaderValueSkip
      BY <2>2, HeaderFieldStartImplements, HeaderFieldImplements,
         HeaderValueDiscardWsImplements, HeaderValueStartImplements,
         HeaderValueCRImplements, HeaderValueLFImplements, HeaderValueByteImplements,
         HeaderValueSkipImplements
    <2>3. CASE HeaderAlmostDone \/ HeaderValueLws \/ HeaderValueDiscardWsAlmostDone
               \/ HeaderValueDiscardLws \/ HeadersAlmostDone \/ HeadersDone
      BY <2>3, HeaderAlmostDoneImplements, HeaderValueLwsImplements,
         HeaderValueDiscardWsAlmostDoneImplements, HeaderValueDiscardLwsImplements,
         HeadersAlmostDoneImplements, HeadersDoneImplements
    <2>4. CASE BodyIdentity \/ BodyIdentityEof \/ MessageDone
               \/ ChunkSizeStart \/ ChunkSize \/ ChunkParameters \/ ChunkSizeAlmostDone
               \/ ChunkData \/ ChunkDataAlmostDone \/ ChunkDataDone
      BY <2>4, BodyIdentityImplements, BodyIdentityEofImplements, MessageDoneImplements,
         ChunkSizeStartImplements, ChunkSizeImplements, ChunkParametersImplements,
         ChunkSizeAlmostDoneImplements, ChunkDataImplements,
         ChunkDataAlmostDoneImplements, ChunkDataDoneImplements
    <2> QED
      BY <1>2, <2>1, <2>2, <2>3, <2>4 DEF Switch
  <1> QED
    BY <1>1, <1>2 DEF Run

\* Entering a call reports nothing, and reopens the string that the last call left open.
LEMMA ExecuteImplements ==
    ASSUME PInv, IInv', NEW n \in 1..MaxLen, Execute(n), last' = last
    PROVE  Protocol!Next /\ PInv'
  <1>1. /\ call = NoCall /\ parser' = parser /\ eof' = eof /\ eof = FALSE /\ cb' = NoCb
        /\ LastOK(parser, last)
    BY DEF Execute, PInv, IInv, StateInv
  <1>2. call'.mark["body"] = 0 /\ StringOpen(parser', call')
    <2>1. CASE parser.http_errno # "HPE_OK"
      <3>1. call' = NoCall
        BY <1>1, <2>1 DEF Execute
      <3> QED
        BY <3>1 DEF NoCall, NoMark, DataCb, StringOpen
    <2>2. CASE parser.http_errno = "HPE_OK"
      <3>1. /\ call'.mark = OpenMark(parser.state) /\ call'.pos = 0
        BY <2>2 DEF Execute, NoCall
      <3>2. /\ OpenMark(parser.state)["body"] = 0
            /\ \A f \in {"status", "header_field", "header_value"} :
                  parser.state \in MarkStates[f] => OpenMark(parser.state)[f] = 1
        BY MarkStatesOf DEF OpenMark, DataCb
      <3> QED
        BY <1>1, <3>1, <3>2 DEF StringOpen
    <2> QED
      BY <2>1, <2>2
  <1>3. Owed(parser', call') = Owed(parser, call)
    <2>1. call.mark["body"] = 0
      BY <1>1 DEF NoCall, NoMark, DataCb
    <2> QED
      BY <1>1, <1>2, <2>1 DEF Owed
  <1>4. phase' = phase
    BY <1>1, Mapping
  <1>5. left' = left
    BY <1>1, <1>3, <1>4, Mapping
  <1>6. Protocol!Next
    BY <1>1, <1>4, <1>5 DEF Protocol!Next, Protocol!Quiet
  <1> QED
    BY <1>1, <1>2, <1>6 DEF PInv

\* The end of the input completes a message that ends with the connection.
LEMMA FinishImplements ==
    ASSUME PInv, IInv', Finish, last' = IF cb' = NoCb THEN last ELSE cb'.for
    PROVE  Protocol!Next /\ PInv'
  <1>1. /\ call = NoCall /\ eof = FALSE /\ eof' = TRUE /\ call' = NoCall /\ parser \in Parser
        /\ LastOK(parser, last)
    BY DEF Finish, PInv, IInv, StateInv, ParserInv, Return
  <1>2. StringOpen(parser', call') /\ ~call'.active
    BY <1>1 DEF StringOpen, NoCall
  <1>3. CASE parser.http_errno # "HPE_OK"
    <2>1. cb' = NoCb /\ parser' = parser
      BY <1>3 DEF Finish, Return
    <2>2. phase = "over" /\ phase' = "over"
      BY <1>3, <2>1, Mapping DEF PhaseFor
    <2>3. left = 0 /\ left' = 0
      BY <2>2, Mapping
    <2>4. Protocol!Next
      BY <2>1, <2>2, <2>3 DEF Protocol!Next, Protocol!Quiet
    <2> QED
      BY <1>1, <1>2, <1>3, <2>1, <2>4 DEF PInv
  <1>4. CASE parser.http_errno = "HPE_OK" /\ parser.state = "s_body_identity_eof"
    <2>1. PICK ret \in CbRet :
             /\ cb' = [for |-> "message_complete", at |-> 0, n |-> 0, ret |-> ret]
             /\ parser' = Called(parser, parser, ret)
      BY <1>4 DEF Finish, Return
    <2>2. phase = "close"
      <3>1. PhaseFor(parser, last, FALSE) = "close"
        BY <1>4, PhaseFacts
      <3> QED
        BY <1>1, <3>1, Mapping
    <2>3. cb'.for = "message_complete" /\ cb'.ret = ret
      BY <2>1
    <2>4. parser'.state = "s_body_identity_eof"
      BY <1>1, <1>4, <2>1 DEF Called, Error, Parser
    <2>5. ASSUME ret = 0 PROVE Protocol!Next
      <3>1. parser' = parser
        BY <2>1, <2>5 DEF Called
      <3>2. phase' = "idle"
        <4>1. PhaseFor(parser, last', TRUE) = "idle"
          BY <1>4, PhaseFacts
        <4> QED
          BY <1>1, <3>1, <4>1, Mapping
      <3>3. left' = 0
        BY <3>2, Mapping
      <3> QED
        BY <2>2, <2>3, <2>5, <3>2, <3>3
           DEF Protocol!Next, Protocol!MessageComplete, Protocol!Calls, Protocol!Then
    <2>6. ASSUME ret # 0 PROVE Protocol!Next
      <3>1. parser'.http_errno # "HPE_OK"
        BY <1>1, <2>1, <2>6 DEF Called, Error, Parser
      <3>2. phase' = "over"
        BY <3>1, Mapping DEF PhaseFor
      <3>3. left' = 0
        BY <3>2, Mapping
      <3> QED
        BY <2>2, <2>3, <2>6, <3>2, <3>3
           DEF Protocol!Next, Protocol!MessageComplete, Protocol!Calls, Protocol!Then
    <2>7. LastOK(parser', last')
      BY <2>4, NoLastOK DEF NoLast
    <2> QED
      BY <1>2, <2>5, <2>6, <2>7 DEF PInv
  <1>5. CASE parser.http_errno = "HPE_OK" /\ parser.state \in {"s_dead", "s_start_res"}
    <2>1. cb' = NoCb /\ parser' = parser
      BY <1>5 DEF Finish, Return
    <2>2. phase = HeadPhaseOf(last) /\ phase' = HeadPhaseOf(last)
      BY <1>5, <2>1, PhaseFacts, Mapping
    <2>3. left = 0 /\ left' = 0
      BY <2>2, Mapping DEF HeadPhaseOf
    <2>4. Protocol!Next
      BY <2>1, <2>2, <2>3 DEF Protocol!Next, Protocol!Quiet
    <2> QED
      BY <1>1, <1>2, <2>1, <2>4 DEF PInv
  <1>6. CASE parser.http_errno = "HPE_OK"
             /\ parser.state \notin {"s_body_identity_eof", "s_dead", "s_start_res"}
    <2>1. cb' = NoCb /\ parser' = Error(parser, "HPE_INVALID_EOF_STATE")
      BY <1>6 DEF Finish, Return
    <2>2. parser'.http_errno # "HPE_OK"
      BY <1>1, <2>1 DEF Error, Parser
    <2>3. phase' = "over"
      BY <2>2, Mapping DEF PhaseFor
    <2>4. left' = 0
      BY <2>3, Mapping
    <2>5. Protocol!Next
      BY <2>1, <2>3, <2>4 DEF Protocol!Next, Protocol!Fail
    <2> QED
      BY <1>2, <2>2, <2>5 DEF PInv, LastOK
  <1> QED
    BY <1>3, <1>4, <1>5, <1>6

\* Before the first call.
LEMMA PInitImplements ==
    ASSUME PInit PROVE PInv /\ Protocol!Init
  <1>1. /\ Init /\ last = "none" /\ parser.state = "s_start_res" /\ parser.http_errno = "HPE_OK"
        /\ call = NoCall /\ cb = NoCb
    BY DEF PInit, Init, http_parser_init
  <1>2. IInv /\ LastOK(parser, last) /\ StringOpen(parser, call) /\ ~call.active
    BY <1>1, InitInv DEF LastOK, LineStates, ValueStates, AfterValue, StringOpen, NoCall
  <1>3. phase = HeadPhaseOf("none")
    BY <1>1, PhaseFacts, Mapping
  <1>4. phase = "idle"
    BY <1>3 DEF HeadPhaseOf
  <1>5. left = 0
    BY <1>4, Mapping
  <1> QED
    BY <1>1, <1>2, <1>4, <1>5 DEF PInv, Protocol!Init

\* The engine runs inside a call.
LEMMA RunInCall ==
    ASSUME Run PROVE call.active /\ eof' = eof
  BY DEF Run, Fetch, Switch, LeaveInnerLoop, EndOfBuffer, At, Dead, StartRes, Version,
     FirstStatusCode, StatusCode, StatusStart, Status, ResLineAlmostDone,
     HeaderFieldStart, HeaderField, HeaderValueDiscardWs, HeaderValueStart,
     HeaderValueCR, HeaderValueLF, HeaderValueByte, HeaderValueSkip, InValue,
     HeaderAlmostDone, HeaderValueLws, HeaderValueDiscardWsAlmostDone,
     HeaderValueDiscardLws, HeadersAlmostDone, HeadersDone, BodyIdentity,
     BodyIdentityEof, MessageDone, ChunkSizeStart, ChunkSize, ChunkParameters,
     ChunkSizeAlmostDone, ChunkData, ChunkDataAlmostDone, ChunkDataDone

\* Every step of the engine preserves the invariant, and is a step of the protocol.
LEMMA EngineImplements ==
    ASSUME PInv, (\E n \in 1..MaxLen : Execute(n)) \/ Finish \/ Run,
           last' = IF cb' = NoCb THEN last ELSE cb'.for
    PROVE  PInv' /\ Protocol!Next
  <1>1. IInv'
    BY NextInv DEF PInv, Next
  <1>2. CASE Run
    <2>1. call.active /\ eof' = eof
      BY <1>2, RunInCall
    <2>2. Within
      BY <1>1, <2>1 DEF Within
    <2>3. StepImplements
      BY <1>2, <2>2, RunImplements
    <2> QED
      BY <2>2, <2>3, WithinFacts DEF StepImplements, PInv, Within
  <1>3. CASE \E n \in 1..MaxLen : Execute(n)
    <2>1. last' = last
      BY <1>3 DEF Execute
    <2> QED
      BY <1>1, <1>3, <2>1, ExecuteImplements
  <1>4. CASE Finish
    BY <1>1, <1>4, FinishImplements
  <1> QED
    BY <1>2, <1>3, <1>4

\* Every step preserves the invariant, and is a step of the protocol or a stutter.
LEMMA PNextImplements ==
    ASSUME PInv, [PNext]_pvars
    PROVE  PInv' /\ (Protocol!Next \/ UNCHANGED <<phase, left, cb>>)
  <1>1. CASE UNCHANGED pvars
    <2>1. UNCHANGED vars /\ parser' = parser /\ call' = call /\ cb' = cb /\ eof' = eof
          /\ last' = last
      BY <1>1 DEF pvars, vars
    <2>2. IInv'
      BY <2>1, NextInv DEF PInv
    <2>3. phase' = phase
      BY <2>1, Mapping
    <2>4. left' = left
      BY <2>1, <2>3, Mapping
    <2> QED
      BY <2>1, <2>2, <2>3, <2>4 DEF PInv
  <1> QED
    BY <1>1, EngineImplements DEF PNext, Terminated, pvars

\* The invariant holds in every reachable state of the engine with its history variable.
THEOREM ProtocolInvariance == PSpec => []PInv
  <1>1. PInit => PInv
    BY PInitImplements
  <1>2. PInv /\ [PNext]_pvars => PInv'
    BY PNextImplements
  <1> QED
    BY <1>1, <1>2, PTL DEF PSpec

\* The callbacks come in the order that http_response.c is written against, and the body
\* bytes they deliver add up to the length that was announced, whatever the peer sends,
\* the callbacks return, and wherever the buffers end.
THEOREM Implements == PSpec => ImplementsProtocol
  <1>1. PInit => Protocol!Init
    BY PInitImplements
  <1>2. PInv /\ [PNext]_pvars => [Protocol!Next]_<<phase, left, cb>>
    BY PNextImplements
  <1> QED
    BY <1>1, <1>2, ProtocolInvariance, PTL DEF PSpec, ImplementsProtocol, Protocol!Spec
=============================================================================
