------------------------ MODULE ClientSessionProofs ------------------------
(***************************************************************************)
(* What a client of src/examples prints after a success is the answer      *)
(* (ResponseIsAnswer), for every server, size of the pieces it reads,      *)
(* limit and failing allocation.                                           *)
(*                                                                         *)
(* The parser's part of a client's step is a step of the parser, so what   *)
(* is proved of the parser holds in a client too (ClientHandles).  What is *)
(* left is the client's loop, of which ClientInv says two things at each   *)
(* place.  The bytes of the body are among those received, so their count  *)
(* does not wrap: for this the first part follows the offset of every step *)
(* of a call, and what it passes of a body.  And a parser that stops with  *)
(* an error between two messages leaves a byte of the piece it was given,  *)
(* so the client has seen it: it reports no success after an error that    *)
(* the end of a message hides.                                             *)
(***************************************************************************)
EXTENDS ClientSession, HeaderTextProofs

-----------------------------------------------------------------------------
(* How far a step gets in the buffer *)

\* Between two messages, and in a loop over a name or a value
Fresh      == {"s_start_res", "s_dead"}
LoopStates == {"s_header_field", "s_header_value"}

\* Bytes are counted in the loops only
RunCounts(p, c) == c.active /\ c.run # 0 => p.state \in LoopStates

\* A step does not go back in the buffer, and one that fails between two messages has
\* not taken all of it: the client sees that it failed
Forth ==
    /\ call'.active => /\ call'.len = call.len /\ call'.pos >= call.pos
                       /\ RunCounts(parser', call')
    /\ parser'.state \in Fresh /\ parser'.http_errno # "HPE_OK" => nparsed' < call.len

\* A step of a call in the middle of a byte, or at the end of the buffer
StepsForth == Within /\ RunCounts(parser, call) /\ Respond

LEMMA OnwardsFacts ==
    ASSUME StepsForth
    PROVE  /\ Within /\ call.active /\ call \in CallLike /\ call.pos \in Nat /\ call.len \in Nat
           /\ call.pos <= call.len
           /\ call.cur # NoByte => call.pos < call.len
           /\ parser \in Parser /\ parser.http_errno = "HPE_OK"
           /\ parser.state \notin LoopStates => call.run = 0
           /\ NextByte \in CallLike /\ NextByte.run = 0 /\ NextByte.pos = call.pos + 1
           /\ NextByte.len = call.len /\ NextByte.cur = NoByte
  <1>1. Within /\ RunCounts(parser, call)
    BY DEF StepsForth
  <1>2. call \in CallLike /\ NextByte \in CallLike /\ NextByte.pos = call.pos + 1
    BY <1>1, CallLikes
  <1>3. /\ Offsets(call) /\ parser \in Parser /\ parser.http_errno = "HPE_OK"
    BY <1>1, WithinFacts
  <1>4. NextByte.run = 0 /\ NextByte.len = call.len /\ NextByte.cur = NoByte
    BY <1>2 DEF NextByte, CallLike
  <1> QED
    BY <1>1, <1>2, <1>3, <1>4 DEF CallLike, Offsets, RunCounts

\* The handlers of these callbacks only return 0.
LEMMA PlainReturns ==
    ASSUME Respond,
           cb'.for \in {"message_begin", "message_complete", "chunk_header", "chunk_complete"}
    PROVE  cb'.ret = 0
  BY DEF Respond, PlainCallback

LEMMA ContinueForth ==
    ASSUME StepsForth, NEW p, NEW c, NEW er, Continue(p, c, er),
           c.len = call.len, c.pos >= call.pos, c.run = 0 \/ p.state \in LoopStates,
           p.state \in Fresh /\ p.http_errno # "HPE_OK" => er < call.len
    PROVE  Forth
  BY DEF Continue, Return, NoCall, Forth, RunCounts

LEMMA StepForth ==
    ASSUME StepsForth, call.cur # NoByte, NEW p, Step(p) \/ (Reexecute(p) /\ call.run = 0)
    PROVE  Forth
  <1>1. /\ call.pos < call.len /\ call.pos >= call.pos /\ NextByte.run = 0
        /\ NextByte.pos >= call.pos /\ NextByte.len = call.len
    BY OnwardsFacts
  <1>2. CASE Step(p)
    BY <1>1, <1>2, ContinueForth DEF Step
  <1>3. CASE Reexecute(p) /\ call.run = 0
    BY <1>1, <1>3, ContinueForth DEF Reexecute
  <1> QED
    BY <1>2, <1>3

LEMMA NotifyForth ==
    ASSUME StepsForth, NEW f \in {"message_begin", "chunk_header", "chunk_complete"}, NEW p, NEW er,
           NEW c \in {call, NextByte}, call.run = 0, p.http_errno = "HPE_OK", Notify(f, p, c, er)
    PROVE  Forth
  <1>1. PICK ret \in CbRet :
           /\ cb' = [for |-> f, at |-> 0, n |-> 0, ret |-> ret]
           /\ Continue(Called(p, p, ret), c, er)
    BY DEF Notify
  <1>2. ret = 0
    <2>1. cb'.for = f /\ cb'.ret = ret
      BY <1>1
    <2> QED
      BY <2>1, PlainReturns DEF StepsForth
  <1>3. Continue(p, c, er)
    BY <1>1, <1>2 DEF Called
  <1>4. c.len = call.len /\ c.pos >= call.pos /\ c.run = 0
    BY OnwardsFacts
  <1> QED
    BY <1>3, <1>4, ContinueForth

LEMMA DataForth ==
    ASSUME StepsForth, NEW f \in DataCb, NEW n, NEW p \in Parser, NEW er, NEW q, NEW eq,
           NEW c \in CallLike, c.len = call.len, c.pos >= call.pos, c.run = 0,
           c.mark[f] # 0 => p.state \notin Fresh,
           q.state \notin Fresh \/ (q.http_errno = "HPE_OK"),
           DataThen(f, n, p, er, q, eq, c)
    PROVE  Forth
  <1>1. CASE c.mark[f] = 0
    BY <1>1, ContinueForth DEF DataThen
  <1>2. CASE c.mark[f] # 0
    <2> DEFINE d == [c EXCEPT !.mark[f] = 0]
    <2>1. PICK ret \in CbRet : Continue(Called(p, q, ret), d, IF ret = 0 THEN eq ELSE er)
      BY <1>2 DEF DataThen
    <2>2. d.len = call.len /\ d.pos >= call.pos /\ d.run = 0
      BY DEF CallLike
    <2>3. Error(p, "HPE_CB").state \notin Fresh
      BY <1>2 DEF Error, Parser
    <2>4. Called(p, q, ret).state \in Fresh => Called(p, q, ret).http_errno = "HPE_OK"
      BY <2>3 DEF Called
    <2> HIDE DEF d
    <2> QED
      BY <2>1, <2>2, <2>4, ContinueForth
  <1> QED
    BY <1>1, <1>2

\* The offsets of the calls that a string leaves.
LEMMA MarkedForth ==
    ASSUME StepsForth, NEW f \in DataCb, NEW c \in {call, NextByte}
    PROVE  /\ Marked(c, f) \in CallLike /\ Marked(c, f).len = call.len
           /\ Marked(c, f).pos = c.pos /\ Marked(c, f).run = c.run
  <1>1. c \in CallLike /\ call.pos \in Nat /\ c.len = call.len
    BY OnwardsFacts
  <1>2. /\ Marked(c, f) \in CallLike /\ Marked(c, f) = [c EXCEPT !.mark = Marked(c, f).mark]
        /\ Marked(c, f).pos = c.pos /\ Marked(c, f).run = c.run
    BY <1>1, MarkedLike
  <1>3. [c EXCEPT !.mark = Marked(c, f).mark].len = c.len
    BY <1>1 DEF CallLike
  <1> QED
    BY <1>1, <1>2, <1>3

LEMMA HeadForth ==
    ASSUME StepsForth,
           \/ Dead \/ StartRes \/ Version \/ FirstStatusCode \/ StatusCode
           \/ StatusStart \/ Status \/ ResLineAlmostDone
           \/ HeaderFieldStart \/ HeaderField
    PROVE  Forth
  <1>1. /\ call \in CallLike /\ call.pos \in Nat /\ call.pos < call.len /\ call.cur # NoByte
        /\ parser \in Parser /\ parser.http_errno = "HPE_OK" /\ parser.state \in State
        /\ parser.state \notin LoopStates => call.run = 0
        /\ NextByte \in CallLike /\ NextByte.run = 0 /\ NextByte.pos >= call.pos
        /\ NextByte.len = call.len /\ {"status", "header_field"} \subseteq DataCb
    <2>1. call.cur # NoByte
      BY DEF Dead, StartRes, Version, FirstStatusCode, StatusCode, StatusStart, Status,
         ResLineAlmostDone, HeaderFieldStart, HeaderField, At
    <2> QED
      BY <2>1, OnwardsFacts DEF Parser, DataCb
  <1>2. \A s : Move(parser, s).state = s /\ Move(parser, s).http_errno = "HPE_OK"
    BY <1>1 DEF Move, Parser
  <1>3. CASE Dead \/ Version \/ FirstStatusCode \/ StatusCode \/ ResLineAlmostDone
    BY <1>1, <1>3, StepForth DEF Dead, Version, FirstStatusCode, StatusCode, ResLineAlmostDone
  <1>4. CASE StartRes
    <2> DEFINE p == [parser EXCEPT !.flags = {}, !.content_length = ULLONG_MAX]
    <2>1. p.http_errno = "HPE_OK" /\ Move(p, "s_res_H").http_errno = "HPE_OK" /\ call.run = 0
      BY <1>1, <1>4 DEF Parser, Move, StartRes, At, LoopStates
    <2>2. \/ Notify("message_begin", Move(p, "s_res_H"), NextByte, call.pos + 1)
          \/ Notify("message_begin", p, NextByte, call.pos + 1)
          \/ Step(Error(p, "HPE_INVALID_CONSTANT"))
      BY <1>4 DEF StartRes
    <2> HIDE DEF p
    <2> QED
      BY <1>1, <2>1, <2>2, StepForth, NotifyForth
  <1>5. CASE StatusStart
    <2>1. /\ Marked(NextByte, "status").len = call.len
          /\ Marked(NextByte, "status").pos = NextByte.pos
          /\ Marked(NextByte, "status").run = NextByte.run
      BY <1>1, MarkedForth
    <2> QED
      BY <1>1, <1>5, <2>1, StepForth, ContinueForth DEF StatusStart
  <1>6. CASE Status
    <2>1. \A s \in {"s_res_line_almost_done", "s_header_field_start"} :
             Move(parser, s) \in Parser /\ s \notin Fresh
      BY <1>1 DEF Move, Parser, State, HeaderPhaseStates, Fresh
    <2> QED
      BY <1>1, <1>2, <1>6, <2>1, StepForth, DataForth DEF Status, Data
  <1>7. CASE HeaderFieldStart
    <2>1. /\ Marked(NextByte, "header_field").len = call.len
          /\ Marked(NextByte, "header_field").pos = NextByte.pos
          /\ Marked(NextByte, "header_field").run = NextByte.run
      BY <1>1, MarkedForth
    <2>2. call.run = 0
      BY <1>1, <1>7 DEF HeaderFieldStart, At, LoopStates
    <2> QED
      BY <1>1, <1>7, <2>1, <2>2, StepForth, ContinueForth DEF HeaderFieldStart
  <1>8. CASE HeaderField
    <2> DEFINE p == Count(parser, call.run)
               q == Move(p, "s_header_value_discard_ws")
               d == [NextByte EXCEPT !.run = call.run + 1]
               r == [parser EXCEPT !.header_state = NameStep(@, call.cur)]
    <2>1. d.len = call.len /\ d.pos = NextByte.pos
      BY <1>1 DEF CallLike
    <2>2. r.state = "s_header_field" /\ r.http_errno = "HPE_OK"
      BY <1>1, <1>8 DEF HeaderField, At, Parser
    <2>3. p.http_errno = "HPE_OK" => q \in Parser /\ q.state \notin Fresh
      <3>1. parser.nread + call.run \in Nat
        BY <1>1 DEF Parser, CallLike
      <3> QED
        BY <1>1, <3>1 DEF Count, Move, Parser, State, HeaderPhaseStates, Fresh, Errno
    <2>4. \/ cb' = NoCb /\ Continue(r, d, call.pos)
          \/ Step(p) \/ Step(Error(p, "HPE_INVALID_HEADER_TOKEN"))
          \/ /\ p.http_errno = "HPE_OK"
             /\ DataThen("header_field", Length("header_field", call), q, call.pos + 1,
                         q, call.pos + 1, NextByte)
      BY <1>8 DEF HeaderField, Data
    <2> HIDE DEF p, q, d, r
    <2>5. CASE cb' = NoCb /\ Continue(r, d, call.pos)
      BY <1>1, <2>1, <2>2, <2>5, ContinueForth DEF LoopStates
    <2>6. CASE \/ Step(p) \/ Step(Error(p, "HPE_INVALID_HEADER_TOKEN"))
      BY <1>1, <2>6, StepForth
    <2>7. CASE /\ p.http_errno = "HPE_OK"
               /\ DataThen("header_field", Length("header_field", call), q, call.pos + 1,
                           q, call.pos + 1, NextByte)
      BY <1>1, <2>3, <2>7, DataForth
    <2> QED
      BY <2>4, <2>5, <2>6, <2>7
  <1> QED
    BY <1>3, <1>4, <1>5, <1>6, <1>7, <1>8

LEMMA ValueForth ==
    ASSUME StepsForth,
           \/ HeaderValueDiscardWs \/ HeaderValueStart
           \/ HeaderValueCR \/ HeaderValueLF \/ HeaderValueByte \/ HeaderValueSkip
           \/ HeaderAlmostDone \/ HeaderValueLws \/ HeaderValueDiscardWsAlmostDone
           \/ HeaderValueDiscardLws
    PROVE  Forth
  <1>1. /\ call \in CallLike /\ call.pos \in Nat /\ call.pos < call.len /\ call.cur # NoByte
        /\ parser \in Parser /\ parser.http_errno = "HPE_OK" /\ call.len \in Nat
        /\ parser.state \notin LoopStates => call.run = 0
        /\ NextByte \in CallLike /\ NextByte.run = 0 /\ NextByte.pos >= call.pos
        /\ NextByte.len = call.len /\ "header_value" \in DataCb /\ call.run \in Nat
    <2>1. call.cur # NoByte
      BY DEF HeaderValueDiscardWs, HeaderValueStart, HeaderValueCR, HeaderValueLF, InValue,
         HeaderValueByte, HeaderValueSkip, HeaderAlmostDone, HeaderValueLws,
         HeaderValueDiscardWsAlmostDone, HeaderValueDiscardLws, At
    <2> QED
      BY <2>1, OnwardsFacts DEF DataCb, CallLike
  <1>2. /\ Marked(NextByte, "header_value").len = call.len
        /\ Marked(NextByte, "header_value").pos = NextByte.pos
        /\ Marked(NextByte, "header_value").run = NextByte.run
        /\ Marked(call, "header_value") \in CallLike
        /\ Marked(call, "header_value").len = call.len
        /\ Marked(call, "header_value").pos = call.pos
        /\ Marked(call, "header_value").run = call.run
    BY <1>1, MarkedForth
  <1>3. ASSUME StartValue PROVE Forth
    BY <1>1, <1>2, <1>3, ContinueForth DEF StartValue
  <1>4. CASE \/ HeaderValueDiscardWs \/ HeaderValueStart \/ HeaderAlmostDone \/ HeaderValueLws
             \/ HeaderValueDiscardWsAlmostDone
    <2>1. HeaderValueLws => call.run = 0
      BY <1>1 DEF HeaderValueLws, At, LoopStates
    <2> QED
      BY <1>1, <1>3, <1>4, <2>1, StepForth DEF HeaderValueDiscardWs, HeaderValueStart,
         HeaderAlmostDone, HeaderValueLws, HeaderValueDiscardWsAlmostDone
  <1> DEFINE a == Move(parser, "s_header_almost_done")
             b == Count(a, call.run)
  <1>5. a \in Parser /\ b \in Parser /\ a.state \notin Fresh /\ b.state \notin Fresh
    <2>1. a \in Parser /\ a.state = "s_header_almost_done"
      BY <1>1 DEF Move, Parser, State, HeaderPhaseStates
    <2>2. a.nread + call.run \in Nat
      BY <1>1, <2>1 DEF Parser
    <2> HIDE DEF a
    <2>3. b \in Parser /\ b.state = a.state
      BY <2>1, <2>2 DEF Count, Parser, Errno
    <2> QED
      BY <2>1, <2>3 DEF Fresh
  <1>6. CASE HeaderValueCR
    <2>1. DataThen("header_value", Length("header_value", call), a, call.pos + 1, b, call.pos,
                   NextByte)
      BY <1>6 DEF HeaderValueCR
    <2> HIDE DEF a, b
    <2> QED
      BY <1>1, <1>5, <2>1, DataForth
  <1>7. CASE HeaderValueLF
    <2> DEFINE c == [call EXCEPT !.run = 0]
    <2>1. c \in CallLike /\ c.len = call.len /\ c.pos = call.pos /\ c.run = 0
      BY <1>1 DEF CallLike
    <2>2. \/ Return(b, call.pos)
          \/ DataThen("header_value", Length("header_value", call), b, call.pos, b, call.pos, c)
      BY <1>7 DEF HeaderValueLF, Data
    <2> HIDE DEF a, b, c
    <2>3. CASE Return(b, call.pos)
      BY <1>1, <1>5, <2>3 DEF Return, Forth, NoCall
    <2>4. CASE DataThen("header_value", Length("header_value", call), b, call.pos, b, call.pos, c)
      BY <1>1, <1>5, <2>1, <2>4, DataForth
    <2> QED
      BY <2>2, <2>3, <2>4
  <1>8. CASE HeaderValueByte
    <2> DEFINE d == [NextByte EXCEPT !.run = call.run + 1]
    <2>1. d.len = call.len /\ d.pos = NextByte.pos
      BY <1>1 DEF CallLike
    <2>2. ValueByte(parser, call.cur).state \in LoopStates
      <3>1. parser.state = "s_header_value"
        BY <1>8 DEF HeaderValueByte, At
      <3> QED
        BY <1>1, <3>1 DEF ValueByte, LengthDigit, Error, Parser, LoopStates
    <2>3. Continue(ValueByte(parser, call.cur), d, call.pos)
      BY <1>8 DEF HeaderValueByte
    <2> HIDE DEF d
    <2> QED
      BY <1>1, <2>1, <2>2, <2>3, ContinueForth
  <1>9. CASE HeaderValueSkip
    <2> DEFINE Skip(k, ch) == [call EXCEPT !.pos = @ + k, !.run = @ + k, !.cur = ch]
    <2>1. ASSUME NEW k \in Nat, NEW ch, Continue(parser, Skip(k, ch), call.pos) PROVE Forth
      <3>1. Skip(k, ch).len = call.len /\ Skip(k, ch).pos = call.pos + k
        BY <1>1 DEF CallLike
      <3>2. parser.state \in LoopStates
        BY <1>9 DEF HeaderValueSkip, At, LoopStates
      <3> HIDE DEF Skip
      <3>3. Skip(k, ch).pos >= call.pos
        BY <1>1, <3>1
      <3> QED
        BY <1>1, <2>1, <3>1, <3>2, <3>3, ContinueForth
    <2>2. \E k \in Nat, ch \in Lexeme \cup {NoByte} : Continue(parser, Skip(k, ch), call.pos)
      <3> DEFINE n == call.len - call.pos
                 limit == Lesser(n, HTTP_MAX_HEADER_SIZE)
      <3>1. n \in Nat /\ limit \in Int /\ 1..(limit - 1) \subseteq Nat
        BY <1>1, HeaderSizeAssumption DEF Lesser
      <3>2. \/ \E k \in 1..(limit - 1), ch \in Offered(parser) :
                  Continue(parser, Skip(k, ch), call.pos)
            \/ Continue(parser, Skip(n, NoByte), call.pos)
        BY <1>9 DEF HeaderValueSkip
      <3>3. Offered(parser) \subseteq Lexeme
        BY OfferedType, WithinFacts DEF StepsForth
      <3> HIDE DEF n, limit, Skip
      <3> QED
        BY <3>1, <3>2, <3>3
    <2> HIDE DEF Skip
    <2> QED
      BY <2>1, <2>2
  <1>10. CASE HeaderValueDiscardLws
    <2> DEFINE p == [Move(parser, "s_header_field_start") EXCEPT
                        !.flags = @ \cup FlagOf(parser.header_state)]
    <2>1. p \in Parser /\ p.state = "s_header_field_start"
      BY <1>1, FlagOfType DEF Move, Parser, State, HeaderPhaseStates
    <2>2. \/ Step(Move(parser, "s_header_value_discard_ws"))
          \/ DataThen("header_value", 0, p, call.pos, p, call.pos, Marked(call, "header_value"))
      BY <1>10 DEF HeaderValueDiscardLws, Data
    <2>3. call.run = 0 /\ p.state \notin Fresh
      BY <1>1, <1>10, <2>1 DEF HeaderValueDiscardLws, At, LoopStates, Fresh
    <2> HIDE DEF p
    <2> QED
      BY <1>1, <1>2, <2>1, <2>2, <2>3, StepForth, DataForth
  <1> QED
    BY <1>4, <1>6, <1>7, <1>8, <1>9, <1>10

\* The end of a message is no error, and takes its byte.
LEMMA CompleteForth ==
    ASSUME StepsForth, NEW p \in Parser, p.http_errno = "HPE_OK", MessageComplete(p)
    PROVE  Forth /\ (call'.active => call'.pos >= call.pos + 1)
  <1>1. PICK ret \in CbRet :
           /\ cb' = [for |-> "message_complete", at |-> 0, n |-> 0, ret |-> ret]
           /\ LET q == Called(NewMessage(p), NewMessage(p), ret)
              IN  IF p.upgrade THEN Return(q, call.pos + 1)
                  ELSE Continue(q, NextByte, call.pos + 1)
    BY DEF MessageComplete
  <1>2. ret = 0
    <2>1. cb'.for = "message_complete" /\ cb'.ret = ret
      BY <1>1
    <2> QED
      BY <2>1, PlainReturns DEF StepsForth
  <1>3. Called(NewMessage(p), NewMessage(p), ret).http_errno = "HPE_OK"
    BY <1>2 DEF Called, NewMessage, Move, Parser
  <1> DEFINE q == Called(NewMessage(p), NewMessage(p), ret)
  <1>4. parser' = q /\ (call'.active => call' = NextByte)
    BY <1>1 DEF Return, Continue, NoCall
  <1>5. NextByte.len = call.len /\ NextByte.pos = call.pos + 1 /\ NextByte.run = 0
        /\ call.pos \in Nat
    BY OnwardsFacts
  <1> HIDE DEF q
  <1> QED
    BY <1>3, <1>4, <1>5 DEF Forth, RunCounts, q

LEMMA EndForth ==
    ASSUME StepsForth,
           \/ HeadersAlmostDone \/ HeadersDone \/ MessageDone \/ ChunkSizeStart \/ ChunkSize
           \/ ChunkParameters \/ ChunkSizeAlmostDone \/ ChunkDataAlmostDone \/ ChunkDataDone
    PROVE  Forth
  <1>1. /\ call \in CallLike /\ call.pos \in Nat /\ call.pos < call.len /\ call.cur # NoByte
        /\ parser \in Parser /\ parser.http_errno = "HPE_OK" /\ call.run = 0
        /\ NextByte \in CallLike /\ NextByte.run = 0 /\ NextByte.pos >= call.pos
        /\ NextByte.len = call.len /\ "body" \in DataCb
    <2>1. call.cur # NoByte /\ parser.state \notin LoopStates
      BY DEF HeadersAlmostDone, HeadersDone, MessageDone, ChunkSizeStart, ChunkSize,
         ChunkParameters, ChunkSizeAlmostDone, ChunkDataAlmostDone, ChunkDataDone, At, LoopStates
    <2> QED
      BY <2>1, OnwardsFacts DEF DataCb
  <1>2. \A s : Move(parser, s).state = s /\ Move(parser, s).http_errno = "HPE_OK"
    BY <1>1 DEF Move, Parser
  <1>3. CASE ChunkSizeStart \/ ChunkSize \/ ChunkParameters
    BY <1>1, <1>3, StepForth DEF ChunkSizeStart, ChunkSize, ChunkParameters
  <1>4. CASE ChunkSizeAlmostDone
    <2> DEFINE p == [parser EXCEPT !.nread = 0]
               a == [Move(p, "s_header_field_start") EXCEPT !.flags = @ \cup {"F_TRAILING"}]
               b == Move(p, "s_chunk_data")
    <2>1. a.http_errno = "HPE_OK" /\ b.http_errno = "HPE_OK"
      BY <1>1 DEF Move, Parser
    <2>2. \/ Step(Error(parser, "HPE_STRICT"))
          \/ Notify("chunk_header", a, NextByte, call.pos + 1)
          \/ Notify("chunk_header", b, NextByte, call.pos + 1)
      <3>1. CASE call.cur.c # "LF"
        BY <1>4, <3>1 DEF ChunkSizeAlmostDone
      <3>2. CASE call.cur.c = "LF" /\ p.content_length = 0
        BY <1>4, <3>2 DEF ChunkSizeAlmostDone
      <3>3. CASE call.cur.c = "LF" /\ p.content_length # 0
        BY <1>4, <3>3 DEF ChunkSizeAlmostDone
      <3> QED
        BY <3>1, <3>2, <3>3
    <2> HIDE DEF p, a, b
    <2> QED
      BY <1>1, <2>1, <2>2, StepForth, NotifyForth
  <1>5. CASE ChunkDataDone
    <2> DEFINE a == [Move(parser, "s_chunk_size_start") EXCEPT !.nread = 0]
    <2>1. a.http_errno = "HPE_OK"
      BY <1>1 DEF Move, Parser
    <2>2. Step(Error(parser, "HPE_STRICT")) \/ Notify("chunk_complete", a, NextByte, call.pos + 1)
      BY <1>5 DEF ChunkDataDone
    <2> HIDE DEF a
    <2> QED
      BY <1>1, <2>1, <2>2, StepForth, NotifyForth
  <1>6. CASE ChunkDataAlmostDone
    <2>1. Move(parser, "s_chunk_data_done") \in Parser /\ "s_chunk_data_done" \notin Fresh
      BY <1>1 DEF Move, Parser, State, HeaderPhaseStates, BodyStates, Fresh
    <2> QED
      BY <1>1, <1>2, <1>6, <2>1, StepForth, DataForth DEF ChunkDataAlmostDone, Data
  <1>7. CASE HeadersAlmostDone
    <2>1. ASSUME NEW p, HeadersComplete(p) PROVE Forth
      <3>1. \E q : Continue(q, call, call.pos)
        BY <2>1 DEF HeadersComplete
      <3> QED
        BY <1>1, <3>1, ContinueForth
    <2>2. \/ Step(Error(parser, "HPE_STRICT"))
          \/ Notify("chunk_complete", Move(parser, "s_message_done"), call, call.pos)
          \/ Step(Error(parser, "HPE_UNEXPECTED_CONTENT_LENGTH"))
          \/ \E p : HeadersComplete(p)
      BY <1>7 DEF HeadersAlmostDone
    <2> QED
      BY <1>1, <1>2, <2>1, <2>2, StepForth, NotifyForth
  <1>8. CASE HeadersDone
    <2> DEFINE p == [parser EXCEPT !.nread = 0]
    <2>1. p \in Parser /\ p.http_errno = "HPE_OK"
      BY <1>1 DEF Parser
    <2>2. \/ \E q : Step(q)
          \/ MessageComplete(p)
      BY <1>8 DEF HeadersDone
    <2> HIDE DEF p
    <2> QED
      BY <1>1, <2>1, <2>2, StepForth, CompleteForth
  <1>9. CASE MessageDone
    BY <1>1, <1>9, CompleteForth DEF MessageDone
  <1> QED
    BY <1>3, <1>4, <1>5, <1>6, <1>7, <1>8, <1>9

LEMMA BufferForth ==
    ASSUME StepsForth, Fetch \/ LeaveInnerLoop \/ EndOfBuffer PROVE Forth
  <1>1. /\ call \in CallLike /\ call.pos \in Nat /\ call.len \in Nat /\ call.pos <= call.len
        /\ parser \in Parser /\ parser.http_errno = "HPE_OK" /\ call.run \in Nat
        /\ MarkInv(parser, call) /\ RunCounts(parser, call) /\ call.active
    BY OnwardsFacts, WithinFacts DEF StepsForth, CallLike
  <1>2. \A n \in Nat : Count(parser, n).state = parser.state
    BY <1>1 DEF Count, Parser
  <1>3. CASE Fetch
    <2>1. PICK ch \in Offered(parser) :
             Continue(IF call.run = 0 /\ ParsingHeader(parser.state)
                      THEN Count(parser, 1) ELSE parser,
                      [call EXCEPT !.cur = ch], call.pos)
      BY <1>3 DEF Fetch
    <2> DEFINE c == [call EXCEPT !.cur = ch]
               p == IF call.run = 0 /\ ParsingHeader(parser.state)
                    THEN Count(parser, 1) ELSE parser
    <2>2. c.len = call.len /\ c.pos = call.pos /\ c.run = call.run /\ p.state = parser.state
      BY <1>1, <1>2 DEF CallLike
    <2>3. call.pos < call.len
      BY <1>3 DEF Fetch
    <2>4. Continue(p, c, call.pos)
      BY <2>1
    <2> HIDE DEF c, p
    <2> QED
      BY <1>1, <2>2, <2>3, <2>4, ContinueForth DEF RunCounts
  <1>4. CASE LeaveInnerLoop
    <2> DEFINE c == [call EXCEPT !.run = 0]
               p == Count(parser, call.run)
    <2>1. c.len = call.len /\ c.pos = call.pos /\ c.run = 0
      BY <1>1 DEF CallLike
    <2>2. p.state \notin Fresh
      BY <1>1, <1>2, <1>4 DEF LeaveInnerLoop, RunCounts, LoopStates, Fresh
    <2>3. Continue(p, c, call.pos)
      BY <1>4 DEF LeaveInnerLoop
    <2> HIDE DEF c, p
    <2> QED
      BY <1>1, <2>1, <2>2, <2>3, ContinueForth
  <1>5. CASE EndOfBuffer
    <2>1. CASE cb' = NoCb /\ Return(parser, call.len)
      BY <1>1, <2>1 DEF Return, Forth, NoCall
    <2>2. ASSUME NEW f \in DataCb, call.mark[f] # 0,
                 Data(f, Length(f, call), parser, call.len, call)
          PROVE  Forth
      <3>1. parser.state \in MarkStates[f]
        BY <1>1, <2>2 DEF MarkInv
      <3>2. parser.state \notin Fresh
        BY <3>1 DEF MarkStates, DataCb, Fresh
      <3>3. call.run = 0
        BY <1>5 DEF EndOfBuffer
      <3> QED
        BY <1>1, <2>2, <3>2, <3>3, DataForth DEF Data
    <2> QED
      BY <1>5, <2>1, <2>2 DEF EndOfBuffer
  <1> QED
    BY <1>3, <1>4, <1>5

-----------------------------------------------------------------------------
(* What a call has taken *)

\* The byte that ends a body is looked at twice
Eaten(p, c) == IF p.state = "s_message_done" /\ c.cur # NoByte THEN c.pos + 1 ELSE c.pos

\* The loops over a body take the bytes they pass.
LEMMA BodyForth ==
    ASSUME StepsForth, BodyIdentity \/ BodyIdentityEof \/ ChunkData
    PROVE  Forth /\ (call'.active => Eaten(parser', call') >= call.pos + Passed)
  <1>1. /\ call \in CallLike /\ call.pos \in Nat /\ call.len \in Nat /\ call.pos < call.len
        /\ call.cur # NoByte /\ call.active /\ call.run = 0 /\ IInv
        /\ parser \in Parser /\ parser.http_errno = "HPE_OK" /\ "body" \in DataCb
    <2>1. call.cur # NoByte /\ parser.state \notin LoopStates
      BY DEF BodyIdentity, BodyIdentityEof, ChunkData, At, LoopStates
    <2> QED
      BY <2>1, OnwardsFacts DEF DataCb, Within, PInv
  <1> DEFINE p == [parser EXCEPT !.content_length = parser.content_length - ToRead]
             k == call.pos + ToRead
             Takes == /\ ToRead \in Nat /\ ToRead >= 1 /\ k \in Nat /\ Passed = ToRead
                      /\ p \in Parser /\ p.http_errno = "HPE_OK" /\ p.state = parser.state
  <1>2. ASSUME NEW s \in {"s_body_identity", "s_chunk_data"}, At(s) PROVE Takes
    <2>1. /\ ToRead \in Nat /\ ToRead >= 1
          /\ p \in Parser /\ p.http_errno = "HPE_OK" /\ p.state = parser.state
      BY <1>1, <1>2, ToReadInv
    <2>2. Passed = ToRead
      BY <1>1, <1>2 DEF Passed, BodyReading, At
    <2> HIDE DEF p
    <2> QED
      BY <1>1, <2>1, <2>2
  <1>3. ASSUME NEW m \in Nat, NEW c \in {call, Advance(ToRead)}, c.len = call.len, c.run = 0,
               c \in CallLike
        PROVE  LET d == [Marked(c, "body") EXCEPT !.pos = m, !.cur = NoByte]
               IN  d.len = call.len /\ d.run = 0 /\ d.pos = m
    <2>1. /\ Marked(c, "body") \in CallLike
          /\ Marked(c, "body") = [c EXCEPT !.mark = Marked(c, "body").mark]
      BY <1>1, <1>3, MarkedLike
    <2>2. Marked(c, "body").len = call.len /\ Marked(c, "body").run = 0
      BY <1>3, <2>1 DEF CallLike
    <2> QED
      BY <2>1, <2>2 DEF CallLike
  <1>4. CASE BodyIdentityEof
    <2> DEFINE d == [Marked(call, "body") EXCEPT !.pos = call.len, !.cur = NoByte]
    <2>1. d.len = call.len /\ d.run = 0 /\ d.pos = call.len
      BY <1>1, <1>3
    <2>2. Passed = call.len - call.pos
      BY <1>1, <1>4 DEF Passed, BodyReading, BodyIdentityEof, At
    <2>3. Continue(parser, d, call.pos)
      BY <1>4 DEF BodyIdentityEof
    <2> HIDE DEF d
    <2>4. Forth
      BY <1>1, <2>1, <2>3, ContinueForth
    <2>5. call' = d
      BY <1>1, <2>3, Continued
    <2> QED
      BY <1>1, <2>1, <2>2, <2>4, <2>5 DEF Eaten
  <1>5. CASE ChunkData
    <2> DEFINE q == IF p.content_length = 0 THEN Move(p, "s_chunk_data_almost_done") ELSE p
               c == Marked(call, "body")
               d == [c EXCEPT !.pos = @ + ToRead, !.cur = NoByte]
               e == [Marked(call, "body") EXCEPT !.pos = k, !.cur = NoByte]
    <2>1. Takes
      BY <1>2, <1>5 DEF ChunkData
    <2>2. e.len = call.len /\ e.run = 0 /\ e.pos = k
      BY <1>1, <1>3, <2>1
    <2>3. d = e
      BY <1>1, MarkedLike
    <2>4. q.http_errno = "HPE_OK"
      BY <2>1 DEF Move, Parser
    <2>5. Continue(q, d, call.pos)
      BY <1>5 DEF ChunkData
    <2> HIDE DEF q, d, e, p
    <2>6. call.pos <= k
      BY <1>1, <2>1
    <2>7. Forth
      BY <1>1, <2>2, <2>3, <2>4, <2>5, <2>6, ContinueForth
    <2>8. call' = e
      BY <2>3, <2>4, <2>5, Continued
    <2> QED
      BY <1>1, <2>1, <2>2, <2>7, <2>8 DEF Eaten
  <1>6. CASE BodyIdentity
    <2> DEFINE a == Advance(ToRead)
               c == Marked(a, "body")
               d == [c EXCEPT !.pos = @ + 1, !.cur = NoByte]
               e == [c EXCEPT !.pos = k, !.cur = NoByte]
               q == Move(p, "s_message_done")
    <2>1. Takes
      BY <1>2, <1>6 DEF BodyIdentity
    <2>2. a \in CallLike /\ a.pos = k - 1 /\ a.len = call.len /\ a.run = 0 /\ a.cur = call.cur
      <3> DEFINE n == call.pos + ToRead - 1
      <3>1. n \in Nat /\ n = k - 1
        BY <1>1, <2>1
      <3> HIDE DEF n, p, k
      <3>2. a = [call EXCEPT !.pos = n]
        BY DEF Advance, n
      <3> QED
        BY <1>1, <3>1, <3>2 DEF CallLike
    <2>3. e.len = call.len /\ e.run = 0 /\ e.pos = k
      BY <1>3, <2>1, <2>2
    <2>4. c \in CallLike /\ c.pos = k - 1 /\ c.len = call.len /\ c.run = 0 /\ c.cur = call.cur
      <3>1. c \in CallLike /\ c = [a EXCEPT !.mark = Marked(a, "body").mark]
        BY <1>1, <2>2, MarkedLike
      <3> HIDE DEF a, p, k
      <3> QED
        BY <2>2, <3>1 DEF CallLike
    <2>5. d = e
      <3>1. c.pos + 1 = k
        BY <2>1, <2>4
      <3> HIDE DEF c, k, p
      <3> QED
        BY <3>1
    <2>6. q \in Parser /\ q.http_errno = "HPE_OK" /\ q.state = "s_message_done"
      <3> HIDE DEF p, k
      <3> QED
        BY <2>1 DEF Move, Parser, State, BodyStates
    <2>7. \/ DataThen("body", c.pos + 2 - c.mark["body"], q, c.pos, q, c.pos, c)
          \/ Continue(p, d, call.pos)
      BY <1>6 DEF BodyIdentity, Data
    <2>8. k - 1 >= call.pos /\ k >= call.pos
      BY <1>1, <2>1
    <2> HIDE DEF a, c, d, e, q, p, k
    <2>9. CASE DataThen("body", c.pos + 2 - c.mark["body"], q, c.pos, q, c.pos, c)
      <3>1. Forth
        BY <1>1, <2>4, <2>6, <2>8, <2>9, DataForth DEF Fresh
      <3>2. ASSUME call'.active
            PROVE  parser' = q /\ call'.pos = k - 1 /\ call'.cur = call.cur
        <4>1. CASE c.mark["body"] = 0
          <5>1. Continue(q, c, c.pos)
            BY <2>9, <4>1 DEF DataThen
          <5> QED
            BY <2>4, <2>6, <5>1, Continued
        <4>2. CASE c.mark["body"] # 0
          <5>1. \E ret : Continue(Called(q, q, ret), [c EXCEPT !.mark["body"] = 0], c.pos)
            BY <2>9, <4>2 DEF DataThen
          <5>2. \E r \in {q, Error(q, "HPE_CB")} : Continue(r, [c EXCEPT !.mark["body"] = 0], c.pos)
            BY <5>1 DEF Called
          <5>3. Error(q, "HPE_CB").http_errno = "HPE_CB"
            BY <2>6 DEF Error, Parser
          <5>4. Continue(q, [c EXCEPT !.mark["body"] = 0], c.pos)
            BY <3>2, <5>2, <5>3 DEF Continue, Return, NoCall
          <5>5. parser' = q /\ call' = [c EXCEPT !.mark["body"] = 0]
            BY <2>6, <5>4, Continued
          <5> QED
            BY <2>4, <5>5 DEF CallLike
        <4> QED
          BY <4>1, <4>2
      <3> QED
        BY <1>1, <2>1, <2>6, <3>1, <3>2 DEF k, Eaten
    <2>10. CASE Continue(p, d, call.pos)
      <3>1. Forth
        BY <1>1, <2>1, <2>3, <2>5, <2>8, <2>10, ContinueForth
      <3>2. call' = e
        BY <2>1, <2>5, <2>10, Continued
      <3> QED
        BY <1>1, <2>1, <2>3, <3>1, <3>2 DEF k, Eaten
    <2> QED
      BY <2>7, <2>9, <2>10
  <1> QED
    BY <1>4, <1>5, <1>6

LEMMA RunForth ==
    ASSUME StepsForth, Run
    PROVE  /\ Forth
           /\ Eaten(parser, call) \in Nat /\ Eaten(parser, call) + Passed <= call.len
           /\ call'.active => Eaten(parser', call') >= Eaten(parser, call) + Passed
  <1>1. /\ call \in CallLike /\ call.pos \in Nat /\ call.len \in Nat /\ call.pos <= call.len
        /\ call.cur # NoByte => call.pos < call.len
        /\ parser \in Parser /\ IInv
    BY OnwardsFacts DEF StepsForth, Within, PInv
  <1>2. call'.pos \in Nat
    <2>1. call' \in Call
      BY WithinFacts DEF StepsForth
    <2> QED
      BY <2>1, MaxLenAssumption DEF Call
  <1>3. ASSUME NEW n \in Nat, call.pos + n <= call.len,
               call.cur # NoByte => parser.state # "s_message_done", Passed = n,
               Forth, call'.active => Eaten(parser', call') >= call.pos + n
        PROVE  /\ Forth
               /\ Eaten(parser, call) \in Nat /\ Eaten(parser, call) + Passed <= call.len
               /\ call'.active => Eaten(parser', call') >= Eaten(parser, call) + Passed
    BY <1>1, <1>3 DEF Eaten
  <1>4. ASSUME Forth, call'.active PROVE Eaten(parser', call') >= call.pos
    BY <1>1, <1>2, <1>4 DEF Forth, Eaten
  <1>5. CASE call.cur = NoByte
    <2>1. Forth
      <3>1. ~Switch
        BY <1>5 DEF Switch, At, Dead, StartRes, Version,
           FirstStatusCode, StatusCode, StatusStart, Status, ResLineAlmostDone,
           HeaderFieldStart, HeaderField, HeaderValueDiscardWs, HeaderValueStart,
           HeaderValueCR, HeaderValueLF, HeaderValueByte, HeaderValueSkip, InValue,
           HeaderAlmostDone, HeaderValueLws, HeaderValueDiscardWsAlmostDone,
           HeaderValueDiscardLws, HeadersAlmostDone, HeadersDone, BodyIdentity,
           BodyIdentityEof, MessageDone, ChunkSizeStart, ChunkSize, ChunkParameters,
           ChunkSizeAlmostDone, ChunkData, ChunkDataAlmostDone, ChunkDataDone
      <3> QED
        BY <3>1, BufferForth DEF Run
    <2>2. Passed = 0 /\ call.pos + 0 <= call.len /\ 0 \in Nat /\ call.pos + 0 = call.pos
      BY <1>1, <1>5 DEF Passed
    <2> QED
      BY <1>3, <1>4, <1>5, <2>1, <2>2
  <1>6. CASE call.cur # NoByte /\ Switch
    <2>1. CASE MessageDone
      <3>1. parser.state = "s_message_done" /\ Eaten(parser, call) = call.pos + 1 /\ Passed = 0
        BY <1>6, <2>1 DEF MessageDone, At, Eaten, Passed, BodyReading
      <3>2. Forth /\ (call'.active => call'.pos >= call.pos + 1)
        BY <1>1, <2>1, CompleteForth, OnwardsFacts DEF MessageDone
      <3>3. Eaten(parser', call') >= call'.pos
        BY <1>2 DEF Eaten
      <3> HIDE DEF Eaten
      <3>4. ASSUME call'.active PROVE Eaten(parser', call') >= Eaten(parser, call) + Passed
        <4>1. call'.pos >= call.pos + 1
          BY <3>2, <3>4
        <4>2. Eaten(parser', call') \in Nat
          BY <1>2 DEF Eaten
        <4> QED
          BY <1>1, <1>2, <3>1, <3>3, <4>1, <4>2
      <3> QED
        BY <1>1, <1>6, <3>1, <3>2, <3>4
    <2>2. CASE BodyIdentity \/ BodyIdentityEof \/ ChunkData
      <3>1. parser.state # "s_message_done"
        BY <2>2 DEF BodyIdentity, BodyIdentityEof, ChunkData, At
      <3>2. Passed \in Nat /\ call.pos + Passed <= call.len
        <4>1. CASE BodyIdentityEof
          BY <1>1, <1>6, <4>1 DEF BodyIdentityEof, At, Passed
        <4>2. ASSUME NEW s \in {"s_body_identity", "s_chunk_data"}, At(s)
              PROVE  Passed \in Nat /\ call.pos + Passed <= call.len
          <5>1. ToRead \in Nat /\ call.pos + ToRead <= call.len
            BY <1>1, <4>2, ToReadInv
          <5> QED
            BY <1>1, <4>2, <5>1 DEF Passed, At
        <4> QED
          BY <2>2, <4>1, <4>2 DEF BodyIdentity, ChunkData
      <3>3. Forth /\ (call'.active => Eaten(parser', call') >= call.pos + Passed)
        BY <2>2, BodyForth
      <3> QED
        BY <1>3, <3>1, <3>2, <3>3
    <2>3. CASE ~(MessageDone \/ BodyIdentity \/ BodyIdentityEof \/ ChunkData)
      <3>1. Forth
        BY <1>6, <2>3, HeadForth, ValueForth, EndForth DEF Switch
      <3>2. parser.state # "s_message_done" /\ parser.state \notin BodyReading
        BY <1>6, <2>3 DEF BodyReading, Switch, At, Dead, StartRes, Version,
           FirstStatusCode, StatusCode, StatusStart, Status, ResLineAlmostDone,
           HeaderFieldStart, HeaderField, HeaderValueDiscardWs, HeaderValueStart,
           HeaderValueCR, HeaderValueLF, HeaderValueByte, HeaderValueSkip, InValue,
           HeaderAlmostDone, HeaderValueLws, HeaderValueDiscardWsAlmostDone,
           HeaderValueDiscardLws, HeadersAlmostDone, HeadersDone, ChunkSizeStart, ChunkSize,
           ChunkParameters, ChunkSizeAlmostDone, ChunkDataAlmostDone, ChunkDataDone
      <3>3. Passed = 0 /\ call.pos + 0 <= call.len /\ 0 \in Nat /\ call.pos + 0 = call.pos
        BY <1>1, <3>2 DEF Passed
      <3> QED
        BY <1>3, <1>4, <3>1, <3>2, <3>3
    <2> QED
      BY <2>1, <2>2, <2>3
  <1>7. CASE call.cur # NoByte /\ ~Switch
    BY <1>7 DEF Run, Fetch, LeaveInnerLoop, EndOfBuffer
  <1> QED
    BY <1>5, <1>6, <1>7

-----------------------------------------------------------------------------
(* The invariant of a client *)

Places    == {"connect", "write", "read", "parse", "check", "finish", "exit", "done", "crashed"}
InBuffer  == 0..BufferSize
ClientRec == [at : Places, ret : {0, -1}, sent : Nat, received : InBuffer, bytes : InBuffer]

\* Nothing has been read
Unread == wire.body = 0 /\ NoError /\ client.received = 0

\* The piece that was read lies in the buffer behind what was received before
Reading == client.bytes > 0 /\ client.received + client.bytes <= BufferSize

\* An error between two messages leaves a byte of the piece
Noticed == parser.state \in Fresh /\ ~NoError => nparsed < client.bytes

\* What was received has been taken in full, and without an error before a new message
Settled == wire.body <= client.received /\ (parser.state \in Fresh => NoError)

\* What is so at each place.  The bytes of the body are among those that were received:
\* this is what keeps the count of the body below the range of an unsigned int
Placed ==
    /\ Here("connect") \/ Here("write") => Unread
    /\ Here("parse") => /\ Reading /\ call.active /\ call.len = client.bytes
                        /\ wire.body <= client.received + Eaten(parser, call)
    /\ Here("check") => /\ Reading /\ Noticed
                        /\ wire.body <= client.received + client.bytes
    /\ Here("read") \/ Here("finish") => Settled
    /\ (Here("exit") \/ Here("done")) /\ client.ret = 0 => Settled
    /\ ~(Here("exit") \/ Here("done") \/ Here("crashed")) => client.ret = 0

ClientInv ==
    /\ HeadersInv
    /\ client \in ClientRec
    /\ freed => Here("done")
    /\ res.null => Here("connect") \/ Here("crashed")
    /\ call.active => Here("parse") \/ Here("crashed")
    /\ RunCounts(parser, call)
    /\ Placed

\* The parser's part of a client's step
LEMMA ClientHandles ==
    ASSUME ClientInv, [CNext]_cvars
    PROVE  RStep
  <1>1. ASSUME NEW c, Response(c), EngineStep, Here("read") \/ Here("parse") \/ Here("finish")
        PROVE  RStep
    <2>1. ~freed /\ ~res.null
      BY <1>1 DEF ClientInv, Here
    <2> QED
      BY <1>1, <2>1 DEF Response, RStep, Handled
  <1>2. CASE Receive
    <2>1. PICK n \in 1..Lesser(MaxLen, BufferSize - client.received) :
             /\ Execute(n)
             /\ Response([client EXCEPT !.bytes = n,
                                        !.at = IF call'.active THEN "parse" ELSE "check"])
      BY <1>2 DEF Receive
    <2>2. n \in 1..MaxLen
      BY MaxLenAssumption, ClientAssumption, UintAssumption
         DEF Lesser, ClientInv, ClientRec, InBuffer
    <2> QED
      BY <1>1, <1>2, <2>1, <2>2 DEF EngineStep, Receive
  <1>3. CASE Parsing
    BY <1>1, <1>3 DEF Parsing, EngineStep
  <1>4. CASE Finishing
    BY <1>1, <1>4 DEF Finishing, EngineStep
  <1>5. CASE Exit
    <2>1. ~freed /\ ~res.null /\ ~call.active
      BY <1>5 DEF Exit, ClientInv, Here
    <2> QED
      BY <1>5, <2>1 DEF Exit, RStep, Free
  <1>6. CASE Connect \/ Write \/ ReadNothing \/ Check \/ Disconnect \/ UNCHANGED cvars
    BY <1>6 DEF Connect, Write, ReadNothing, Check, Quiet, Disconnect, RStep, cvars
  <1> QED
    BY <1>2, <1>3, <1>4, <1>5, <1>6 DEF CNext, Client, Over

LEMMA ClientInvInit ==
    ASSUME CInit PROVE ClientInv
  <1>1. RInit /\ client = [at |-> "connect", ret |-> 0, sent |-> 0, received |-> 0, bytes |-> 0]
    BY DEF CInit
  <1>2. HeadersInv
    BY <1>1, HeadersInvInit
  <1>3. call = NoCall /\ freed = FALSE /\ wire.body = 0 /\ NoError
    BY <1>1 DEF RInit, PInit, Init, http_parser_init, NoError
  <1>4. client \in ClientRec
    BY <1>1, ClientAssumption, UintAssumption DEF ClientRec, Places, InBuffer
  <1> QED
    BY <1>1, <1>2, <1>3, <1>4 DEF ClientInv, Placed, Here, Unread, RunCounts, NoCall

\* The parts that only speak of the parser stay as they are.
LEMMA QuietSame ==
    ASSUME UNCHANGED rvars
    PROVE  /\ parser' = parser /\ call' = call /\ nparsed' = nparsed /\ freed' = freed
           /\ res' = res /\ wire' = wire
           /\ NoError' = NoError /\ Settled' = (wire.body <= client'.received
                                                /\ (parser.state \in Fresh => NoError))
           /\ Unread' = (wire.body = 0 /\ NoError /\ client'.received = 0)
  BY DEF rvars, pvars, vars, NoError, Settled, Unread

LEMMA ConnectInv ==
    ASSUME ClientInv, HeadersInv', Connect \/ Write PROVE ClientInv'
  <1>1. UNCHANGED rvars /\ client \in ClientRec
    BY DEF Connect, Write, Quiet, ClientInv
  <1>2. Here("connect") \/ Here("write")
    BY DEF Connect, Write
  <1>3. /\ Unread /\ client.ret = 0 /\ ~freed /\ ~call.active /\ Settled
        /\ res.null => Here("connect")
    BY <1>2 DEF ClientInv, Placed, Here, Settled, Unread
  <1>4. /\ client' \in ClientRec /\ client'.received = client.received
        /\ \/ client'.at \in {"write", "read"} /\ client'.ret = 0 /\ ~res.null
           \/ client'.at \in {"exit", "done"} /\ client'.ret = -1 /\ ~res.null
           \/ client'.at = "crashed" /\ client'.ret = 0
    <2> DEFINE Goes(at, ret) == /\ client' \in ClientRec /\ client'.received = client.received
                                /\ client'.at = at /\ client'.ret = ret
    <2>1. ASSUME NEW at \in Places, Go(at) PROVE Goes(at, 0)
      BY <1>1, <1>3, <2>1 DEF ClientRec, Go
    <2>2. ASSUME NEW at \in Places, client' = [client EXCEPT !.ret = -1, !.at = at]
          PROVE  Goes(at, -1)
      BY <1>1, <2>2 DEF ClientRec
    <2>3. CASE Connect
      <3>1. CASE res.null /\ Go("crashed")
        BY <2>1, <3>1 DEF Places
      <3>2. CASE ~res.null /\ Go("write")
        BY <2>1, <3>2 DEF Places
      <3>3. CASE /\ ~res.null
                 /\ \E at \in {"exit", "done"} : client' = [client EXCEPT !.ret = -1, !.at = at]
        BY <2>2, <3>3 DEF Places
      <3> QED
        BY <2>3, <3>1, <3>2, <3>3 DEF Connect, GiveUp
    <2>4. CASE Write
      <3>1. ~res.null
        BY <1>3, <2>4 DEF Write, Here
      <3>2. ASSUME NEW n \in 1..(RequestSize - client.sent), NEW at \in {"write", "read"},
                   client' = [client EXCEPT !.sent = client.sent + n, !.at = at]
            PROVE  Goes(at, 0)
        <4> DEFINE m == client.sent + n
        <4>1. m \in Nat
          BY <1>1, ClientAssumption DEF ClientRec
        <4>2. client' = [client EXCEPT !.sent = m, !.at = at]
          BY <3>2
        <4> HIDE DEF m
        <4> QED
          BY <1>1, <1>3, <4>1, <4>2 DEF ClientRec, Places
      <3>3. CASE \E n \in 1..(RequestSize - client.sent), at \in {"write", "read"} :
                    client' = [client EXCEPT !.sent = client.sent + n, !.at = at]
        BY <3>1, <3>2, <3>3
      <3>4. CASE Go("read")
        BY <2>1, <3>1, <3>4 DEF Places
      <3>5. CASE GiveUp
        BY <2>2, <3>1, <3>5 DEF GiveUp, Places
      <3> QED
        BY <2>4, <3>3, <3>4, <3>5 DEF Write
    <2> QED
      BY <2>3, <2>4
  <1>5. Placed'
    BY <1>1, <1>3, <1>4, QuietSame DEF Placed, Here, Unread, Settled
  <1> QED
    BY <1>1, <1>3, <1>4, <1>5, QuietSame DEF ClientInv, Here

LEMMA CheckInv ==
    ASSUME ClientInv, HeadersInv', Check PROVE ClientInv'
  <1>1. /\ UNCHANGED rvars /\ client \in ClientRec /\ client' = Checked(client)
        /\ Reading /\ Noticed /\ client.ret = 0 /\ ~freed /\ ~call.active /\ ~res.null
        /\ wire.body <= client.received + client.bytes
    BY DEF Check, Quiet, ClientInv, Placed, Here
  <1>2. CASE nparsed # client.bytes
    <2>1. client' = [client EXCEPT !.ret = -1, !.at = "exit"]
      BY <1>1, <1>2 DEF Checked
    <2>2. client' \in ClientRec /\ client'.at = "exit" /\ client'.ret = -1
      BY <1>1, <2>1 DEF ClientRec, Places
    <2>3. Placed'
      BY <2>2 DEF Placed, Here
    <2> QED
      BY <1>1, <2>2, <2>3, QuietSame DEF ClientInv, Here
  <1>3. CASE nparsed = client.bytes
    <2> DEFINE m  == client.received + client.bytes
               at == CASE res.is_message_completed -> "finish"
                       [] ~res.is_message_completed
                          /\ client.received + client.bytes < BufferSize -> "read"
                       [] OTHER -> "exit"
    <2>1. m \in InBuffer
      BY <1>1, ClientAssumption, UintAssumption DEF ClientRec, InBuffer, Reading
    <2>2. at \in {"finish", "read", "exit"}
      OBVIOUS
    <2>3. client' = [client EXCEPT !.received = m, !.at = at]
      BY <1>1, <1>3 DEF Checked
    <2>4. wire.body <= m /\ (parser.state \in Fresh => NoError)
      <3>1. ~(nparsed < client.bytes)
        BY <1>1, <1>3, ClientAssumption, UintAssumption DEF ClientRec, InBuffer
      <3> QED
        BY <1>1, <3>1 DEF Noticed
    <2> HIDE DEF m, at
    <2>5. client' \in ClientRec /\ client'.at = at /\ client'.ret = 0 /\ client'.received = m
      BY <1>1, <2>1, <2>2, <2>3 DEF ClientRec, Places
    <2>6. Placed'
      BY <1>1, <2>2, <2>4, <2>5, QuietSame DEF Placed, Here
    <2> QED
      BY <1>1, <2>2, <2>5, <2>6, QuietSame DEF ClientInv, Here
  <1> QED
    BY <1>2, <1>3

LEMMA ReadNothingInv ==
    ASSUME ClientInv, HeadersInv', ReadNothing PROVE ClientInv'
  <1>1. /\ UNCHANGED rvars /\ client \in ClientRec
        /\ client' = [client EXCEPT !.ret = -1, !.at = "exit"]
        /\ ~freed /\ ~call.active /\ ~res.null
    BY DEF ReadNothing, GiveUp, Quiet, ClientInv, Here
  <1>2. client' \in ClientRec /\ client'.at = "exit" /\ client'.ret = -1
    BY <1>1 DEF ClientRec, Places
  <1>3. Placed'
    BY <1>2 DEF Placed, Here
  <1> QED
    BY <1>1, <1>2, <1>3, QuietSame DEF ClientInv, Here

\* The server's steps, and none at all, change nothing of the client.
LEMMA ClientSame ==
    ASSUME ClientInv, HeadersInv', UNCHANGED <<rvars, client>> PROVE ClientInv'
  <1>1. /\ client' = client /\ UNCHANGED rvars
        /\ \A place : Here(place)' = Here(place)
    BY DEF Here
  <1>2. /\ Settled' = Settled /\ Unread' = Unread /\ NoError' = NoError
        /\ parser' = parser /\ call' = call /\ wire' = wire /\ nparsed' = nparsed
        /\ freed' = freed /\ res' = res
    BY <1>1, QuietSame DEF Settled, Unread
  <1>3. Reading' = Reading /\ Noticed' = Noticed
    BY <1>1, <1>2 DEF Reading, Noticed
  <1>4. Placed'
    BY <1>1, <1>2, <1>3 DEF ClientInv, Placed, Here
  <1> QED
    BY <1>1, <1>2, <1>4 DEF ClientInv, Here

LEMMA ExitInv ==
    ASSUME ClientInv, HeadersInv', Exit PROVE ClientInv'
  <1>1. /\ client \in ClientRec /\ client' = [client EXCEPT !.at = "done"]
        /\ Here("exit") /\ ~freed /\ ~call.active /\ ~res.null /\ (client.ret = 0 => Settled)
        /\ UNCHANGED <<parser, call, wire>>
        /\ res' = [res EXCEPT !.live = res.live - Freed] /\ ResInv(res)
    BY DEF Exit, Go, ClientInv, Placed, Here, pvars, vars, FreeResponse, HeadersInv, BodyInv, RInv
  <1>2. /\ client' \in ClientRec /\ client'.at = "done" /\ client'.ret = client.ret
        /\ client'.received = client.received
    BY <1>1 DEF ClientRec, Places
  <1>3. res'.null = res.null
    BY <1>1 DEF ResInv, ResponseType
  <1>4. Placed'
    BY <1>1, <1>2 DEF Placed, Here, Settled, NoError
  <1> QED
    BY <1>1, <1>2, <1>3, <1>4 DEF ClientInv, Here

-----------------------------------------------------------------------------
(* The steps that run the parser *)

\* A step either ends the process or leaves the client where it has to be.
LEMMA Responded ==
    ASSUME ClientInv, HeadersInv', NEW c \in ClientRec, Response(c), ~freed,
           RunCounts(parser', call'), call'.active => c.at = "parse",
           client' = c => Placed'
    PROVE  ClientInv'
  <1>1. client' = (IF res'.null THEN [c EXCEPT !.at = "crashed"] ELSE c) /\ freed' = freed
    BY DEF Response
  <1>2. CASE res'.null
    <2>1. client' \in ClientRec /\ client'.at = "crashed"
      BY <1>1, <1>2 DEF ClientRec, Places
    <2>2. Placed'
      BY <2>1 DEF Placed, Here
    <2> QED
      BY <1>1, <1>2, <2>1, <2>2 DEF ClientInv, Here
  <1>3. CASE ~res'.null
    BY <1>1, <1>3 DEF ClientInv, Here
  <1> QED
    BY <1>2, <1>3

LEMMA ResponseFacts ==
    ASSUME ClientInv, HeadersInv', NEW c, Response(c), EngineStep
    PROVE  /\ wire'.body = wire.body + Passed /\ wire.body \in Nat /\ Passed \in Nat
           /\ History /\ Respond
           /\ IInv /\ PInv /\ IInv' /\ client \in ClientRec
           /\ last' = IF cb' = NoCb THEN last ELSE cb'.for
  <1>1. RInv /\ PInv' /\ wire \in Wire /\ History /\ Respond
    BY DEF ClientInv, HeadersInv, BodyInv, RInv, Response
  <1>2. wire.body \in Nat /\ PInv /\ IInv /\ IInv' /\ last' = IF cb' = NoCb THEN last ELSE cb'.for
    BY <1>1 DEF Wire, RInv, PInv, History
  <1> QED
    BY <1>1, <1>2, StepPasses DEF ClientInv

LEMMA ReceiveInv ==
    ASSUME ClientInv, HeadersInv', Receive PROVE ClientInv'
  <1>1. PICK n \in 1..Lesser(MaxLen, BufferSize - client.received) :
           /\ Execute(n)
           /\ Response([client EXCEPT !.bytes = n,
                                      !.at = IF call'.active THEN "parse" ELSE "check"])
    BY DEF Receive
  <1> DEFINE at == IF call'.active THEN "parse" ELSE "check"
             c  == [client EXCEPT !.bytes = n, !.at = at]
  <1>2. /\ client \in ClientRec /\ Settled /\ client.ret = 0 /\ ~freed /\ ~call.active
        /\ client.received \in Nat
    BY ClientAssumption, UintAssumption DEF Receive, ClientInv, Placed, Here, ClientRec, InBuffer
  <1>3. n \in Nat /\ n > 0 /\ n <= MaxLen /\ n \in InBuffer /\ client.received + n <= BufferSize
    BY <1>2, MaxLenAssumption, ClientAssumption, UintAssumption DEF Lesser, InBuffer
  <1>4. at \in {"parse", "check"} /\ (call'.active <=> at = "parse")
    OBVIOUS
  <1>5. Execute(n) /\ Response(c) /\ EngineStep
    BY <1>1, <1>3 DEF EngineStep
  <1>6. /\ wire'.body = wire.body + Passed /\ wire.body \in Nat /\ History
        /\ parser' = parser /\ Passed = 0
    BY <1>2, <1>5, ResponseFacts DEF Execute, Passed
  <1>7. \/ /\ call'.active /\ call'.len = n /\ call'.pos = 0 /\ call'.run = 0 /\ call'.cur = NoByte
        \/ ~call'.active /\ nparsed' = 0
    <2>1. CASE parser.http_errno = "HPE_OK"
      BY <1>5, <2>1 DEF Execute, NoCall
    <2>2. CASE parser.http_errno # "HPE_OK"
      BY <1>2, <1>5, <2>2 DEF Execute
    <2> QED
      BY <2>1, <2>2
  <1> HIDE DEF at
  <1>8. c \in ClientRec /\ c.at = at /\ c.ret = 0 /\ c.received = client.received /\ c.bytes = n
    BY <1>2, <1>3, <1>4 DEF ClientRec, Places
  <1> HIDE DEF c
  <1>9. RunCounts(parser', call')
    BY <1>7 DEF RunCounts
  <1>10. ASSUME client' = c PROVE Placed'
    <2>1. wire'.body <= client'.received
      BY <1>2, <1>6, <1>8, <1>10 DEF Settled
    <2>2. Reading'
      BY <1>3, <1>8, <1>10 DEF Reading
    <2>3. CASE call'.active
      <3>1. call'.len = n /\ Eaten(parser', call') = 0
        BY <1>7, <2>3 DEF Eaten
      <3>2. wire'.body <= client'.received + Eaten(parser', call')
        BY <1>2, <1>8, <1>10, <2>1, <3>1
      <3>3. client'.at = "parse" /\ client'.ret = 0 /\ client'.bytes = n
        BY <1>4, <1>8, <1>10, <2>3
      <3> HIDE DEF Eaten
      <3> QED
        BY <2>2, <2>3, <3>1, <3>2, <3>3 DEF Placed, Here
    <2>4. CASE ~call'.active
      <3>1. client'.at = "check" /\ client'.ret = 0 /\ client'.bytes = n
        BY <1>4, <1>8, <1>10, <2>4
      <3>2. Noticed'
        BY <1>3, <1>7, <2>4, <3>1 DEF Noticed
      <3>3. wire'.body <= client'.received + client'.bytes
        BY <1>2, <1>3, <1>6, <1>8, <1>10, <2>1, <3>1
      <3> QED
        BY <2>2, <3>1, <3>2, <3>3 DEF Placed, Here
    <2> QED
      BY <2>3, <2>4
  <1> QED
    BY <1>2, <1>4, <1>5, <1>8, <1>9, <1>10, Responded

LEMMA ParsingInv ==
    ASSUME ClientInv, HeadersInv', Parsing PROVE ClientInv'
  <1> DEFINE at == IF call'.active THEN "parse" ELSE "check"
             c  == [client EXCEPT !.at = at]
  <1>1. Run /\ Response(c) /\ EngineStep
    BY DEF Parsing, EngineStep
  <1>2. /\ client \in ClientRec /\ client.ret = 0 /\ ~freed
        /\ call.active /\ call.len = client.bytes /\ Reading
        /\ wire.body <= client.received + Eaten(parser, call)
        /\ RunCounts(parser, call)
    BY DEF Parsing, ClientInv, Placed, Here
  <1>3. /\ wire'.body = wire.body + Passed /\ wire.body \in Nat /\ Passed \in Nat
        /\ Respond /\ PInv /\ IInv' /\ last' = IF cb' = NoCb THEN last ELSE cb'.for
    BY <1>1, ResponseFacts
  <1>4. StepsForth
    <2>1. eof' = eof
      BY <1>1, RunInCall
    <2> QED
      BY <1>2, <1>3, <2>1 DEF StepsForth, Within
  <1>5. /\ Forth /\ Eaten(parser, call) \in Nat /\ Eaten(parser, call) + Passed <= call.len
        /\ call'.active => Eaten(parser', call') >= Eaten(parser, call) + Passed
    BY <1>1, <1>4, RunForth
  <1>6. at \in {"parse", "check"} /\ (call'.active <=> at = "parse")
    OBVIOUS
  <1> HIDE DEF at
  <1>7. /\ c \in ClientRec /\ c.at = at /\ c.ret = 0 /\ c.received = client.received
        /\ c.bytes = client.bytes
    BY <1>2, <1>6 DEF ClientRec, Places
  <1>8. client.received \in Nat /\ client.bytes \in Nat
    BY <1>2, ClientAssumption, UintAssumption DEF ClientRec, InBuffer
  <1> HIDE DEF c
  <1>9. RunCounts(parser', call')
    BY <1>5 DEF Forth, RunCounts
  <1>10. ASSUME client' = c PROVE Placed'
    <2>1. Reading' /\ client'.bytes = client.bytes /\ client'.received = client.received
          /\ client'.at = at /\ client'.ret = 0
      BY <1>2, <1>7, <1>10 DEF Reading
    <2>2. CASE call'.active
      <3>1. call'.len = client'.bytes
        BY <1>2, <1>5, <2>1, <2>2 DEF Forth
      <3>2. Eaten(parser', call') \in Nat
        <4>1. call' \in Call
          BY <1>3 DEF IInv, StateInv
        <4> QED
          BY <4>1, MaxLenAssumption DEF Eaten, Call
      <3>3. wire'.body <= client'.received + Eaten(parser', call')
        <4> HIDE DEF Eaten
        <4> QED
          BY <1>2, <1>3, <1>5, <1>8, <2>1, <2>2, <3>2
      <3> QED
        BY <1>6, <2>1, <2>2, <3>1, <3>3 DEF Placed, Here
    <2>3. CASE ~call'.active
      <3>1. Noticed'
        BY <1>2, <1>5, <2>1 DEF Forth, Noticed, NoError
      <3>2. wire'.body <= client'.received + client'.bytes
        BY <1>2, <1>3, <1>5, <1>8, <2>1
      <3> QED
        BY <1>6, <2>1, <2>3, <3>1, <3>2 DEF Placed, Here
    <2> QED
      BY <2>2, <2>3
  <1> QED
    BY <1>1, <1>2, <1>6, <1>7, <1>9, <1>10, Responded

LEMMA FinishingInv ==
    ASSUME ClientInv, HeadersInv', Finishing PROVE ClientInv'
  <1> DEFINE c == [client EXCEPT !.at = "exit"]
  <1>1. Finish /\ Response(c) /\ EngineStep
    BY DEF Finishing, EngineStep
  <1>2. client \in ClientRec /\ client.ret = 0 /\ ~freed /\ ~call.active /\ Settled
    BY DEF Finishing, ClientInv, Placed, Here
  <1>3. /\ wire'.body = wire.body + Passed /\ wire.body \in Nat /\ Respond /\ IInv
    BY <1>1, ResponseFacts
  <1>4. Passed = 0
    BY <1>2 DEF Passed
  <1>5. c \in ClientRec /\ c.at = "exit" /\ c.ret = 0 /\ c.received = client.received
    BY <1>2 DEF ClientRec, Places
  <1> HIDE DEF c
  <1>6. call' = NoCall /\ (parser'.state \in Fresh /\ NoError => NoError')
    <2>1. CASE parser.http_errno # "HPE_OK"
      BY <1>1, <2>1 DEF Finish, Return, NoError
    <2>2. CASE parser.http_errno = "HPE_OK" /\ parser.state = "s_body_identity_eof"
      <3>1. PICK ret \in CbRet :
               /\ cb' = [for |-> "message_complete", at |-> 0, n |-> 0, ret |-> ret]
               /\ Return(Called(parser, parser, ret), 0)
        BY <1>1, <2>2 DEF Finish
      <3>2. cb'.for = "message_complete" /\ cb'.ret = ret
        BY <3>1
      <3>3. ret = 0
        BY <1>3, <3>2, PlainReturns
      <3> QED
        BY <3>1, <3>3 DEF Return, Called, NoError
    <2>3. CASE parser.http_errno = "HPE_OK" /\ parser.state \in {"s_dead", "s_start_res"}
      BY <1>1, <2>3 DEF Finish, Return, NoError
    <2>4. CASE /\ parser.http_errno = "HPE_OK"
               /\ parser.state \notin {"s_dead", "s_start_res", "s_body_identity_eof"}
      <3>1. Return(Error(parser, "HPE_INVALID_EOF_STATE"), 1)
        BY <1>1, <2>4 DEF Finish
      <3>2. Error(parser, "HPE_INVALID_EOF_STATE").state = parser.state
        BY <1>3 DEF Error, IInv, StateInv, ParserInv, Parser
      <3> QED
        BY <2>4, <3>1, <3>2 DEF Return, Fresh
    <2> QED
      BY <2>1, <2>2, <2>3, <2>4
  <1>7. parser'.state = parser.state
    <2>1. parser' = parser \/ \E e : parser' = Error(parser, e)
      BY <1>1 DEF Finish, Return, Called
    <2>2. parser \in Parser
      BY <1>3 DEF IInv, StateInv, ParserInv
    <2> QED
      BY <2>1, <2>2 DEF Error, Parser
  <1>8. Settled' \/ client' # c
    BY <1>2, <1>3, <1>4, <1>5, <1>6, <1>7 DEF Settled
  <1>9. client' = c => Placed'
    BY <1>5, <1>8 DEF Placed, Here
  <1>10. RunCounts(parser', call') /\ ~call'.active
    BY <1>6 DEF NoCall, RunCounts
  <1> QED
    BY <1>1, <1>2, <1>5, <1>9, <1>10, Responded

LEMMA ClientInvNext ==
    ASSUME ClientInv, [CNext]_cvars PROVE ClientInv'
  <1>1. HeadersInv'
    BY ClientHandles, HeadersInvNext DEF ClientInv
  <1>2. CASE Connect \/ Write
    BY <1>1, <1>2, ConnectInv
  <1>3. CASE ReadNothing
    BY <1>1, <1>3, ReadNothingInv
  <1>4. CASE Parsing
    BY <1>1, <1>4, ParsingInv
  <1>5. CASE Check
    BY <1>1, <1>5, CheckInv
  <1>6. CASE Finishing
    BY <1>1, <1>6, FinishingInv
  <1>7. CASE Exit
    BY <1>1, <1>7, ExitInv
  <1>8. CASE Receive
    BY <1>1, <1>8, ReceiveInv
  <1>9. CASE Disconnect \/ UNCHANGED cvars
    <2>1. UNCHANGED <<rvars, client>>
      BY <1>9 DEF Disconnect, cvars
    <2> QED
      BY <1>1, <2>1, ClientSame
  <1> QED
    BY <1>2, <1>3, <1>4, <1>5, <1>6, <1>7, <1>8, <1>9 DEF CNext, Client

\* Where a client that succeeded is done, the parser is between two messages without an
\* error, no name is open, and the bytes of the body are too few for the count to wrap.
LEMMA AnswerStep ==
    ASSUME ClientInv PROVE ResponseIsAnswer
  <1> SUFFICES ASSUME outcome = "complete", parser.state \in Fresh
               PROVE  /\ res.headers_count = Len(wire.names)
                      /\ Texts(res.header_fields) = wire.names
                      /\ res.body_length = wire.body
                      /\ body_cb = "NULL" => res.body_offset = wire.body
    BY DEF ResponseIsAnswer, Fresh
  <1>1. Here("done") /\ client.ret = 0
    BY DEF outcome
  <1>2. NoError /\ wire.body <= client.received /\ call = NoCall
    <2>1. Settled /\ ~call.active /\ StateInv(parser, call)
      BY <1>1 DEF ClientInv, Placed, Here, HeadersInv, BodyInv, RInv, PInv, IInv
    <2> QED
      BY <2>1 DEF Settled, StateInv
  <1>3. HeadersTold /\ BodyCounted /\ Linked /\ LastOK(parser, last) /\ ResInv(res) /\ wire \in Wire
    BY <1>2 DEF ClientInv, HeadersInv, BodyInv, RInv, PInv
  <1>4. wire.names = Names /\ Counts
    <2>1. parser.state # "s_header_field"
      BY DEF Fresh
    <2> QED
      BY <1>3, <2>1 DEF HeadersTold, NamesTold
  <1>5. ~res.concat_header_field
    <2>1. phase = PhaseFor(parser, last, eof)
      BY Mapping
    <2>2. phase = HeadPhaseOf(last)
      BY <1>2, <2>1, PhaseFacts DEF Fresh, NoError
    <2>3. last \in {"none", "message_begin", "message_complete"}
      BY <1>2, <1>3 DEF LastOK, Fresh, NoError
    <2>4. phase \in {"begun", "idle"}
      BY <2>2, <2>3 DEF HeadPhaseOf
    <2> QED
      BY <1>3, <2>4 DEF Linked
  <1>6. res.headers_count = Len(wire.names)
    <2>1. res.header_fields \in Seq(Block) /\ res.headers_count \in Nat
      BY <1>3 DEF ResInv, ResponseType
    <2>2. Len(Names) = Len(res.header_fields)
      BY <2>1, TextsType DEF Names
    <2>3. Len(res.header_fields) = res.headers_count
      BY <1>4, <1>5, <2>1 DEF Counts
    <2> QED
      BY <1>4, <2>2, <2>3
  <1>7. wire.body % UINT_RANGE = wire.body
    <2>1. wire.body \in 0..(UINT_RANGE - 1)
      BY <1>2, <1>3, ClientAssumption, UintAssumption DEF Wire, ClientInv, ClientRec, InBuffer
    <2> QED
      BY <2>1, UintAssumption
  <1>8. Pending(call) = 0 /\ wire.body - 0 = wire.body
    BY <1>2, <1>3 DEF Pending, NoCall, NoMark, DataCb, Wire
  <1> QED
    BY <1>3, <1>4, <1>6, <1>7, <1>8 DEF BodyCounted, Names

-----------------------------------------------------------------------------
(* The theorems *)

\* A client runs the parser in every run as the parser's own specification has it, and so
\* where the headers are over, and between two calls, the response holds what the peer sent.
\* At every place of the loop the count of the bytes received bounds the bytes of the body.
THEOREM ClientInvariance == CSpec => []ClientInv
  <1>1. CInit => ClientInv
    BY ClientInvInit
  <1>2. ClientInv /\ [CNext]_cvars => ClientInv'
    BY ClientInvNext
  <1> QED
    BY <1>1, <1>2, PTL DEF CSpec

\* ResponseIsAnswer: what a client prints after a success is the answer (temp_cli.c, get_ip.c),
\* for every server, size of the pieces read, limit and allocation that fails, and whatever
\* response_parser_init leaves in body_cb: the response has the headers the server sent, as
\* many as it counts, and the length of the body, and all of the body where body_cb is NULL.
\* Nothing is claimed once a body has been handed to a pointer nobody stored.
THEOREM AnswerDelivered == CSpec => []ResponseIsAnswer
  <1>1. ClientInv => ResponseIsAnswer
    BY AnswerStep
  <1> QED
    BY <1>1, ClientInvariance, PTL

\* HeadersAsSent, BodyAsSent, BodyInBlock and CompletedIsWhole hold of the parser wherever a
\* client calls it, and not only within the bounds of the parser's own specification: the
\* headers and the body a client reads are those sent, and where it stops reading, at the
\* first complete message (get_ip.c:155), it has all the bytes a Content-Length announced.
THEOREM ParserServesClient ==
    CSpec => [](HeadersAsSent /\ BodyAsSent /\ BodyInBlock) /\ CompletedIsWhole
  <1> DEFINE I == ClientInv /\ BlockInv
             A == /\ wire'.messages = 1 /\ wire.messages = 0 /\ declared # ULLONG_MAX
                  /\ "F_CHUNKED" \notin parser'.flags
                  => res'.body_length = declared % UINT_RANGE
  <1>1. CInit => I
    BY ClientInvInit, BlockInvInit DEF CInit
  <1>2. I /\ [CNext]_cvars => I'
    BY ClientInvNext, ClientHandles, BlockInvNext
  <1>3. I => HeadersAsSent /\ BodyAsSent /\ BodyInBlock
    BY HeadersInvSent, BodyInvSent DEF BlockInv, MatchInv, HeadersInv, InBlock, BodyInBlock
  <1>4. I /\ [CNext]_cvars => [A]_rvars
    BY ClientHandles, WholeAtEnd DEF BlockInv
  <1> HIDE DEF I, A
  <1>5. CSpec => [](HeadersAsSent /\ BodyAsSent /\ BodyInBlock) /\ [][A]_rvars
    BY <1>1, <1>2, <1>3, <1>4, PTL DEF CSpec
  <1> QED
    BY <1>5 DEF A, CompletedIsWhole
=============================================================================
