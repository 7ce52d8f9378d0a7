------------------------- MODULE HttpParserProtocol -------------------------
(***************************************************************************)
(* HttpParser implements CallbackProtocol.  The phase is read off the      *)
(* parser's state; in the header states, where the state does not tell     *)
(* whether a string has been delivered yet, off the last callback made,    *)
(* which the history variable last remembers.                              *)
(***************************************************************************)
EXTENDS HttpParser

VARIABLE last

pvars == <<vars, last>>

PInit == Init /\ last = "none"

PNext ==
    \/ /\ (\E n \in 1..MaxLen : Execute(n)) \/ Finish \/ Run
       /\ last' = IF cb' = NoCb THEN last ELSE cb'.for
    \/ Terminated /\ UNCHANGED last

PSpec == PInit /\ [][PNext]_pvars

-----------------------------------------------------------------------------

HeadPhase ==
    CASE last = "status" -> "status"
      [] last = "header_field" -> "name"
      [] last = "header_value" -> "value"
      [] last = "message_begin" -> "begun"
      [] OTHER -> "idle"

TrailerPhase ==
    CASE last = "header_field" -> "tname"
      [] last = "header_value" -> "tvalue"
      [] OTHER -> "trailers"

PhaseOf(s) ==
    CASE s = "s_body_identity" -> "body"
      [] s = "s_body_identity_eof" -> "close"
      [] s \in {"s_chunk_size_start", "s_chunk_size", "s_chunk_parameters",
                "s_chunk_size_almost_done"} -> "chunks"
      [] s \in {"s_chunk_data", "s_chunk_data_almost_done", "s_chunk_data_done"} -> "chunk"
      [] s \in {"s_message_done", "none"} -> "done"

phase ==
    IF parser.http_errno # "HPE_OK" THEN "over"
    ELSE CASE parser.state \in {"s_start_res", "s_dead"} -> HeadPhase
           [] parser.state = "s_headers_done" -> PhaseOf(BodyState(parser))
           [] parser.state = "s_body_identity_eof" /\ eof -> "idle"
           [] parser.state \in {"s_body_identity", "s_message_done", "s_chunk_size_start",
                                "s_chunk_size", "s_chunk_parameters",
                                "s_chunk_size_almost_done"} \cup BodyStates
              /\ ~(parser.state = "s_body_identity_eof" /\ eof) -> PhaseOf(parser.state)
           [] OTHER -> IF "F_TRAILING" \in parser.flags THEN TrailerPhase ELSE HeadPhase

\* Body bytes read from the buffer but not delivered yet
Undelivered == IF call.mark["body"] = 0 THEN 0 ELSE call.pos + 1 - call.mark["body"]

left ==
    IF /\ phase \in {"body", "chunk"}
       /\ parser.state # "s_chunk_data_done"
    THEN parser.content_length + Undelivered ELSE 0

Protocol == INSTANCE CallbackProtocol WITH phase <- phase, left <- left, cb <- cb

\* The engine's callbacks come in the order, and with the body bytes, that
\* CallbackProtocol promises to http_response.c: names before values, one
\* headers_complete before the body, chunk by chunk exactly the announced bytes, and
\* nothing after a callback that failed or an error
ImplementsProtocol == Protocol!Spec
=============================================================================
