------------------------------- MODULE Peers --------------------------------
(* Peers for model checking: what a server may send, by the state that reads it. *)
EXTENDS HttpParser

Words(cs) == {Letters(c) : c \in cs}
Nums(vs)  == {[c |-> "num", v |-> v] : v \in vs}
Vers(vs)  == {[c |-> "ver", v |-> v] : v \in vs}
Codes(vs) == {[c |-> "code", v |-> v] : v \in vs}

\* A peer that sends any of these lexemes anywhere
Anything(bytes) == [s \in State, h \in HeaderState |-> {ch \in bytes : Readable(ch, s)}]

\* Any of the lexemes of the three ways to frame a body
FramingPeer ==
    Anything(Words({"H", "CR", "LF", "SP", ":", "content-", "length", "transfer-",
                    "encoding", "ch", "unked"})
             \cup Nums(0..2) \cup Vers({1}) \cup Codes({200, 204}))

\* Connection values and upgrades, on HTTP/1.0 and HTTP/1.1
ConnectionPeer ==
    Anything(Words({"H", "LF", ":", ",", "connec", "tion", "up", "grade", "cl", "ose",
                    "keep-", "alive", "x"})
             \cup Vers({0, 1}) \cup Codes({200, 304}))

-----------------------------------------------------------------------------
(* Peers that send well-formed messages *)

StatusLine(s) ==
    CASE s = "s_start_res"              -> Words({"H"})
      [] s = "s_res_H"                  -> Vers({1})
      [] s = "s_res_first_status_code"  -> Codes({200})
      [] s = "s_res_status_code"        -> Words({"LF"})
      [] s = "s_res_status_start"       -> Words({"x"})
      [] s = "s_res_status"             -> Words({"x", "LF"})
      [] OTHER                          -> {}

\* Header names and values of ordinary letters, after one of these at the status code's end
HeaderPeer(status) ==
    [s \in State, h \in HeaderState |->
        CASE s = "s_res_status_code" -> Words({"LF"} \cup status)
          [] s \in {"s_header_field_start", "s_header_field", "s_header_value",
                    "s_header_value_discard_ws", "s_header_value_lws",
                    "s_header_value_discard_lws"} -> Words({"x", "LF", ":"})
          [] s \in {"s_header_value_start", "s_headers_almost_done",
                    "s_header_almost_done"} -> Words({"LF"})
          [] OTHER -> StatusLine(s)]

StatusPeer == HeaderPeer({"SP"})
PairPeer   == HeaderPeer({})

\* Messages with headers of these beginnings, for bodies framed by them or by the close
BodyPeer(names) ==
    [s \in State, h \in HeaderState |->
        CASE s \in {"s_header_field_start", "s_header_value_lws"} -> Words({"LF"} \cup names)
          [] s = "s_header_field" ->
               Words(CASE h = "h_matching_content_length" -> {"length"}
                       [] h = "h_matching_transfer_encoding" -> {"encoding"}
                       [] OTHER -> {":"})
          [] s = "s_header_value_discard_ws" ->
               IF h = "h_transfer_encoding" THEN Words({"ch"}) ELSE Nums(0..2)
          [] s = "s_header_value" ->
               IF h \in {"h_matching_transfer_encoding_chunked", "h_transfer_encoding_chunked"}
               THEN Words({"unked", "LF"}) ELSE Words({"LF"}) \cup Nums(0..2)
          [] s = "s_chunk_size_start" -> Nums(0..2)
          [] s = "s_chunk_size" -> Words({"CR"}) \cup Nums(0..2)
          [] s \in {"s_chunk_size_almost_done", "s_chunk_data_done", "s_headers_almost_done",
                    "s_headers_done", "s_header_almost_done"} -> Words({"LF"})
          [] s = "s_chunk_data_almost_done" -> Words({"CR"})
          [] s = "s_dead" -> Words({"x"})
          [] OTHER -> StatusLine(s)]

LengthPeer  == BodyPeer({"content-"})
AnyBodyPeer == BodyPeer({"content-", "transfer-"})

\* How a list goes on, by what the parser has matched of it: elements that are known or
\* not, or only begin like one, or are empty, with blanks and commas around them
ListGoesOn(h) ==
    CASE h = "h_matching_connection_token_start" ->
           {"cl", "keep-", ",", "SP", "HT", "LF"}
      [] h = "h_matching_connection_close"      -> {"ose", ","}
      [] h = "h_matching_connection_upgrade"    -> {"grade", ","}
      [] h = "h_matching_connection_keep_alive" -> {"alive", ","}
      [] h \in {"h_connection_close", "h_connection_upgrade", "h_connection_keep_alive"} ->
           {",", "SP", "HT", "LF"}
      [] h = "h_matching_transfer_encoding_chunked" -> {"unked", "LF"}
      [] h = "h_transfer_encoding_chunked" -> {"SP", "HT", "LF"}
      [] h = "h_matching_connection_token" -> {",", "LF"}
      [] h = "h_general" -> {"cl", "ose", "LF"}
      [] OTHER -> {"cl", "ose", ",", "LF"}

\* Headers of ordinary letters, folded or not, and lists in the headers that matter, on any
\* number of lines; the second half of a known name and the list follow the first half.
\* A chunked body ends at its first byte, which is no chunk size.
HeadersPeer ==
    [s \in State, h \in HeaderState |->
        CASE s = "s_header_field_start" -> Words({"LF", "x", "connec", "transfer-"})
          [] s = "s_header_field" ->
               Words(CASE h = "h_matching_connection" -> {"tion"}
                       [] h = "h_matching_transfer_encoding" -> {"encoding"}
                       [] h = "h_general" -> {"x", ":"}
                       [] OTHER -> {":"})
          [] s = "s_header_value_discard_ws" ->
               Words({"x", "LF"} \cup CASE h = "h_connection" -> {"cl", "up", ","}
                                        [] h = "h_transfer_encoding" -> {"ch"}
                                        [] OTHER -> {})
          [] s = "s_header_value" -> Words(ListGoesOn(h))
          [] s \in {"s_header_value_lws", "s_header_value_discard_lws"} ->
               Words({"HT", "LF", IF h = "h_general" THEN "x" ELSE "SP"})
          [] s \in {"s_dead", "s_headers_almost_done", "s_headers_done",
                    "s_header_almost_done", "s_chunk_size_start"} -> Words({"LF"})
          [] OTHER -> StatusLine(s)]
=============================================================================
