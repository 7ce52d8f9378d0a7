------------------------------ MODULE UrlSteps -------------------------------
(***************************************************************************)
(* http_parser_parse_url and http_parse_host of http_parser/http_parser.c, *)
(* called with is_connect = 0 (http_parse_url.c:24).                       *)
(*                                                                         *)
(* The locals of both functions and the struct http_parser_url they fill   *)
(* in are a record c.  UrlStep is one turn of the loop over the URL,       *)
(* HostStep one of the loop over its host field; http_parser_parse_url     *)
(* takes all the steps at once, UrlParser one by one.  Offsets and lengths *)
(* are 16 bits wide and wrap.                                              *)
(***************************************************************************)
EXTENDS Integers, Sequences

CONSTANT UINT16_RANGE           \* the values of off, len and port

(***************************************************************************)
(* A character stands for those the macros of http_parser.c:412-429 treat  *)
(* alike: "a" for a hexadecimal letter, "z" for the other letters, "&" for *)
(* ; & = + $ , and "|" for what is only visible.  The schemas the project  *)
(* compares with are letters of their own, "ws" and "wss" being treated as *)
(* "http" and "https" are.                                                 *)
(***************************************************************************)
Digit == {"0", "1", "2", "3", "4", "5", "6", "7", "8", "9"}
Alpha == {"a", "z", "http", "https"}
Char  == Alpha \cup Digit
            \cup {".", "-", "_", "*", "%", ":", "&", "/", "?", "#", "@", "[", "]", "|", "SP"}

\* DigitOf[k + 1] is the digit k
DigitOf == <<"0", "1", "2", "3", "4", "5", "6", "7", "8", "9">>
Value == [d \in Digit |-> CHOOSE k \in 0..9 : DigitOf[k + 1] = d]

UserinfoChar == Alpha \cup Digit \cup {".", "-", "_", "*", "%", ":", "&"}
HostChar     == Alpha \cup Digit \cup {".", "-"}
V6Char       == {"a", ":", "."} \cup Digit
ZoneChar     == Alpha \cup Digit \cup {"%", ".", "-", "_"}
UrlChar      == Char \ {"SP", "?", "#"}

ASSUME RangeAssumption == UINT16_RANGE \in Nat \ {0}

Field == {"UF_SCHEMA", "UF_HOST", "UF_PORT", "UF_PATH", "UF_QUERY", "UF_FRAGMENT",
          "UF_USERINFO"}

Server == {"s_req_server_start", "s_req_server", "s_req_server_with_at"}

UrlState == Server \cup
    {"s_dead", "s_req_spaces_before_url", "s_req_schema", "s_req_schema_slash",
     "s_req_schema_slash_slash", "s_req_path", "s_req_query_string_start",
     "s_req_query_string", "s_req_fragment_start", "s_req_fragment"}

HostState ==
    {"s_http_host_dead", "s_http_userinfo_start", "s_http_userinfo", "s_http_host_start",
     "s_http_host", "s_http_host_v6_start", "s_http_host_v6", "s_http_host_v6_end",
     "s_http_host_v6_zone_start", "s_http_host_v6_zone", "s_http_host_port_start",
     "s_http_host_port"}

-----------------------------------------------------------------------------
(* The loop over the URL *)

parse_url_char(s, ch) ==
    CASE s = "s_req_spaces_before_url" /\ ch \in {"/", "*"}      -> "s_req_path"
      [] s = "s_req_spaces_before_url" /\ ch \in Alpha           -> "s_req_schema"
      [] s = "s_req_schema" /\ ch \in Alpha                      -> s
      [] s = "s_req_schema" /\ ch = ":"                          -> "s_req_schema_slash"
      [] s = "s_req_schema_slash" /\ ch = "/"                    -> "s_req_schema_slash_slash"
      [] s = "s_req_schema_slash_slash" /\ ch = "/"              -> "s_req_server_start"
      [] s \in Server /\ ch = "/"                                -> "s_req_path"
      [] s \in Server /\ ch = "?"                                -> "s_req_query_string_start"
      [] s \in Server /\ ch = "@" /\ s # "s_req_server_with_at"  -> "s_req_server_with_at"
      [] s \in Server /\ ch \in UserinfoChar \cup {"[", "]"}     -> "s_req_server"
      [] s = "s_req_path" /\ ch \in UrlChar                      -> s
      [] s = "s_req_path" /\ ch = "?"                            -> "s_req_query_string_start"
      [] s \in {"s_req_query_string_start", "s_req_query_string"}
         /\ ch \in UrlChar \cup {"?"}                            -> "s_req_query_string"
      [] s \in {"s_req_path", "s_req_query_string_start", "s_req_query_string"}
         /\ ch = "#"                                             -> "s_req_fragment_start"
      [] s = "s_req_fragment_start" /\ ch = "#"                  -> s
      [] s = "s_req_fragment_start" /\ ch \notin {"#", "SP"}     -> "s_req_fragment"
      [] s = "s_req_fragment" /\ ch # "SP"                       -> s
      [] OTHER                                                   -> "s_dead"

\* wrong: a case label is missing
FieldOfNoAt(s) ==
    CASE s = "s_req_schema"        -> "UF_SCHEMA"
      [] s = "s_req_server"        -> "UF_HOST"
      [] s = "s_req_path"          -> "UF_PATH"
      [] s = "s_req_query_string"  -> "UF_QUERY"
      [] s = "s_req_fragment"      -> "UF_FRAGMENT"
      [] OTHER                     -> "none"

\* The field a state's characters belong to; delimiters belong to none
FieldOf(s) ==
    CASE s = "s_req_schema"                              -> "UF_SCHEMA"
      [] s \in {"s_req_server", "s_req_server_with_at"}  -> "UF_HOST"
      [] s = "s_req_path"                                -> "UF_PATH"
      [] s = "s_req_query_string"                        -> "UF_QUERY"
      [] s = "s_req_fragment"                            -> "UF_FRAGMENT"
      [] OTHER                                           -> "none"

Delimiting == {"s_req_schema_slash", "s_req_schema_slash_slash", "s_req_server_start",
               "s_req_query_string_start", "s_req_fragment_start"}

\* u with one more character in f, or with f beginning at offset p
Longer(u, f) == [u EXCEPT !.len[f] = (@ + 1) % UINT16_RANGE]
Begun(u, f, p) == [u EXCEPT !.off[f] = p % UINT16_RANGE,
                            !.len[f] = 1 % UINT16_RANGE,
                            !.field_set = @ \cup {f}]

\* return 1, return 0
Reject(c) == [c EXCEPT !.pc = "done", !.ret = 1]
Accept(c) == [c EXCEPT !.pc = "done", !.ret = 0]

\* The block of parse_url_init: nothing initialises field_data
Garbage(m) == [field_set |-> {}, port |-> 0, off |-> [f \in Field |-> m],
               len |-> [f \in Field |-> m]]

\* wrong: the port of an earlier parse stays
StartKeepsPort(u) ==
    [pc |-> "url", p |-> 0, s |-> "s_req_spaces_before_url", old_uf |-> "UF_MAX",
     found_at |-> FALSE, buflen |-> 0, ret |-> 0,
     u |-> [u EXCEPT !.field_set = {}]]

\* Entering http_parser_parse_url with *u as an earlier parse, or malloc, left it
Start(u) ==
    [pc |-> "url", p |-> 0, s |-> "s_req_spaces_before_url", old_uf |-> "UF_MAX",
     found_at |-> FALSE, buflen |-> 0, ret |-> 0,
     u |-> [u EXCEPT !.port = 0, !.field_set = {}]]

\* wrong: an '@' is a delimiter of the host
StepDropsAt(c, ch) ==
    LET s == parse_url_char(c.s, ch)
        uf == FieldOf(s)
        next == [c EXCEPT !.s = s, !.p = @ + 1]
    IN  CASE s = "s_dead" -> Reject(c)
          [] s \in Delimiting -> next
          [] s \notin Delimiting \cup {"s_dead"} /\ uf = "none" -> Reject(next)
          [] OTHER -> [next EXCEPT !.old_uf = uf,
                                   !.u = IF uf = c.old_uf THEN Longer(c.u, uf)
                                         ELSE Begun(c.u, uf, c.p)]

\* One turn of the loop, with the character at c.p
UrlStep(c, ch) ==
    LET s == parse_url_char(c.s, ch)
        uf == FieldOf(s)
        next == [c EXCEPT !.s = s, !.p = @ + 1,
                          !.found_at = @ \/ s = "s_req_server_with_at"]
    IN  CASE s = "s_dead" -> Reject(c)
          [] s \in Delimiting -> next
          [] s \notin Delimiting \cup {"s_dead"} /\ uf = "none" -> Reject(next)
          [] OTHER -> [next EXCEPT !.old_uf = uf,
                                   !.u = IF uf = c.old_uf THEN Longer(c.u, uf)
                                         ELSE Begun(c.u, uf, c.p)]

-----------------------------------------------------------------------------
(* The loop over the host *)

http_parse_host_char(s, ch) ==
    CASE s \in {"s_http_userinfo_start", "s_http_userinfo"} /\ ch = "@" -> "s_http_host_start"
      [] s \in {"s_http_userinfo_start", "s_http_userinfo"}
         /\ ch \in UserinfoChar                                   -> "s_http_userinfo"
      [] s = "s_http_host_start" /\ ch = "["                      -> "s_http_host_v6_start"
      [] s \in {"s_http_host_start", "s_http_host"}
         /\ ch \in HostChar                                       -> "s_http_host"
      [] s \in {"s_http_host", "s_http_host_v6_end"} /\ ch = ":"  -> "s_http_host_port_start"
      [] s \in {"s_http_host_v6", "s_http_host_v6_zone"}
         /\ ch = "]"                                              -> "s_http_host_v6_end"
      [] s \in {"s_http_host_v6", "s_http_host_v6_start"}
         /\ ch \in V6Char                                         -> "s_http_host_v6"
      [] s = "s_http_host_v6" /\ ch = "%"                         -> "s_http_host_v6_zone_start"
      [] s \in {"s_http_host_v6_zone", "s_http_host_v6_zone_start"}
         /\ ch \in ZoneChar                                       -> "s_http_host_v6_zone"
      [] s \in {"s_http_host_port", "s_http_host_port_start"}
         /\ ch \in Digit                                          -> "s_http_host_port"
      [] OTHER                                                    -> "s_http_host_dead"

\* field_data[f].off = p - buf, where f begins
Moved(u, f, p) == [u EXCEPT !.off[f] = p % UINT16_RANGE]
Cleared(u, f)  == [u EXCEPT !.len[f] = 0, !.field_set = @ \cup {f}]

\* One turn of the loop, from state c.s to state s at c.p
HostField(c, s) ==
    LET fresh == s # c.s
        At(f) == IF fresh THEN Moved(c.u, f, c.p) ELSE c.u
        Made(f) == IF fresh THEN Cleared(At(f), f) ELSE c.u
    IN  CASE s \in {"s_http_host", "s_http_host_v6"} -> Longer(At("UF_HOST"), "UF_HOST")
          [] s \in {"s_http_host_v6_zone_start", "s_http_host_v6_zone"} ->
               Longer(c.u, "UF_HOST")
          [] s = "s_http_host_port" -> Longer(Made("UF_PORT"), "UF_PORT")
          [] s = "s_http_userinfo" -> Longer(Made("UF_USERINFO"), "UF_USERINFO")
          [] OTHER -> c.u

HostStep(c, ch) ==
    LET s == http_parse_host_char(c.s, ch)
    IN  IF s = "s_http_host_dead" THEN Reject(c)
        ELSE [c EXCEPT !.s = s, !.p = @ + 1, !.u = HostField(c, s)]

\* wrong: the length of the host is not counted anew
HostStartKeepsLength(c) ==
    [c EXCEPT !.pc = "host",
              !.s = IF c.found_at THEN "s_http_userinfo_start" ELSE "s_http_host_start",
              !.p = c.u.off["UF_HOST"],
              !.buflen = c.u.off["UF_HOST"] + c.u.len["UF_HOST"]]

\* Entering http_parse_host: its length is counted again
HostStart(c) ==
    [c EXCEPT !.pc = "host",
              !.s = IF c.found_at THEN "s_http_userinfo_start" ELSE "s_http_host_start",
              !.p = c.u.off["UF_HOST"],
              !.buflen = c.u.off["UF_HOST"] + c.u.len["UF_HOST"],
              !.u = [c.u EXCEPT !.len["UF_HOST"] = 0]]

-----------------------------------------------------------------------------
(* After the loops *)

\* strtoul(buf + off, NULL, 10): the digits from offset off on
Number(buf, off) ==
    LET IsDigit(k) == k <= Len(buf) /\ buf[k] \in Digit
        value[k \in off..Len(buf)] ==
            IF k > off /\ IsDigit(k) THEN value[k - 1] * 10 + Value[buf[k]] ELSE 0
        last == CHOOSE k \in off..Len(buf) :
                   ~IsDigit(k + 1) /\ \A j \in (off + 1)..k : IsDigit(j)
    IN  value[last]

\* The port is read from the text again; larger ones than 16 bits hold are refused
Port(c, buf) ==
    LET v == Number(buf, c.u.off["UF_PORT"])
    IN  IF "UF_PORT" \notin c.u.field_set THEN Accept(c)
        ELSE IF v > UINT16_RANGE - 1 THEN Reject(c)
        ELSE Accept([c EXCEPT !.u.port = v])

\* A schema needs a host; without one nothing is left to look at
UrlEnd(c, buf) ==
    CASE "UF_HOST" \in c.u.field_set -> HostStart(c)
      [] "UF_HOST" \notin c.u.field_set /\ "UF_SCHEMA" \in c.u.field_set -> Reject(c)
      [] OTHER -> Port(c, buf)

\* Ending inside an address, before a host or before the digits of a port is an error
HostEnd(c, buf) ==
    IF c.s \in {"s_http_host", "s_http_host_v6_end", "s_http_host_port"}
    THEN Port(c, buf) ELSE Reject(c)

\* The whole of the first loop
Read(buf, u) ==
    LET read[n \in 0..Len(buf)] ==
            IF n = 0 THEN Start(u)
            ELSE LET c == read[n - 1] IN IF c.pc = "url" THEN UrlStep(c, buf[n]) ELSE c
    IN  read[Len(buf)]

\* The whole of http_parse_host, from c on
http_parse_host(c, buf) ==
    LET host[n \in c.p..c.buflen] ==
            IF n = c.p THEN c
            ELSE LET d == host[n - 1] IN IF d.pc = "host" THEN HostStep(d, buf[n]) ELSE d
        Ended(d) == IF d.pc = "host" THEN HostEnd(d, buf) ELSE d
    IN  IF c.pc = "host" THEN Ended(host[c.buflen]) ELSE c

\* What comes after the first loop
AfterRead(c, buf) == IF c.pc = "url" THEN UrlEnd(c, buf) ELSE c

\* All the steps on buf, with *u as it was before
http_parser_parse_url(buf, u) == http_parse_host(AfterRead(Read(buf, u), buf), buf)
=============================================================================
