--------------------------- MODULE UrlStepsProofs ----------------------------
(***************************************************************************)
(* What the steps of http_parser_parse_url do to the locals and the        *)
(* struct, for every URL, every width of an offset and whatever was in the *)
(* struct before.                                                          *)
(*                                                                         *)
(* That a field lies in the URL is not preserved by itself.  While the URL *)
(* is read, the field that grows must be one that was begun in this parse  *)
(* (UrlInv); while the host is read again, its length must be 0 wherever a *)
(* host may begin, and the field that grows must end where the loop        *)
(* stands, which is never past the host the first loop found (HostInv).    *)
(* Offsets wrap, and a wrapped offset is only smaller.                     *)
(***************************************************************************)
EXTENDS UrlSteps, RecursionLemmas, TLAPS

Struct(u) == u \in [field_set : SUBSET Field, port : {u.port},
                    off : [Field -> Nat], len : [Field -> Nat]]

Locals(c) ==
    /\ c \in [pc : {"url", "host", "done"}, p : Nat, s : UrlState \cup HostState,
              old_uf : Field \cup {"UF_MAX"}, found_at : {c.found_at}, buflen : Nat,
              ret : {0, 1}, u : {c.u}]
    /\ Struct(c.u)

\* Field f of u ends at n, or earlier
Ends(u, f, n) == u.off[f] + u.len[f] <= n

InText(u, n) == \A f \in u.field_set : Ends(u, f, n)

\* v is u but for field f, which it has and which ends at n
Only(u, v, f, n) ==
    /\ Struct(v)
    /\ \A g : g \in v.field_set <=> g \in u.field_set \/ g = f
    /\ Ends(v, f, n)
    /\ \A g \in Field : g # f => v.off[g] = u.off[g] /\ v.len[g] = u.len[g]

\* The first loop, n characters read
UrlInv(c, n) ==
    c.pc = "url" => /\ c.p = n /\ c.s \in UrlState
                    /\ c.old_uf \in {"UF_MAX"} \cup c.u.field_set

BeforeHost == {"s_http_userinfo_start", "s_http_userinfo", "s_http_host_start",
               "s_http_host_v6_start"}

\* The second loop: the fields it adds to end before p
HostInv(c, n) ==
    c.pc = "host" =>
        /\ "UF_HOST" \in c.u.field_set
        /\ c.s \in HostState
        /\ c.p <= c.buflen /\ c.buflen <= n
        /\ Ends(c.u, "UF_HOST", c.p)
        /\ c.s \in BeforeHost => c.u.len["UF_HOST"] = 0
        /\ c.s = "s_http_userinfo" => "UF_USERINFO" \in c.u.field_set
                                      /\ Ends(c.u, "UF_USERINFO", c.p)
        /\ c.s = "s_http_host_port" => "UF_PORT" \in c.u.field_set
                                       /\ Ends(c.u, "UF_PORT", c.p)

\* A state the switch of the first loop has a case for
Known(s) == FieldOf(s) # "none" \/ s \in Delimiting

CaseInv(c) == c.pc # "host" /\ c.s \in UrlState /\ c.p > 0 => Known(c.s)

ParseInv(c, n) ==
    /\ Locals(c) /\ InText(c.u, n)
    /\ UrlInv(c, n) /\ HostInv(c, n) /\ CaseInv(c)

-----------------------------------------------------------------------------

\* A number reduced to 16 bits is no larger than it was.
LEMMA Wrapped == \A k \in Nat : k % UINT16_RANGE \in Nat /\ k % UINT16_RANGE <= k
  BY RangeAssumption, SMT

\* parse_url_char leads to an error or to a state the switch has a case for.
LEMMA NextKnown ==
    ASSUME NEW s \in UrlState, NEW ch
    PROVE  /\ parse_url_char(s, ch) \in UrlState
           /\ parse_url_char(s, ch) = "s_dead" \/ Known(parse_url_char(s, ch))
  <1>1. parse_url_char(s, ch) \in
           {"s_dead", "s_req_schema", "s_req_server", "s_req_server_with_at", "s_req_path",
            "s_req_query_string", "s_req_fragment"} \cup Delimiting
    <2>1. CASE s \in Server
      BY <2>1 DEF parse_url_char, Server, Delimiting
    <2>2. CASE s = "s_req_schema" \/ s = "s_req_schema_slash" \/ s = "s_req_schema_slash_slash"
      BY <2>2 DEF parse_url_char, Server, Delimiting
    <2>3. CASE s = "s_req_path" \/ s = "s_req_query_string_start" \/ s = "s_req_query_string"
      BY <2>3 DEF parse_url_char, Server, Delimiting
    <2>4. CASE s = "s_req_fragment_start" \/ s = "s_req_fragment" \/ s = "s_dead"
               \/ s = "s_req_spaces_before_url"
      BY <2>4 DEF parse_url_char, Server, Delimiting
    <2> QED
      BY <2>1, <2>2, <2>3, <2>4 DEF UrlState
  <1> QED
    BY <1>1 DEF UrlState, Server, Known, FieldOf, Delimiting

\* The field a state belongs to is one.
LEMMA FieldType == \A s : FieldOf(s) \in Field \cup {"none"}
  BY DEF FieldOf, Field

-----------------------------------------------------------------------------
(* The first loop *)

\* A field that goes on ends one character later.
LEMMA LongerInv ==
    ASSUME NEW u, Struct(u), NEW f \in u.field_set, NEW n \in Nat, Ends(u, f, n)
    PROVE  Only(u, Longer(u, f), f, n + 1)
  <1>1. /\ (u.len[f] + 1) % UINT16_RANGE \in Nat
        /\ (u.len[f] + 1) % UINT16_RANGE <= u.len[f] + 1
    BY Wrapped DEF Struct
  <1>2. Struct(Longer(u, f)) /\ Longer(u, f).field_set = u.field_set
        /\ Longer(u, f).off = u.off
        /\ Longer(u, f).len = [u.len EXCEPT ![f] = (u.len[f] + 1) % UINT16_RANGE]
    BY <1>1 DEF Struct, Longer
  <1> QED
    BY <1>1, <1>2 DEF Only, Struct, Ends

\* A field that begins at the character after n ends behind it.
LEMMA BegunInv ==
    ASSUME NEW u, Struct(u), NEW f \in Field, NEW n \in Nat
    PROVE  Only(u, Begun(u, f, n), f, n + 1)
  <1>1. /\ 1 % UINT16_RANGE \in Nat /\ 1 % UINT16_RANGE <= 1
        /\ n % UINT16_RANGE \in Nat /\ n % UINT16_RANGE <= n
    BY Wrapped
  <1>2. Struct(Begun(u, f, n)) /\ Begun(u, f, n).field_set = u.field_set \cup {f}
        /\ Begun(u, f, n).off = [u.off EXCEPT ![f] = n % UINT16_RANGE]
        /\ Begun(u, f, n).len = [u.len EXCEPT ![f] = 1 % UINT16_RANGE]
    BY <1>1 DEF Struct, Begun
  <1> QED
    BY <1>1, <1>2 DEF Only, Struct, Ends

\* A field without characters that is moved to n ends there.
LEMMA MovedInv ==
    ASSUME NEW u, Struct(u), NEW f \in u.field_set, NEW n \in Nat, u.len[f] = 0
    PROVE  Only(u, Moved(u, f, n), f, n)
  <1>1. n % UINT16_RANGE \in Nat /\ n % UINT16_RANGE <= n
    BY Wrapped
  <1>2. Struct(Moved(u, f, n)) /\ Moved(u, f, n).field_set = u.field_set
        /\ Moved(u, f, n).off = [u.off EXCEPT ![f] = n % UINT16_RANGE]
        /\ Moved(u, f, n).len = u.len
    BY <1>1 DEF Struct, Moved
  <1> QED
    BY <1>1, <1>2 DEF Only, Struct, Ends

\* So does one that is made there.
LEMMA MadeInv ==
    ASSUME NEW u, Struct(u), NEW f \in Field, NEW n \in Nat
    PROVE  Only(u, Cleared(Moved(u, f, n), f), f, n)
  <1> DEFINE v == Cleared(Moved(u, f, n), f)
  <1>1. n % UINT16_RANGE \in Nat /\ n % UINT16_RANGE <= n
    BY Wrapped
  <1>2. Struct(Moved(u, f, n)) /\ Moved(u, f, n).field_set = u.field_set
        /\ Moved(u, f, n).off = [u.off EXCEPT ![f] = n % UINT16_RANGE]
        /\ Moved(u, f, n).len = u.len
    BY <1>1 DEF Struct, Moved
  <1>3. Struct(v) /\ v.field_set = u.field_set \cup {f}
        /\ v.off = [u.off EXCEPT ![f] = n % UINT16_RANGE]
        /\ v.len = [u.len EXCEPT ![f] = 0]
    BY <1>2 DEF Struct, Cleared
  <1> QED
    BY <1>1, <1>3 DEF Only, Struct, Ends

LEMMA OnlyTwice ==
    ASSUME NEW u, NEW v, NEW w, NEW f, NEW m, NEW n, Only(u, v, f, m), Only(v, w, f, n)
    PROVE  Only(u, w, f, n)
  BY DEF Only

\* Where one field changes, the others end where they did.
LEMMA OnlyInText ==
    ASSUME NEW u, NEW v, NEW f, NEW n \in Nat, Struct(u), Only(u, v, f, n), InText(u, n)
    PROVE  InText(v, n)
  <1>1. ASSUME NEW g \in v.field_set, g # f PROVE Ends(v, g, n)
    <2>1. g \in Field /\ Ends(u, g, n) /\ v.off[g] = u.off[g] /\ v.len[g] = u.len[g]
      BY <1>1 DEF Only, Struct, InText
    <2> QED
      BY <2>1 DEF Ends
  <1> QED
    BY <1>1 DEF Only, InText

\* A turn of the first loop, with one character more to the text.
LEMMA UrlStepInv ==
    ASSUME NEW c, NEW n \in Nat, NEW ch, ParseInv(c, n), c.pc = "url"
    PROVE  ParseInv(UrlStep(c, ch), n + 1)
  <1> DEFINE s == parse_url_char(c.s, ch)
             uf == FieldOf(s)
             next == [c EXCEPT !.s = s, !.p = @ + 1,
                               !.found_at = @ \/ s = "s_req_server_with_at"]
  <1>1. Locals(c) /\ InText(c.u, n) /\ UrlInv(c, n) /\ CaseInv(c) /\ Struct(c.u)
    BY DEF ParseInv, Locals
  <1>2. s \in UrlState /\ (s = "s_dead" \/ Known(s)) /\ uf \in Field \cup {"none"}
    BY <1>1, NextKnown, FieldType DEF UrlInv
  <1>3. InText(c.u, n + 1)
    BY <1>1 DEF InText, Ends, Struct
  <1>4. Locals(next) /\ next.pc = "url" /\ next.p = n + 1 /\ next.s = s /\ next.u = c.u
        /\ next.old_uf = c.old_uf
    <2>1. ASSUME NEW at, NEW d, d = [c EXCEPT !.s = s, !.p = @ + 1, !.found_at = at]
          PROVE  Locals(d) /\ d.pc = "url" /\ d.p = n + 1 /\ d.s = s /\ d.u = c.u
                 /\ d.old_uf = c.old_uf
      <3>1. c.p = n /\ n + 1 \in Nat /\ s \in UrlState \cup HostState
        BY <1>1, <1>2 DEF UrlInv
      <3>2. /\ d.pc = "url" /\ d.p = n + 1 /\ d.s = s /\ d.u = c.u /\ d.old_uf = c.old_uf
            /\ d \in [pc : {"url", "host", "done"}, p : Nat, s : UrlState \cup HostState,
                      old_uf : Field \cup {"UF_MAX"}, found_at : {d.found_at}, buflen : Nat,
                      ret : {0, 1}, u : {c.u}]
        BY <1>1, <2>1, <3>1 DEF Locals
      <3> QED
        BY <1>1, <3>2 DEF Locals
    <2> QED
      BY <2>1, Zenon
  <1>5. CASE s = "s_dead"
    <2>1. UrlStep(c, ch) = Reject(c)
      BY <1>5 DEF UrlStep, Delimiting
    <2>2. /\ Locals(Reject(c)) /\ Reject(c).u = c.u /\ Reject(c).pc = "done"
          /\ Reject(c).s = c.s /\ Reject(c).p = c.p
      BY <1>1 DEF Locals, Reject
    <2> QED
      BY <1>1, <1>3, <2>1, <2>2 DEF ParseInv, UrlInv, HostInv, CaseInv
  <1>6. CASE s \in Delimiting
    <2>1. UrlStep(c, ch) = next
      BY <1>6 DEF UrlStep, Delimiting
    <2> QED
      BY <1>1, <1>2, <1>3, <1>4, <1>6, <2>1 DEF ParseInv, UrlInv, HostInv, CaseInv, Known
  <1>7. CASE s # "s_dead" /\ s \notin Delimiting
    <2> DEFINE v == IF uf = c.old_uf THEN Longer(c.u, uf) ELSE Begun(c.u, uf, c.p)
    <2>1. uf \in Field /\ Known(s)
      BY <1>2, <1>7 DEF Known
    <2>2. UrlStep(c, ch) = [next EXCEPT !.old_uf = uf, !.u = v]
      BY <1>7, <2>1 DEF UrlStep, Field
    <2>3. Struct(v) /\ InText(v, n + 1) /\ uf \in v.field_set
      <3>1. Only(c.u, v, uf, n + 1)
        <4>1. CASE uf = c.old_uf
          <5>1. uf \in c.u.field_set /\ Ends(c.u, uf, n)
            BY <1>1, <2>1, <4>1 DEF UrlInv, InText, Field
          <5> QED
            BY <1>1, <4>1, <5>1, LongerInv, Zenon
        <4>2. CASE uf # c.old_uf
          <5>1. v = Begun(c.u, uf, n)
            BY <1>1, <4>2 DEF UrlInv
          <5> QED
            BY <1>1, <2>1, <5>1, BegunInv
        <4> QED
          BY <4>1, <4>2
      <3> HIDE DEF v, uf
      <3>2. InText(v, n + 1)
        BY <1>1, <1>3, <3>1, OnlyInText
      <3> QED
        BY <3>1, <3>2 DEF Only
    <2>4. /\ Locals(UrlStep(c, ch)) /\ UrlStep(c, ch).u = v /\ UrlStep(c, ch).pc = "url"
          /\ UrlStep(c, ch).p = n + 1 /\ UrlStep(c, ch).s = s /\ UrlStep(c, ch).old_uf = uf
      BY <1>4, <2>1, <2>2, <2>3 DEF Locals
    <2> QED
      BY <1>2, <2>1, <2>3, <2>4 DEF ParseInv, UrlInv, HostInv, CaseInv
  <1> QED
    BY <1>5, <1>6, <1>7
-----------------------------------------------------------------------------
(* After the first loop *)

\* Returning an error changes nothing the invariant speaks of.
LEMMA RejectInv ==
    ASSUME NEW c, NEW n \in Nat, Locals(c), InText(c.u, n),
           c.s \in UrlState /\ c.p > 0 => Known(c.s)
    PROVE  ParseInv(Reject(c), n)
  <1>1. /\ Locals(Reject(c)) /\ Reject(c).u = c.u /\ Reject(c).pc = "done"
        /\ Reject(c).s = c.s /\ Reject(c).p = c.p
    BY DEF Locals, Reject
  <1> QED
    BY <1>1 DEF ParseInv, UrlInv, HostInv, CaseInv

\* Nor does success, with whatever port.
LEMMA AcceptInv ==
    ASSUME NEW c, NEW n \in Nat, Locals(c), InText(c.u, n),
           c.s \in UrlState /\ c.p > 0 => Known(c.s)
    PROVE  ParseInv(Accept(c), n)
  <1>1. /\ Locals(Accept(c)) /\ Accept(c).u = c.u /\ Accept(c).pc = "done"
        /\ Accept(c).s = c.s /\ Accept(c).p = c.p
    BY DEF Locals, Accept
  <1> QED
    BY <1>1 DEF ParseInv, UrlInv, HostInv, CaseInv

LEMMA PortInv ==
    ASSUME NEW c, NEW n \in Nat, NEW buf, Locals(c), InText(c.u, n),
           c.s \in UrlState /\ c.p > 0 => Known(c.s)
    PROVE  ParseInv(Port(c, buf), n)
  <1>1. ASSUME NEW v, NEW d, d = [c EXCEPT !.u.port = v]
        PROVE  ParseInv(Accept(d), n)
    <2>1. /\ Struct(d.u) /\ d.u.off = c.u.off /\ d.u.len = c.u.len
          /\ d.u.field_set = c.u.field_set /\ d.s = c.s /\ d.p = c.p
      BY <1>1 DEF Locals, Struct
    <2>2. Locals(d)
      BY <1>1, <2>1 DEF Locals
    <2>3. InText(d.u, n)
      BY <2>1 DEF InText, Ends
    <2> QED
      BY <2>1, <2>2, <2>3, AcceptInv
  <1>2. ParseInv(Accept(c), n) /\ ParseInv(Reject(c), n)
    BY AcceptInv, RejectInv
  <1>3. \/ Port(c, buf) = Accept(c) \/ Port(c, buf) = Reject(c)
        \/ \E v : Port(c, buf) = Accept([c EXCEPT !.u.port = v])
    BY DEF Port
  <1> QED
    BY <1>1, <1>2, <1>3, Zenon

\* The host begins where the first loop found it, with nothing counted yet.
LEMMA HostStartInv ==
    ASSUME NEW c, NEW n \in Nat, Locals(c), InText(c.u, n), "UF_HOST" \in c.u.field_set
    PROVE  ParseInv(HostStart(c), n)
  <1> DEFINE d == HostStart(c)
  <1>1. /\ d.pc = "host" /\ d.s \in {"s_http_userinfo_start", "s_http_host_start"}
        /\ d.p = c.u.off["UF_HOST"] /\ d.buflen = c.u.off["UF_HOST"] + c.u.len["UF_HOST"]
        /\ d.u = [c.u EXCEPT !.len["UF_HOST"] = 0]
    BY DEF HostStart, Locals
  <1>2. /\ Struct(d.u) /\ d.u.field_set = c.u.field_set /\ d.u.off = c.u.off
        /\ d.u.len = [c.u.len EXCEPT !["UF_HOST"] = 0]
    BY <1>1 DEF Locals, Struct
  <1>3. Locals(d)
    <2>1. c.u.off["UF_HOST"] \in Nat /\ c.u.off["UF_HOST"] + c.u.len["UF_HOST"] \in Nat
      BY DEF Locals, Struct, Field
    <2>2. d = [c EXCEPT !.pc = "host", !.s = d.s, !.p = c.u.off["UF_HOST"],
                        !.buflen = c.u.off["UF_HOST"] + c.u.len["UF_HOST"], !.u = d.u]
      BY <1>1 DEF HostStart
    <2>3. d.s \in HostState
      BY <1>1 DEF HostState
    <2> HIDE DEF d
    <2> QED
      BY <1>2, <2>1, <2>2, <2>3 DEF Locals
  <1>4. c.u.off["UF_HOST"] + c.u.len["UF_HOST"] <= n
    BY DEF InText, Ends
  <1>5. \A f \in Field : d.u.len[f] \in Nat /\ d.u.len[f] <= c.u.len[f]
    BY <1>2 DEF Locals, Struct
  <1>6. InText(d.u, n)
    BY <1>2, <1>5 DEF InText, Ends, Locals, Struct
  <1>7. HostInv(d, n)
    BY <1>1, <1>2, <1>4 DEF HostInv, HostState, Ends, Locals, Struct, Field
  <1> QED
    BY <1>1, <1>3, <1>6, <1>7 DEF ParseInv, UrlInv, CaseInv

LEMMA UrlEndInv ==
    ASSUME NEW c, NEW n \in Nat, NEW buf, ParseInv(c, n), c.pc = "url"
    PROVE  ParseInv(UrlEnd(c, buf), n)
  <1>1. Locals(c) /\ InText(c.u, n) /\ (c.s \in UrlState /\ c.p > 0 => Known(c.s))
    BY DEF ParseInv, CaseInv
  <1>2. \/ UrlEnd(c, buf) = HostStart(c) /\ "UF_HOST" \in c.u.field_set
        \/ UrlEnd(c, buf) = Reject(c) \/ UrlEnd(c, buf) = Port(c, buf)
    BY DEF UrlEnd
  <1> QED
    BY <1>1, <1>2, HostStartInv, RejectInv, PortInv
-----------------------------------------------------------------------------
(* The second loop *)

\* Which states lead to those where a field of the host begins.
LEMMA NextHost ==
    ASSUME NEW s \in HostState, NEW ch, NEW t, t = http_parse_host_char(s, ch)
    PROVE  /\ t \in HostState /\ t # "s_http_userinfo_start"
           /\ t = "s_http_host" => s \in {"s_http_host_start", "s_http_host"}
           /\ t = "s_http_host_v6" => s \in {"s_http_host_v6_start", "s_http_host_v6"}
           /\ t = "s_http_host_v6_start" => s = "s_http_host_start"
           /\ t \in {"s_http_userinfo", "s_http_host_start"}
                 => s \in {"s_http_userinfo_start", "s_http_userinfo"}
  <1>1. CASE s \in {"s_http_userinfo_start", "s_http_userinfo", "s_http_host_start"}
    BY <1>1 DEF http_parse_host_char, HostState
  <1>2. CASE s \in {"s_http_host", "s_http_host_v6_start", "s_http_host_v6"}
    BY <1>2 DEF http_parse_host_char, HostState
  <1>3. CASE s \in {"s_http_host_dead", "s_http_host_v6_end", "s_http_host_v6_zone_start",
                    "s_http_host_v6_zone", "s_http_host_port_start", "s_http_host_port"}
    BY <1>3 DEF http_parse_host_char, HostState
  <1> QED
    BY <1>1, <1>2, <1>3 DEF HostState

\* The field that a turn adds to ends behind the character it has read.
LEMMA HostFieldInv ==
    ASSUME NEW c, NEW n \in Nat, Locals(c), HostInv(c, n), c.pc = "host",
           NEW ch, NEW t, t = http_parse_host_char(c.s, ch)
    PROVE  /\ t \in {"s_http_host", "s_http_host_v6", "s_http_host_v6_zone_start",
                      "s_http_host_v6_zone"} => Only(c.u, HostField(c, t), "UF_HOST", c.p + 1)
           /\ t = "s_http_host_port" => Only(c.u, HostField(c, t), "UF_PORT", c.p + 1)
           /\ t = "s_http_userinfo" => Only(c.u, HostField(c, t), "UF_USERINFO", c.p + 1)
           /\ t \notin {"s_http_host", "s_http_host_v6", "s_http_host_v6_zone_start",
                         "s_http_host_v6_zone", "s_http_host_port", "s_http_userinfo"}
                 => HostField(c, t) = c.u
  <1>1. Struct(c.u) /\ c.p \in Nat /\ c.s \in HostState /\ "UF_HOST" \in c.u.field_set
        /\ Ends(c.u, "UF_HOST", c.p)
    BY DEF Locals, HostInv
  <1>2. Only(c.u, Longer(c.u, "UF_HOST"), "UF_HOST", c.p + 1)
    BY <1>1, LongerInv
  <1>3. CASE t \in {"s_http_host", "s_http_host_v6"}
    <2>1. CASE t = c.s
      BY <1>2, <1>3, <2>1 DEF HostField
    <2>2. CASE t # c.s
      <3> DEFINE w == Moved(c.u, "UF_HOST", c.p)
      <3>1. c.s \in BeforeHost
        BY <1>1, <1>3, <2>2, NextHost DEF BeforeHost
      <3>2. Only(c.u, w, "UF_HOST", c.p)
        BY <1>1, <3>1, MovedInv DEF HostInv
      <3>3. Struct(w) /\ "UF_HOST" \in w.field_set /\ Ends(w, "UF_HOST", c.p)
        BY <3>2 DEF Only
      <3>4. HostField(c, t) = Longer(w, "UF_HOST")
        BY <1>3, <2>2 DEF HostField
      <3> HIDE DEF w
      <3>5. Only(w, Longer(w, "UF_HOST"), "UF_HOST", c.p + 1)
        BY <1>1, <3>3, LongerInv
      <3> QED
        BY <1>3, <3>2, <3>4, <3>5, OnlyTwice
    <2> QED
      BY <2>1, <2>2
  <1>4. CASE t \in {"s_http_host_v6_zone_start", "s_http_host_v6_zone"}
    BY <1>2, <1>4 DEF HostField
  <1>5. ASSUME NEW f \in Field, NEW w,
               \/ w = c.u /\ f \in c.u.field_set /\ Ends(c.u, f, c.p)
               \/ w = Cleared(Moved(c.u, f, c.p), f)
        PROVE  Only(c.u, Longer(w, f), f, c.p + 1)
    <2>1. CASE w = c.u /\ f \in c.u.field_set /\ Ends(c.u, f, c.p)
      BY <1>1, <2>1, LongerInv
    <2>2. CASE w = Cleared(Moved(c.u, f, c.p), f)
      <3>1. Only(c.u, w, f, c.p)
        BY <1>1, <2>2, MadeInv
      <3>2. Struct(w) /\ f \in w.field_set /\ Ends(w, f, c.p)
        BY <3>1 DEF Only
      <3>3. Only(w, Longer(w, f), f, c.p + 1)
        BY <1>1, <3>2, LongerInv
      <3> QED
        BY <3>1, <3>3, OnlyTwice
    <2> QED
      BY <1>5, <2>1, <2>2
  <1>6. CASE t = "s_http_host_port"
    <2>1. PICK w : /\ HostField(c, t) = Longer(w, "UF_PORT")
                   /\ \/ w = c.u /\ t = c.s
                      \/ w = Cleared(Moved(c.u, "UF_PORT", c.p), "UF_PORT")
      BY <1>6 DEF HostField
    <2>2. t = c.s => "UF_PORT" \in c.u.field_set /\ Ends(c.u, "UF_PORT", c.p)
      BY <1>6 DEF HostInv
    <2> QED
      BY <1>5, <1>6, <2>1, <2>2 DEF Field
  <1>7. CASE t = "s_http_userinfo"
    <2>1. PICK w : /\ HostField(c, t) = Longer(w, "UF_USERINFO")
                   /\ \/ w = c.u /\ t = c.s
                      \/ w = Cleared(Moved(c.u, "UF_USERINFO", c.p), "UF_USERINFO")
      BY <1>7 DEF HostField
    <2>2. t = c.s => "UF_USERINFO" \in c.u.field_set /\ Ends(c.u, "UF_USERINFO", c.p)
      BY <1>7 DEF HostInv
    <2> QED
      BY <1>5, <1>7, <2>1, <2>2 DEF Field
  <1>8. CASE t \notin {"s_http_host", "s_http_host_v6", "s_http_host_v6_zone_start",
                       "s_http_host_v6_zone", "s_http_host_port", "s_http_userinfo"}
    BY <1>8 DEF HostField
  <1> QED
    BY <1>3, <1>4, <1>6, <1>7, <1>8

LEMMA OnlyLater ==
    ASSUME NEW u, NEW v, NEW f \in Field, NEW m \in Nat, NEW n \in Nat, m <= n,
           Only(u, v, f, m)
    PROVE  Only(u, v, f, n)
  <1>1. v.off[f] \in Nat /\ v.len[f] \in Nat
    BY DEF Only, Struct
  <1>2. Ends(v, f, n)
    BY <1>1 DEF Only, Ends
  <1> QED
    BY <1>2 DEF Only

\* A turn of the second loop.
LEMMA HostStepInv ==
    ASSUME NEW c, NEW n \in Nat, NEW ch, ParseInv(c, n), c.pc = "host", c.p < c.buflen
    PROVE  ParseInv(HostStep(c, ch), n)
  <1> DEFINE t == http_parse_host_char(c.s, ch)
             v == HostField(c, t)
             d == [c EXCEPT !.s = t, !.p = @ + 1, !.u = v]
  <1>1. /\ Locals(c) /\ InText(c.u, n) /\ HostInv(c, n) /\ Struct(c.u)
        /\ c.p \in Nat /\ c.buflen \in Nat /\ c.p + 1 <= c.buflen /\ c.p + 1 <= n
        /\ c.s \in HostState /\ c.s \notin UrlState
        /\ "UF_HOST" \in c.u.field_set /\ Ends(c.u, "UF_HOST", c.p)
    BY DEF ParseInv, Locals, HostInv, HostState, UrlState, Server
  <1>2. CASE t = "s_http_host_dead"
    BY <1>1, <1>2, RejectInv DEF HostStep
  <1>3. CASE t # "s_http_host_dead"
    <2>1. HostStep(c, ch) = d
      BY <1>3 DEF HostStep
    <2>2. t \in HostState /\ t \notin UrlState
      <3>1. t \in HostState
        BY <1>1, NextHost, Zenon
      <3> HIDE DEF t
      <3> QED
        BY <3>1 DEF HostState, UrlState, Server
    <2>3. /\ t \in {"s_http_host", "s_http_host_v6", "s_http_host_v6_zone_start",
                      "s_http_host_v6_zone"} => Only(c.u, v, "UF_HOST", c.p + 1)
          /\ t = "s_http_host_port" => Only(c.u, v, "UF_PORT", c.p + 1)
          /\ t = "s_http_userinfo" => Only(c.u, v, "UF_USERINFO", c.p + 1)
          /\ t \notin {"s_http_host", "s_http_host_v6", "s_http_host_v6_zone_start",
                         "s_http_host_v6_zone", "s_http_host_port", "s_http_userinfo"}
                => v = c.u
      BY <1>1, HostFieldInv, Zenon
    <2>4. t \in BeforeHost => c.s \in BeforeHost
      BY <1>1, NextHost DEF BeforeHost
    <2> HIDE DEF t, v
    <2>5. v = c.u \/ \E f \in Field : Only(c.u, v, f, c.p + 1)
      BY <2>3 DEF Field
    <2>6. Struct(v) /\ InText(v, n) /\ "UF_HOST" \in v.field_set
      <3>1. CASE v = c.u
        BY <1>1, <3>1
      <3>2. ASSUME NEW f \in Field, Only(c.u, v, f, c.p + 1)
            PROVE  Struct(v) /\ InText(v, n) /\ "UF_HOST" \in v.field_set
        <4>1. Only(c.u, v, f, n)
          BY <1>1, <3>2, OnlyLater
        <4>2. InText(v, n)
          BY <1>1, <4>1, OnlyInText
        <4> QED
          BY <1>1, <3>2, <4>2 DEF Only
      <3> QED
        BY <2>5, <3>1, <3>2
    <2>7. Ends(v, "UF_HOST", c.p + 1)
      <3>1. CASE Only(c.u, v, "UF_HOST", c.p + 1)
        BY <3>1 DEF Only
      <3>2. CASE v.off["UF_HOST"] = c.u.off["UF_HOST"] /\ v.len["UF_HOST"] = c.u.len["UF_HOST"]
        <4>1. c.u.off["UF_HOST"] \in Nat /\ c.u.len["UF_HOST"] \in Nat
          BY <1>1 DEF Struct, Field
        <4> QED
          BY <1>1, <3>2, <4>1 DEF Ends
      <3> QED
        BY <2>3, <3>1, <3>2 DEF Only, Field
    <2>8. t \in BeforeHost => v.len["UF_HOST"] = 0
      <3>1. t \in BeforeHost => v.len["UF_HOST"] = c.u.len["UF_HOST"]
        BY <2>3 DEF BeforeHost, Only, Field
      <3> QED
        BY <1>1, <2>4, <3>1 DEF HostInv
    <2>9. /\ Locals(d) /\ d.pc = "host" /\ d.p = c.p + 1 /\ d.buflen = c.buflen
          /\ d.s = t /\ d.u = v
      <3>1. c.p + 1 \in Nat /\ t \in UrlState \cup HostState
        BY <1>1, <2>2
      <3>2. /\ d.pc = "host" /\ d.p = c.p + 1 /\ d.buflen = c.buflen
            /\ d.s = t /\ d.u = v
            /\ d \in [pc : {"url", "host", "done"}, p : Nat, s : UrlState \cup HostState,
                      old_uf : Field \cup {"UF_MAX"}, found_at : {d.found_at}, buflen : Nat,
                      ret : {0, 1}, u : {v}]
        BY <1>1, <3>1 DEF Locals
      <3> HIDE DEF d
      <3> QED
        BY <2>6, <3>2 DEF Locals
    <2> HIDE DEF d
    <2>10. HostInv(d, n)
      BY <1>1, <2>2, <2>3, <2>6, <2>7, <2>8, <2>9 DEF HostInv, Only
    <2> QED
      BY <2>1, <2>2, <2>6, <2>9, <2>10 DEF ParseInv, UrlInv, CaseInv
  <1> QED
    BY <1>2, <1>3

LEMMA HostEndInv ==
    ASSUME NEW c, NEW n \in Nat, NEW buf, ParseInv(c, n), c.pc = "host"
    PROVE  ParseInv(HostEnd(c, buf), n)
  <1>1. Locals(c) /\ InText(c.u, n) /\ c.s \in HostState
    BY DEF ParseInv, HostInv
  <1>2. c.s \notin UrlState
    BY <1>1 DEF HostState, UrlState, Server
  <1> QED
    BY <1>1, <1>2, RejectInv, PortInv DEF HostEnd

-----------------------------------------------------------------------------
(* The loops as functions *)

StructType == [field_set : SUBSET Field, port : Nat, off : [Field -> Nat],
               len : [Field -> Nat]]

CallType == [pc : {"url", "host", "done"}, p : Nat, s : UrlState \cup HostState,
             old_uf : Field \cup {"UF_MAX"}, found_at : BOOLEAN, buflen : Nat,
             ret : {0, 1}, u : StructType]

LEMMA StructTypes ==
    ASSUME NEW u \in StructType, NEW f \in Field, NEW p \in Nat
    PROVE  /\ Longer(u, f) \in StructType /\ Begun(u, f, p) \in StructType
           /\ Moved(u, f, p) \in StructType /\ Cleared(u, f) \in StructType
  <1>1. /\ (u.len[f] + 1) % UINT16_RANGE \in Nat /\ p % UINT16_RANGE \in Nat
        /\ 1 % UINT16_RANGE \in Nat
    BY Wrapped DEF StructType
  <1>2. Longer(u, f) \in StructType
    BY <1>1 DEF StructType, Longer
  <1>3. Begun(u, f, p) \in StructType
    <2> DEFINE v == [u EXCEPT !.off[f] = p % UINT16_RANGE]
               w == [v EXCEPT !.len[f] = 1 % UINT16_RANGE]
    <2>1. v \in StructType
      BY <1>1 DEF StructType
    <2>2. w \in StructType
      <3> HIDE DEF v
      <3> QED
        BY <1>1, <2>1 DEF StructType
    <2>3. Begun(u, f, p) = [w EXCEPT !.field_set = @ \cup {f}]
      BY DEF Begun
    <2> HIDE DEF w
    <2> QED
      BY <2>2, <2>3 DEF StructType
  <1>4. Moved(u, f, p) \in StructType
    BY <1>1 DEF StructType, Moved
  <1>5. Cleared(u, f) \in StructType
    BY DEF StructType, Cleared
  <1> QED
    BY <1>2, <1>3, <1>4, <1>5

LEMMA Returns ==
    ASSUME NEW c \in CallType
    PROVE  /\ Reject(c) \in CallType /\ Reject(c).pc = "done" /\ Reject(c).u = c.u
           /\ Reject(c).buflen = c.buflen
           /\ Accept(c) \in CallType /\ Accept(c).pc = "done" /\ Accept(c).u = c.u
  BY DEF CallType, Reject, Accept

LEMMA UrlStepType ==
    ASSUME NEW c \in CallType, NEW ch
    PROVE  UrlStep(c, ch) \in CallType /\ UrlStep(c, ch).pc \in {c.pc, "done"}
  <1> DEFINE s == parse_url_char(c.s, ch)
             uf == FieldOf(s)
             at == c.found_at \/ s = "s_req_server_with_at"
             next == [c EXCEPT !.s = s, !.p = @ + 1,
                               !.found_at = @ \/ s = "s_req_server_with_at"]
             v == IF uf = c.old_uf THEN Longer(c.u, uf) ELSE Begun(c.u, uf, c.p)
  <1>1. s \in UrlState
    BY DEF parse_url_char, UrlState, Server
  <1>2. next \in CallType /\ next.pc = c.pc
    <2>1. next = [c EXCEPT !.s = s, !.p = c.p + 1, !.found_at = at]
      BY Zenon DEF CallType
    <2>2. at \in BOOLEAN
      OBVIOUS
    <2>3. ASSUME NEW t \in UrlState, NEW q \in Nat, NEW a \in BOOLEAN
          PROVE  /\ [c EXCEPT !.s = t, !.p = q, !.found_at = a] \in CallType
                 /\ [c EXCEPT !.s = t, !.p = q, !.found_at = a].pc = c.pc
      BY DEF CallType
    <2>4. c.p + 1 \in Nat
      BY DEF CallType
    <2> HIDE DEF s, at, next
    <2> QED
      BY <1>1, <2>1, <2>2, <2>3, <2>4, Zenon
  <1>3. ASSUME uf \in Field
        PROVE  /\ [next EXCEPT !.old_uf = uf, !.u = v] \in CallType
               /\ [next EXCEPT !.old_uf = uf, !.u = v].pc = c.pc
    <2>1. c.u \in StructType /\ c.p \in Nat
      BY DEF CallType
    <2>2. v \in StructType
      BY <1>3, <2>1, StructTypes
    <2> HIDE DEF v, next, uf
    <2> QED
      BY <1>2, <1>3, <2>2 DEF CallType
  <1>4. uf = "none" \/ uf \in Field
    BY FieldType
  <1>5. \/ UrlStep(c, ch) = Reject(c) \/ UrlStep(c, ch) = next \/ UrlStep(c, ch) = Reject(next)
        \/ uf # "none" /\ UrlStep(c, ch) = [next EXCEPT !.old_uf = uf, !.u = v]
    <2>1. CASE s = "s_dead"
      BY <2>1 DEF UrlStep, Delimiting
    <2>2. CASE s \in Delimiting
      BY <2>2 DEF UrlStep, Delimiting
    <2>3. CASE s # "s_dead" /\ s \notin Delimiting
      BY <2>3 DEF UrlStep
    <2> QED
      BY <2>1, <2>2, <2>3
  <1> HIDE DEF next, v, uf
  <1> QED
    BY <1>2, <1>3, <1>4, <1>5, Returns

LEMMA HostFieldType ==
    ASSUME NEW c \in CallType, NEW s PROVE HostField(c, s) \in StructType
  <1>1. c.u \in StructType /\ c.p \in Nat
    BY DEF CallType
  <1>2. \A f \in Field : Moved(c.u, f, c.p) \in StructType
    BY <1>1, StructTypes
  <1>3. \A f \in Field : Cleared(Moved(c.u, f, c.p), f) \in StructType
    BY <1>1, <1>2, StructTypes
  <1>4. \A f \in Field : \A u \in StructType : Longer(u, f) \in StructType
    BY <1>1, StructTypes
  <1>5. PICK u, f : /\ u \in {c.u} \cup {Moved(c.u, g, c.p) : g \in Field}
                              \cup {Cleared(Moved(c.u, g, c.p), g) : g \in Field}
                    /\ f \in Field
                    /\ HostField(c, s) = c.u \/ HostField(c, s) = Longer(u, f)
    BY DEF HostField, Field
  <1> QED
    BY <1>1, <1>2, <1>3, <1>4, <1>5

LEMMA HostStepType ==
    ASSUME NEW c \in CallType, NEW ch
    PROVE  /\ HostStep(c, ch) \in CallType /\ HostStep(c, ch).buflen = c.buflen
           /\ \/ HostStep(c, ch).pc = "done"
              \/ HostStep(c, ch).pc = c.pc /\ HostStep(c, ch).p = c.p + 1
  <1> DEFINE s == http_parse_host_char(c.s, ch)
             v == HostField(c, s)
  <1>1. s \in HostState
    BY DEF http_parse_host_char, HostState
  <1>2. v \in StructType
    BY HostFieldType
  <1>3. HostStep(c, ch) = Reject(c) \/ HostStep(c, ch) = [c EXCEPT !.s = s, !.p = @ + 1, !.u = v]
    BY DEF HostStep
  <1> DEFINE d == [c EXCEPT !.s = s, !.p = @ + 1, !.u = v]
  <1>4. d \in CallType /\ d.buflen = c.buflen /\ d.pc = c.pc /\ d.p = c.p + 1
    <2>1. ASSUME NEW t \in HostState, NEW q \in Nat, NEW w \in StructType,
                 NEW e, e = [c EXCEPT !.s = t, !.p = q, !.u = w]
          PROVE  e \in CallType /\ e.buflen = c.buflen /\ e.pc = c.pc /\ e.p = q
      <3>1. t \in UrlState \cup HostState
        OBVIOUS
      <3> QED
        BY <2>1, <3>1 DEF CallType
    <2>2. c.p + 1 \in Nat
      BY DEF CallType
    <2>3. d.buflen = c.buflen /\ d.pc = c.pc /\ d.p = c.p + 1
      BY DEF CallType
    <2>4. d = [c EXCEPT !.s = s, !.p = c.p + 1, !.u = v]
      OBVIOUS
    <2> HIDE DEF s, v, d
    <2> QED
      BY <1>1, <1>2, <2>1, <2>2, <2>3, <2>4
  <1> HIDE DEF d
  <1> QED
    BY <1>3, <1>4, Returns DEF d

LEMMA HostStartType ==
    ASSUME NEW c \in CallType PROVE HostStart(c) \in CallType /\ HostStart(c).pc = "host"
  <1> DEFINE u == [c.u EXCEPT !.len["UF_HOST"] = 0]
             p == c.u.off["UF_HOST"]
             n == c.u.off["UF_HOST"] + c.u.len["UF_HOST"]
             s == IF c.found_at THEN "s_http_userinfo_start" ELSE "s_http_host_start"
  <1>1. u \in StructType /\ p \in Nat /\ n \in Nat
    BY DEF CallType, StructType, Field
  <1>2. s \in HostState
    BY DEF HostState
  <1>3. HostStart(c) = [c EXCEPT !.pc = "host", !.s = s, !.p = p, !.buflen = n, !.u = u]
    BY DEF HostStart
  <1> HIDE DEF u, p, n, s
  <1> QED
    BY <1>1, <1>2, <1>3 DEF CallType

\* The call begins with no field and no port, whatever *u was.
LEMMA StartInv ==
    ASSUME NEW u, Struct(u)
    PROVE  Start(u) \in CallType /\ Start(u).pc = "url" /\ ParseInv(Start(u), 0)
  <1> DEFINE c == Start(u)
  <1>1. /\ c.u \in StructType /\ Struct(c.u) /\ c.u.field_set = {}
    BY DEF Start, Struct, StructType
  <1>2. /\ c.pc = "url" /\ c.p = 0 /\ c.s = "s_req_spaces_before_url"
        /\ c.old_uf = "UF_MAX"
    BY DEF Start
  <1>3. c \in CallType
    BY <1>1 DEF Start, CallType, UrlState
  <1>4. Locals(c)
    BY <1>1, <1>2, <1>3 DEF Locals, CallType
  <1> HIDE DEF c
  <1>5. ParseInv(c, 0)
    BY <1>1, <1>2, <1>4 DEF ParseInv, InText, UrlInv, HostInv, CaseInv, UrlState
  <1> QED
    BY <1>2, <1>3, <1>5 DEF c

\* A call that has returned lies in every longer text.
LEMMA ReturnedInv ==
    ASSUME NEW c, NEW n \in Nat, ParseInv(c, n), c.pc = "done"
    PROVE  ParseInv(c, n + 1)
  BY DEF ParseInv, InText, Ends, UrlInv, HostInv, Locals, Struct

\* The values of Read, one for every character read.
IsRead(f, buf, u) ==
    /\ f[0] = Start(u)
    /\ \A n \in 1..Len(buf) :
          f[n] = IF f[n - 1].pc = "url" THEN UrlStep(f[n - 1], buf[n]) ELSE f[n - 1]

LEMMA ReadLoop ==
    ASSUME NEW buf, Len(buf) \in Nat, NEW u, Struct(u)
    PROVE  \E f \in [0..Len(buf) -> CallType] :
              /\ IsRead(f, buf, u) /\ Read(buf, u) = f[Len(buf)]
              /\ \A n \in 0..Len(buf) : ParseInv(f[n], n) /\ f[n].pc # "host"
  <1> DEFINE m == Len(buf)
             IsFun(f) == f = [n \in 0..m |->
                               IF n = 0 THEN Start(u)
                               ELSE LET c == f[n - 1]
                                    IN  IF c.pc = "url" THEN UrlStep(c, buf[n]) ELSE c]
             read == CHOOSE f : IsFun(f)
             step == [n \in 0..m |-> [c \in CallType |->
                         IF c.pc = "url" THEN UrlStep(c, buf[n]) ELSE c]]
  <1>1. Start(u) \in CallType
    BY StartInv
  <1>2. \E f \in [0..m -> CallType] : IsFun(f)
    <2>1. step \in [0..m -> [CallType -> CallType]]
      BY UrlStepType
    <2>2. PICK f : IsLoop(f, 0, m, CallType, Start(u), step)
      <3> DEFINE x == Start(u)
                 a == 0
      <3>1. m \in Nat /\ a <= m /\ a \in Nat
        OBVIOUS
      <3>2. x \in CallType
        BY <1>1
      <3>3. step \in [a..m -> [CallType -> CallType]]
        BY <2>1
      <3> HIDE DEF step, m, x, a, IsFun, read
      <3>4. \E f : IsLoop(f, a, m, CallType, x, step)
        BY <3>1, <3>2, <3>3, LoopExists
      <3> QED
        BY <3>4 DEF x, a
    <2>3. ASSUME NEW n \in 0..m
          PROVE  f[n] = IF n = 0 THEN Start(u)
                        ELSE IF f[n - 1].pc = "url" THEN UrlStep(f[n - 1], buf[n]) ELSE f[n - 1]
      <3>1. CASE n = 0
        BY <2>2, <3>1 DEF IsLoop
      <3>2. CASE n # 0
        <4>1. n - 1 \in 0..m
          BY <3>2
        <4>2. f[n - 1] \in CallType
          BY <2>2, <4>1 DEF IsLoop
        <4>3. f[n] = step[n][f[n - 1]]
          BY <2>2, <3>2 DEF IsLoop
        <4> QED
          BY <3>2, <4>2, <4>3
      <3> QED
        BY <3>1, <3>2
    <2>4. IsFun(f)
      BY <2>2, <2>3 DEF IsLoop
    <2> QED
      BY <2>2, <2>4 DEF IsLoop
  <1>3. IsFun(read)
    BY <1>2
  <1>4. Read(buf, u) = read[m]
    BY DEF Read
  <1> HIDE DEF read
  <1>5. read \in [0..m -> CallType]
    <2> DEFINE T == {n \in 0..m : read[n] \in CallType}
    <2>1. 0 \in T
      BY <1>1, <1>3
    <2>2. \A n \in 0..(m - 1) : n \in T => n + 1 \in T
      <3> SUFFICES ASSUME NEW n \in 0..(m - 1), n \in T PROVE read[n + 1] \in CallType
        OBVIOUS
      <3>1. n + 1 \in 0..m /\ n + 1 # 0 /\ (n + 1) - 1 = n
        OBVIOUS
      <3>2. read[n + 1] = IF read[n].pc = "url" THEN UrlStep(read[n], buf[n + 1]) ELSE read[n]
        BY <1>3, <3>1
      <3>3. read[n] \in CallType
        OBVIOUS
      <3> QED
        BY <3>2, <3>3, UrlStepType
    <2>3. \A n \in 0..m : n \in T
      <3> HIDE DEF T
      <3> QED
        BY <2>1, <2>2, IntervalInduction
    <2>4. read = [n \in 0..m |-> read[n]]
      BY <1>3
    <2> QED
      BY <2>3, <2>4
  <1>6. IsRead(read, buf, u)
    <2>1. read[0] = Start(u)
      BY <1>3
    <2>2. ASSUME NEW n \in 1..m
          PROVE  read[n] = IF read[n - 1].pc = "url" THEN UrlStep(read[n - 1], buf[n])
                           ELSE read[n - 1]
      BY <1>3
    <2> QED
      BY <2>1, <2>2 DEF IsRead
  <1>7. \A n \in 0..m : ParseInv(read[n], n) /\ read[n].pc # "host"
    <2> DEFINE T == {n \in 0..m : ParseInv(read[n], n) /\ read[n].pc # "host"}
    <2>1. 0 \in T
      BY <1>6, StartInv DEF IsRead
    <2>2. \A n \in 0..(m - 1) : n \in T => n + 1 \in T
      <3> SUFFICES ASSUME NEW n \in 0..(m - 1), n \in T
                   PROVE  ParseInv(read[n + 1], n + 1) /\ read[n + 1].pc # "host"
        OBVIOUS
      <3>1. n + 1 \in 1..m /\ (n + 1) - 1 = n /\ n \in Nat
        OBVIOUS
      <3>2. read[n + 1] = IF read[n].pc = "url" THEN UrlStep(read[n], buf[n + 1]) ELSE read[n]
        BY <1>6, <3>1 DEF IsRead
      <3>3. ParseInv(read[n], n) /\ read[n].pc # "host" /\ read[n] \in CallType
        BY <1>5, <3>1
      <3>4. CASE read[n].pc = "url"
        <4>1. UrlStep(read[n], buf[n + 1]).pc # "host"
          BY <3>3, <3>4, UrlStepType
        <4> QED
          BY <3>1, <3>2, <3>3, <3>4, <4>1, UrlStepInv
      <3>5. CASE read[n].pc # "url"
        <4>1. read[n].pc = "done"
          BY <3>3, <3>5 DEF CallType
        <4> QED
          BY <3>1, <3>2, <3>3, <3>5, <4>1, ReturnedInv
      <3> QED
        BY <3>4, <3>5
    <2>3. \A n \in 0..m : n \in T
      <3> HIDE DEF T
      <3> QED
        BY <2>1, <2>2, IntervalInduction
    <2> QED
      BY <2>3
  <1> QED
    BY <1>4, <1>5, <1>6, <1>7

\* The values of the loop of http_parse_host, from c on.
IsHost(f, c, buf) ==
    /\ f[c.p] = c
    /\ \A k \in (c.p + 1)..c.buflen :
          f[k] = IF f[k - 1].pc = "host" THEN HostStep(f[k - 1], buf[k]) ELSE f[k - 1]

LEMMA HostLoop ==
    ASSUME NEW c \in CallType, c.pc = "host", NEW n \in Nat, ParseInv(c, n), NEW buf
    PROVE  \E f \in [c.p..c.buflen -> CallType] :
              /\ IsHost(f, c, buf)
              /\ http_parse_host(c, buf) = IF f[c.buflen].pc = "host"
                                           THEN HostEnd(f[c.buflen], buf) ELSE f[c.buflen]
              /\ \A k \in c.p..c.buflen :
                    /\ ParseInv(f[k], n) /\ f[k].buflen = c.buflen /\ f[k].pc # "url"
                    /\ f[k].pc = "host" => f[k].p = k
  <1> DEFINE a == c.p
             m == c.buflen
             IsFun(f) == f = [k \in a..m |->
                               IF k = a THEN c
                               ELSE LET d == f[k - 1]
                                    IN  IF d.pc = "host" THEN HostStep(d, buf[k]) ELSE d]
             host == CHOOSE f : IsFun(f)
             step == [k \in a..m |-> [d \in CallType |->
                         IF d.pc = "host" THEN HostStep(d, buf[k]) ELSE d]]
  <1>1. a \in Nat /\ m \in Nat /\ a <= m
    BY DEF CallType, ParseInv, HostInv
  <1>2. \E f : IsFun(f)
    <2>1. step \in [a..m -> [CallType -> CallType]]
      BY HostStepType
    <2>2. PICK f : IsLoop(f, a, m, CallType, c, step)
      <3> HIDE DEF step, m, a, IsFun, host
      <3> QED
        BY <1>1, <2>1, LoopExists
    <2>3. ASSUME NEW k \in a..m
          PROVE  f[k] = IF k = a THEN c
                        ELSE IF f[k - 1].pc = "host" THEN HostStep(f[k - 1], buf[k]) ELSE f[k - 1]
      <3> HIDE DEF a, m
      <3>1. CASE k = a
        BY <2>2, <3>1 DEF IsLoop
      <3>2. CASE k # a
        <4>1. k - 1 \in a..m
          BY <1>1, <3>2
        <4>2. f[k - 1] \in CallType
          BY <2>2, <4>1 DEF IsLoop
        <4>3. f[k] = step[k][f[k - 1]]
          BY <2>2, <3>2 DEF IsLoop
        <4> QED
          BY <3>2, <4>2, <4>3
      <3> QED
        BY <3>1, <3>2
    <2> HIDE DEF a, m
    <2>4. IsFun(f)
      BY <2>2, <2>3 DEF IsLoop
    <2> QED
      BY <2>4
  <1>3. IsFun(host)
    BY <1>2
  <1>4. http_parse_host(c, buf) = IF host[m].pc = "host" THEN HostEnd(host[m], buf) ELSE host[m]
    BY DEF http_parse_host
  <1> HIDE DEF host
  <1>5. /\ host = [k \in a..m |-> host[k]] /\ host[a] = c
        /\ \A k \in (a + 1)..m : host[k] = IF host[k - 1].pc = "host"
                                           THEN HostStep(host[k - 1], buf[k]) ELSE host[k - 1]
    <2> HIDE DEF a, m
    <2>1. a \in a..m
      BY <1>1
    <2>2. \A k \in (a + 1)..m : k \in a..m /\ k # a
      BY <1>1
    <2> QED
      BY <1>3, <2>1, <2>2
  <1> DEFINE Good(k) == /\ host[k] \in CallType
                        /\ ParseInv(host[k], n) /\ host[k].buflen = m /\ host[k].pc # "url"
                        /\ host[k].pc = "host" => host[k].p = k
             T == {k \in a..m : Good(k)}
  <1>6. a \in T
    BY <1>1, <1>5
  <1>7. \A k \in a..(m - 1) : k \in T => k + 1 \in T
    <2> SUFFICES ASSUME NEW k \in a..(m - 1), Good(k) PROVE k + 1 \in a..m /\ Good(k + 1)
      OBVIOUS
    <2> HIDE DEF a, m
    <2>1. k + 1 \in (a + 1)..m /\ k + 1 \in a..m /\ (k + 1) - 1 = k /\ k < m
      BY <1>1
    <2>2. host[k + 1] = IF host[k].pc = "host" THEN HostStep(host[k], buf[k + 1]) ELSE host[k]
      BY <1>5, <2>1
    <2> DEFINE d == host[k]
               e == host[k + 1]
    <2>3. d \in CallType /\ ParseInv(d, n) /\ d.buflen = m /\ d.pc # "url"
          /\ (d.pc = "host" => d.p = k)
      OBVIOUS
    <2>4. e = IF d.pc = "host" THEN HostStep(d, buf[k + 1]) ELSE d
      BY <2>2
    <2> HIDE DEF d, e
    <2>5. CASE d.pc = "host"
      <3>1. e \in CallType /\ e.buflen = m /\ (e.pc = "done" \/ (e.pc = "host" /\ e.p = k + 1))
        <4> DEFINE w == HostStep(d, buf[k + 1])
        <4> HIDE DEF Good, T, IsFun, step
        <4>1. /\ w \in CallType /\ w.buflen = d.buflen
              /\ w.pc = "done" \/ (w.pc = d.pc /\ w.p = d.p + 1)
          BY <2>3, HostStepType
        <4>2. e = w
          BY <2>4, <2>5
        <4> HIDE DEF w
        <4> QED
          BY <2>3, <2>5, <4>1, <4>2
      <3>2. ParseInv(e, n)
        BY <2>1, <2>3, <2>4, <2>5, HostStepInv
      <3> QED
        BY <2>1, <3>1, <3>2 DEF e
    <2>6. CASE d.pc # "host"
      BY <2>1, <2>3, <2>4, <2>6 DEF d, e
    <2> QED
      BY <2>5, <2>6
  <1>8. \A k \in a..m : Good(k)
    <2>1. \A k \in a..m : k \in T
      <3> HIDE DEF T, a, m
      <3> QED
        BY <1>1, <1>6, <1>7, IntervalInduction
    <2> QED
      BY <2>1
  <1>9. host \in [a..m -> CallType]
    <2> HIDE DEF a, m
    <2> QED
      BY <1>5, <1>8
  <1>10. IsHost(host, c, buf)
    BY <1>5 DEF IsHost
  <1> QED
    BY <1>4, <1>8, <1>9, <1>10

LEMMA PortReturns ==
    ASSUME NEW c \in CallType, NEW buf PROVE Port(c, buf).pc = "done"
  <1>1. \A v : Accept([c EXCEPT !.u.port = v]).pc = "done"
    BY DEF Accept, CallType
  <1> QED
    BY <1>1, Returns DEF Port

\* The value of a digit.
LEMMA DigitValue == \A d \in Digit : Value[d] \in 0..9 /\ DigitOf[Value[d] + 1] = d
  <1> SUFFICES ASSUME NEW d \in Digit
               PROVE  Value[d] \in 0..9 /\ DigitOf[Value[d] + 1] = d
    OBVIOUS
  <1> DEFINE k == CHOOSE k \in 0..9 : DigitOf[k + 1] = d
  <1>1. \E j \in 0..9 : DigitOf[j + 1] = d
    BY DEF Digit, DigitOf
  <1>2. k \in 0..9 /\ DigitOf[k + 1] = d
    <2> HIDE DEF Digit
    <2> QED
      BY <1>1
  <1>3. Value[d] = k
    BY DEF Value
  <1> HIDE DEF k
  <1> QED
    BY <1>2, <1>3

DigitAt(buf, k) == k <= Len(buf) /\ buf[k] \in Digit

\* value is the number after each character from off + 1 on, the last digit stands at last
ReadsNumber(buf, off, value, last) ==
    /\ \A k \in off..Len(buf) :
          value[k] = IF k > off /\ DigitAt(buf, k) THEN value[k - 1] * 10 + Value[buf[k]] ELSE 0
    /\ last \in off..Len(buf)
    /\ ~DigitAt(buf, last + 1) /\ \A j \in (off + 1)..last : DigitAt(buf, j)

LEMMA NumberRead ==
    ASSUME NEW buf, Len(buf) \in Nat, NEW off \in 0..Len(buf)
    PROVE  \E value, last : ReadsNumber(buf, off, value, last) /\ Number(buf, off) = value[last]
  <1> DEFINE m == Len(buf)
             IsDigit(k) == k <= m /\ buf[k] \in Digit
             IsFun(f) == f = [k \in off..m |->
                               IF k > off /\ IsDigit(k) THEN f[k - 1] * 10 + Value[buf[k]] ELSE 0]
             value == CHOOSE f : IsFun(f)
             Stops == {k \in off..m : ~IsDigit(k + 1) /\ \A j \in (off + 1)..k : IsDigit(j)}
             last == CHOOSE k \in off..m :
                        ~IsDigit(k + 1) /\ \A j \in (off + 1)..k : IsDigit(j)
             step == [k \in off..m |-> [v \in Nat |->
                         IF IsDigit(k) THEN v * 10 + Value[buf[k]] ELSE 0]]
  <1>1. m \in Nat /\ off \in Nat /\ off <= m
    OBVIOUS
  <1>2. \A d \in Digit : Value[d] \in Nat
    BY DigitValue
  <1>3. step \in [off..m -> [Nat -> Nat]]
    <2>1. \A k \in off..m, v \in Nat : IsDigit(k) => v * 10 + Value[buf[k]] \in Nat
      BY <1>2
    <2> QED
      BY <2>1
  <1>4. \E f : IsFun(f)
    <2> DEFINE zero == 0
    <2>1. PICK f : IsLoop(f, off, m, Nat, zero, step)
      <3>1. zero \in Nat
        OBVIOUS
      <3> HIDE DEF step, m, zero, IsFun, value, last
      <3> QED
        BY <1>1, <1>3, <3>1, LoopExists
    <2>2. ASSUME NEW k \in off..m
          PROVE  f[k] = IF k > off /\ IsDigit(k) THEN f[k - 1] * 10 + Value[buf[k]] ELSE 0
      <3>1. CASE k = off
        <4>1. f[k] = zero
          BY <2>1, <3>1 DEF IsLoop
        <4> QED
          BY <1>1, <3>1, <4>1
      <3>2. CASE k # off
        <4>1. k - 1 \in off..m /\ k > off
          BY <1>1, <3>2
        <4>2. f[k - 1] \in Nat
          BY <2>1, <4>1 DEF IsLoop
        <4>3. f[k] = step[k][f[k - 1]]
          BY <2>1, <3>2 DEF IsLoop
        <4> QED
          BY <4>1, <4>2, <4>3
      <3> QED
        BY <3>1, <3>2
    <2>3. f = [k \in off..m |-> f[k]]
      BY <2>1 DEF IsLoop
    <2> HIDE DEF m, IsDigit
    <2>4. IsFun(f)
      BY <2>2, <2>3
    <2> QED
      BY <2>4
  <1>5. IsFun(value)
    BY <1>4
  <1> HIDE DEF value
  <1>6. \E k \in off..m : ~IsDigit(k + 1) /\ \A j \in (off + 1)..k : IsDigit(j)
    <2> DEFINE S == {k \in off..m : ~IsDigit(k + 1)}
    <2>1. S \in SUBSET Nat /\ S # {}
      <3>1. m \in S
        BY <1>1
      <3> QED
        BY <1>1, <3>1
    <2>2. PICK k \in S : \A j \in S : k <= j
      <3> HIDE DEF S
      <3> QED
        BY <2>1, SmallestExists
    <2>3. ASSUME NEW j \in (off + 1)..k PROVE IsDigit(j)
      <3>1. j - 1 \in off..m /\ (j - 1) + 1 = j /\ ~(k <= j - 1)
        BY <1>1, <2>2
      <3> HIDE DEF IsDigit
      <3> QED
        BY <2>2, <3>1
    <2> HIDE DEF IsDigit
    <2> QED
      BY <2>2, <2>3
  <1>7. last \in off..m /\ ~IsDigit(last + 1) /\ \A j \in (off + 1)..last : IsDigit(j)
    <2> HIDE DEF IsDigit
    <2> QED
      BY <1>6
  <1>8. Number(buf, off) = value[last]
    BY DEF Number, value
  <1>9. ReadsNumber(buf, off, value, last)
    <2>1. \A k \in off..m : value[k] = IF k > off /\ IsDigit(k)
                                     THEN value[k - 1] * 10 + Value[buf[k]] ELSE 0
      BY <1>5
    <2> HIDE DEF last
    <2> QED
      BY <1>7, <2>1 DEF ReadsNumber, DigitAt
  <1> HIDE DEF last
  <1> QED
    BY <1>8, <1>9

\* A number read from the text, whatever follows its digits.
LEMMA NumberType ==
    ASSUME NEW buf, Len(buf) \in Nat, NEW off \in 0..Len(buf)
    PROVE  Number(buf, off) \in Nat
  <1> DEFINE m == Len(buf)
  <1>1. m \in Nat /\ off \in Nat /\ off <= m
    OBVIOUS
  <1>2. \A d \in Digit : Value[d] \in Nat
    BY DigitValue
  <1>3. PICK value, last : ReadsNumber(buf, off, value, last) /\ Number(buf, off) = value[last]
    BY NumberRead
  <1>4. \A k \in off..m : value[k] \in Nat
    <2> DEFINE T == {k \in off..m : value[k] \in Nat}
    <2>1. off \in T
      BY <1>1, <1>3 DEF ReadsNumber
    <2>2. \A k \in off..(m - 1) : k \in T => k + 1 \in T
      <3> SUFFICES ASSUME NEW k \in off..(m - 1), k \in T PROVE value[k + 1] \in Nat
        BY <1>1
      <3>1. k + 1 \in off..m /\ (k + 1) - 1 = k
        BY <1>1
      <3>2. value[k + 1] = IF k + 1 > off /\ DigitAt(buf, k + 1)
                           THEN value[k] * 10 + Value[buf[k + 1]] ELSE 0
        BY <1>3, <3>1 DEF ReadsNumber
      <3> QED
        BY <1>2, <3>2 DEF DigitAt
    <2>3. \A k \in off..m : k \in T
      <3> HIDE DEF T, m
      <3> QED
        BY <1>1, <2>1, <2>2, IntervalInduction
    <2> QED
      BY <2>3
  <1> QED
    BY <1>3, <1>4 DEF ReadsNumber

LEMMA PortType ==
    ASSUME NEW c \in CallType, NEW buf, Len(buf) \in Nat, InText(c.u, Len(buf))
    PROVE  Port(c, buf) \in CallType
  <1> DEFINE v == Number(buf, c.u.off["UF_PORT"])
             d == [c EXCEPT !.u.port = v]
  <1>1. CASE "UF_PORT" \notin c.u.field_set
    BY <1>1, Returns DEF Port
  <1>2. CASE "UF_PORT" \in c.u.field_set
    <2>1. c.u.off["UF_PORT"] \in 0..Len(buf)
      <3> HIDE DEF v, d
      <3>1. c.u \in StructType /\ Ends(c.u, "UF_PORT", Len(buf)) /\ "UF_PORT" \in Field
        BY <1>2 DEF InText, CallType, Field
      <3> QED
        BY <3>1 DEF StructType, Ends
    <2>2. v \in Nat
      BY <2>1, NumberType
    <2>3. Port(c, buf) = Reject(c) \/ Port(c, buf) = Accept(d)
      BY <1>2 DEF Port
    <2> HIDE DEF v
    <2>4. d \in CallType
      BY <2>2 DEF CallType, StructType
    <2> HIDE DEF d
    <2> QED
      BY <2>3, <2>4, Returns
  <1> QED
    BY <1>1, <1>2

\* A call reports fields that lie in the text, whatever *u was.
LEMMA ParsedInv ==
    ASSUME NEW buf, Len(buf) \in Nat, NEW u, Struct(u)
    PROVE  /\ ParseInv(http_parser_parse_url(buf, u), Len(buf))
           /\ http_parser_parse_url(buf, u).pc = "done"
           /\ http_parser_parse_url(buf, u) \in CallType
  <1>1. PICK f \in [0..Len(buf) -> CallType] :
           /\ IsRead(f, buf, u) /\ Read(buf, u) = f[Len(buf)]
           /\ \A n \in 0..Len(buf) : ParseInv(f[n], n) /\ f[n].pc # "host"
    BY ReadLoop
  <1> DEFINE c == f[Len(buf)]
             d == AfterRead(c, buf)
  <1>2. c \in CallType /\ ParseInv(c, Len(buf)) /\ c.pc # "host" /\ Read(buf, u) = c
    BY <1>1
  <1>3. ParseInv(d, Len(buf)) /\ (d.pc = "done" \/ d.pc = "host") /\ d \in CallType
    <2> HIDE DEF c
    <2>1. CASE c.pc = "url"
      <3>1. d = UrlEnd(c, buf)
        BY <2>1 DEF AfterRead
      <3>2. ParseInv(d, Len(buf))
        BY <1>2, <2>1, <3>1, UrlEndInv
      <3>3. \/ UrlEnd(c, buf) = HostStart(c)
            \/ UrlEnd(c, buf).pc = "done" /\ UrlEnd(c, buf) \in CallType
        <4>1. InText(c.u, Len(buf))
          BY <1>2 DEF ParseInv
        <4> QED
          BY <1>2, <4>1, PortReturns, PortType, Returns DEF UrlEnd
      <3>4. HostStart(c) \in CallType /\ HostStart(c).pc = "host"
        BY <1>2, HostStartType
      <3> HIDE DEF d
      <3> QED
        BY <3>1, <3>2, <3>3, <3>4
    <2>2. CASE c.pc # "url"
      BY <1>2, <2>2 DEF AfterRead, CallType
    <2> QED
      BY <2>1, <2>2
  <1> DEFINE r == http_parser_parse_url(buf, u)
  <1>4. r = http_parse_host(d, buf)
    BY <1>2 DEF http_parser_parse_url
  <1> HIDE DEF c, d
  <1>5. CASE d.pc = "host"
    <2>1. PICK g \in [d.p..d.buflen -> CallType] :
             /\ http_parse_host(d, buf) = IF g[d.buflen].pc = "host"
                                          THEN HostEnd(g[d.buflen], buf) ELSE g[d.buflen]
             /\ \A k \in d.p..d.buflen : ParseInv(g[k], Len(buf)) /\ g[k].pc # "url"
      BY <1>3, <1>5, HostLoop
    <2>2. d.buflen \in d.p..d.buflen
      BY <1>3, <1>5 DEF ParseInv, HostInv, CallType
    <2> DEFINE e == g[d.buflen]
    <2>3. e \in CallType /\ ParseInv(e, Len(buf)) /\ e.pc # "url"
          /\ r = IF e.pc = "host" THEN HostEnd(e, buf) ELSE e
      BY <1>4, <2>1, <2>2
    <2> HIDE DEF e, r
    <2>4. CASE e.pc = "host"
      <3>1. HostEnd(e, buf).pc = "done" /\ HostEnd(e, buf) \in CallType
        <4>1. InText(e.u, Len(buf))
          BY <2>3 DEF ParseInv
        <4> QED
          BY <2>3, <4>1, PortReturns, PortType, Returns DEF HostEnd
      <3> QED
        BY <2>3, <2>4, <3>1, HostEndInv DEF r
    <2>5. CASE e.pc # "host"
      BY <2>3, <2>5 DEF r, CallType
    <2> QED
      BY <2>4, <2>5
  <1>6. CASE d.pc = "done"
    BY <1>3, <1>4, <1>6 DEF http_parse_host
  <1> QED
    BY <1>3, <1>5, <1>6

-----------------------------------------------------------------------------
(* What was in the struct before does not matter *)

\* The same fields, in the same places
SameFields(u, v) ==
    /\ u.field_set = v.field_set /\ u.port = v.port
    /\ \A f \in u.field_set : u.off[f] = v.off[f] /\ u.len[f] = v.len[f]

SameCall(c, d) ==
    /\ c.pc = d.pc /\ c.p = d.p /\ c.s = d.s /\ c.old_uf = d.old_uf
    /\ c.found_at = d.found_at /\ c.buflen = d.buflen /\ c.ret = d.ret
    /\ SameFields(c.u, d.u)

\* x is w with field f at offset k, l long
WithField(x, w, f, k, l) ==
    /\ x.field_set = w.field_set \cup {f} /\ x.port = w.port
    /\ x.off = [w.off EXCEPT ![f] = k] /\ x.len = [w.len EXCEPT ![f] = l]

\* d is c with another place and state
MovedOn(d, c, s, p, at) ==
    /\ d \in CallType /\ d.pc = c.pc /\ d.p = p /\ d.s = s /\ d.old_uf = c.old_uf
    /\ d.found_at = at /\ d.buflen = c.buflen /\ d.ret = c.ret /\ d.u = c.u

\* A field is only lengthened when it has begun in this parse, and is otherwise begun.
LEMMA StructSame ==
    ASSUME NEW u \in StructType, NEW v \in StructType, SameFields(u, v),
           NEW f \in Field, NEW p \in Nat
    PROVE  /\ f \in u.field_set => SameFields(Longer(u, f), Longer(v, f))
           /\ SameFields(Begun(u, f, p), Begun(v, f, p))
           /\ SameFields(Moved(u, f, p), Moved(v, f, p))
           /\ SameFields(Cleared(Moved(u, f, p), f), Cleared(Moved(v, f, p), f))
  <1>1. u.field_set \subseteq Field /\ v.field_set \subseteq Field
    BY DEF StructType
  <1>2. ASSUME f \in u.field_set PROVE SameFields(Longer(u, f), Longer(v, f))
    BY <1>1, <1>2 DEF SameFields, Longer, StructType
  <1>3. SameFields(Moved(u, f, p), Moved(v, f, p))
    BY <1>1 DEF SameFields, Moved, StructType
  <1>4. ASSUME NEW x, NEW y, NEW k, NEW l, WithField(x, u, f, k, l), WithField(y, v, f, k, l)
        PROVE  SameFields(x, y)
    BY <1>1, <1>4 DEF SameFields, StructType, WithField
  <1> DEFINE k == p % UINT16_RANGE
             one == 1 % UINT16_RANGE
             zero == 0
  <1>5. ASSUME NEW w \in StructType PROVE WithField(Begun(w, f, p), w, f, k, one)
    BY Wrapped DEF Begun, StructType, WithField
  <1>6. ASSUME NEW w \in StructType PROVE WithField(Cleared(Moved(w, f, p), f), w, f, k, zero)
    <2> DEFINE x == Moved(w, f, p)
    <2>1. /\ x \in StructType /\ x.field_set = w.field_set /\ x.port = w.port
          /\ x.off = [w.off EXCEPT ![f] = k] /\ x.len = w.len
      BY StructTypes DEF Moved, StructType
    <2> HIDE DEF x
    <2>2. /\ Cleared(x, f).field_set = x.field_set \cup {f} /\ Cleared(x, f).port = x.port
          /\ Cleared(x, f).off = x.off /\ Cleared(x, f).len = [x.len EXCEPT ![f] = zero]
      BY <2>1 DEF Cleared, StructType
    <2> QED
      BY <2>1, <2>2 DEF x, WithField
  <1> HIDE DEF k, one, zero
  <1>7. SameFields(Begun(u, f, p), Begun(v, f, p))
    BY <1>4, <1>5
  <1>8. SameFields(Cleared(Moved(u, f, p), f), Cleared(Moved(v, f, p), f))
    BY <1>4, <1>6
  <1> QED
    BY <1>2, <1>3, <1>7, <1>8

LEMMA ReturnsSame ==
    ASSUME NEW c \in CallType, NEW d \in CallType, SameCall(c, d)
    PROVE  SameCall(Reject(c), Reject(d)) /\ SameCall(Accept(c), Accept(d))
  BY DEF SameCall, CallType, Reject, Accept

LEMMA UrlStepSame ==
    ASSUME NEW c \in CallType, NEW d \in CallType, SameCall(c, d), NEW ch,
           NEW n \in Nat, ParseInv(c, n), c.pc = "url"
    PROVE  SameCall(UrlStep(c, ch), UrlStep(d, ch))
  <1> DEFINE s == parse_url_char(c.s, ch)
             uf == FieldOf(s)
             at == c.found_at \/ s = "s_req_server_with_at"
             Next(e) == [e EXCEPT !.s = s, !.p = @ + 1,
                                  !.found_at = @ \/ s = "s_req_server_with_at"]
             New(e) == IF uf = e.old_uf THEN Longer(e.u, uf) ELSE Begun(e.u, uf, e.p)
             Far(e) == [Next(e) EXCEPT !.old_uf = uf, !.u = New(e)]
  <1>1. parse_url_char(d.s, ch) = s /\ c.u \in StructType /\ d.u \in StructType
        /\ SameFields(c.u, d.u) /\ c.old_uf = d.old_uf /\ c.p = d.p /\ c.p \in Nat
    BY DEF SameCall, CallType
  <1>2. s \in UrlState
    BY DEF parse_url_char, UrlState, Server
  <1>3. at \in BOOLEAN
    OBVIOUS
  <1>4. /\ Next(c) = [c EXCEPT !.s = s, !.p = c.p + 1, !.found_at = at]
        /\ Next(d) = [d EXCEPT !.s = s, !.p = d.p + 1, !.found_at = at]
    <2>1. c.found_at = d.found_at
      BY DEF SameCall
    <2> QED
      BY <2>1, Zenon DEF CallType
  <1>5. Next(c) \in CallType /\ Next(d) \in CallType /\ SameCall(Next(c), Next(d))
    <2>1. ASSUME NEW e \in {c, d} PROVE MovedOn(Next(e), e, s, c.p + 1, at)
      <3> DEFINE w == Next(e)
                 q == c.p + 1
      <3>1. w = [e EXCEPT !.s = s, !.p = q, !.found_at = at]
        BY <1>1, <1>4, Zenon
      <3>2. q \in Nat /\ e \in CallType /\ s \in UrlState \cup HostState
        BY <1>1, <1>2
      <3> HIDE DEF s, at, w, Next, q, Far, New, uf
      <3>3. MovedOn(w, e, s, q, at)
        BY <1>3, <3>1, <3>2 DEF MovedOn, CallType
      <3> QED
        BY <3>3 DEF w, q
    <2> DEFINE w == Next(c)
               x == Next(d)
    <2>2. MovedOn(w, c, s, c.p + 1, at) /\ MovedOn(x, d, s, c.p + 1, at)
      BY <2>1
    <2> HIDE DEF s, at, w, x, Next
    <2>3. SameCall(w, x)
      BY <2>2 DEF SameCall, MovedOn
    <2> QED
      BY <2>2, <2>3 DEF w, x, MovedOn
  <1>6. ASSUME uf \in Field PROVE SameCall(Far(c), Far(d))
    <2>1. SameFields(New(c), New(d))
      <3>1. CASE uf = c.old_uf
        <4>1. uf \in c.u.field_set
          BY <1>6, <3>1 DEF ParseInv, UrlInv, Field
        <4> HIDE DEF uf
        <4> QED
          BY <1>1, <1>6, <3>1, <4>1, StructSame
      <3>2. CASE uf # c.old_uf
        <4> HIDE DEF uf
        <4> QED
          BY <1>1, <1>6, <3>2, StructSame
      <3> QED
        BY <3>1, <3>2
    <2> HIDE DEF Next, New, uf
    <2> QED
      BY <1>5, <2>1 DEF SameCall, CallType
  <1>7. uf = "none" \/ uf \in Field
    BY FieldType
  <1>8. ASSUME NEW e \in {c, d}
        PROVE  UrlStep(e, ch) = CASE s = "s_dead" -> Reject(e)
                                  [] s \in Delimiting -> Next(e)
                                  [] s \notin Delimiting \cup {"s_dead"} /\ uf = "none" ->
                                       Reject(Next(e))
                                  [] OTHER -> Far(e)
    <2>1. parse_url_char(e.s, ch) = s
      BY <1>1
    <2> QED
      BY <2>1, Zenon DEF UrlStep
  <1> HIDE DEF s, uf, Next, Far
  <1>9. CASE s = "s_dead"
    BY <1>8, <1>9, ReturnsSame DEF Delimiting
  <1>10. CASE s \in Delimiting
    BY <1>5, <1>8, <1>10 DEF Delimiting
  <1>11. CASE s # "s_dead" /\ s \notin Delimiting /\ uf = "none"
    BY <1>5, <1>8, <1>11, ReturnsSame
  <1>12. CASE s # "s_dead" /\ s \notin Delimiting /\ uf # "none"
    BY <1>6, <1>7, <1>8, <1>12
  <1> QED
    BY <1>9, <1>10, <1>11, <1>12

LEMMA HostStartSame ==
    ASSUME NEW c \in CallType, NEW d \in CallType, SameCall(c, d), "UF_HOST" \in c.u.field_set
    PROVE  SameCall(HostStart(c), HostStart(d))
  <1> DEFINE Short(e) == [e.u EXCEPT !.len["UF_HOST"] = 0]
             From(e) == e.u.off["UF_HOST"]
             To(e) == e.u.off["UF_HOST"] + e.u.len["UF_HOST"]
             s == IF c.found_at THEN "s_http_userinfo_start" ELSE "s_http_host_start"
  <1>1. From(c) = From(d) /\ To(c) = To(d)
    BY DEF SameCall, SameFields
  <1>2. SameFields(Short(c), Short(d))
    BY DEF SameCall, SameFields, CallType, StructType
  <1>3. /\ HostStart(c) = [c EXCEPT !.pc = "host", !.s = s, !.p = From(c), !.buflen = To(c),
                                    !.u = Short(c)]
        /\ HostStart(d) = [d EXCEPT !.pc = "host", !.s = s, !.p = From(d), !.buflen = To(d),
                                    !.u = Short(d)]
    BY DEF HostStart, SameCall
  <1> HIDE DEF Short, From, To, s
  <1> QED
    BY <1>1, <1>2, <1>3 DEF SameCall, CallType

LEMMA HostFieldSame ==
    ASSUME NEW c \in CallType, NEW d \in CallType, SameCall(c, d),
           NEW n \in Nat, ParseInv(c, n), c.pc = "host", NEW s
    PROVE  SameFields(HostField(c, s), HostField(d, s))
  <1>1. c.u \in StructType /\ d.u \in StructType /\ SameFields(c.u, d.u)
        /\ c.p = d.p /\ c.p \in Nat /\ c.s = d.s
    BY DEF SameCall, CallType
  <1>2. /\ "UF_HOST" \in c.u.field_set
        /\ c.s = "s_http_userinfo" => "UF_USERINFO" \in c.u.field_set
        /\ c.s = "s_http_host_port" => "UF_PORT" \in c.u.field_set
    BY DEF ParseInv, HostInv
  <1>3. \A f \in Field : f \in c.u.field_set => SameFields(Longer(c.u, f), Longer(d.u, f))
    BY <1>1, StructSame
  <1>4. ASSUME NEW f \in Field, f \in c.u.field_set
        PROVE  SameFields(Longer(Moved(c.u, f, c.p), f), Longer(Moved(d.u, f, c.p), f))
    <2> DEFINE u == Moved(c.u, f, c.p)
               v == Moved(d.u, f, c.p)
    <2>1. u \in StructType /\ v \in StructType /\ SameFields(u, v)
      BY <1>1, StructTypes, StructSame
    <2>2. f \in u.field_set
      BY <1>1, <1>4 DEF Moved, StructType
    <2> HIDE DEF u, v
    <2> QED
      BY <1>1, <2>1, <2>2, StructSame DEF u, v
  <1>5. ASSUME NEW f \in Field
        PROVE  SameFields(Longer(Cleared(Moved(c.u, f, c.p), f), f),
                          Longer(Cleared(Moved(d.u, f, c.p), f), f))
    <2> DEFINE u == Cleared(Moved(c.u, f, c.p), f)
               v == Cleared(Moved(d.u, f, c.p), f)
    <2>1. u \in StructType /\ v \in StructType
      BY <1>1, StructTypes
    <2>2. SameFields(u, v)
      BY <1>1, StructSame
    <2>3. f \in u.field_set
      <3>1. Moved(c.u, f, c.p) \in StructType
        BY <1>1, StructTypes
      <3> QED
        BY <3>1 DEF Cleared, StructType
    <2> HIDE DEF u, v
    <2> QED
      BY <1>1, <2>1, <2>2, <2>3, StructSame DEF u, v
  <1>6. {"UF_HOST", "UF_PORT", "UF_USERINFO"} \subseteq Field
    BY DEF Field
  <1>7. CASE s \in {"s_http_host", "s_http_host_v6"}
    BY <1>1, <1>2, <1>3, <1>4, <1>6, <1>7 DEF HostField
  <1>8. CASE s \in {"s_http_host_v6_zone_start", "s_http_host_v6_zone"}
    BY <1>2, <1>3, <1>6, <1>8 DEF HostField
  <1>9. CASE s = "s_http_host_port"
    BY <1>1, <1>2, <1>3, <1>5, <1>6, <1>9 DEF HostField
  <1>10. CASE s = "s_http_userinfo"
    BY <1>1, <1>2, <1>3, <1>5, <1>6, <1>10 DEF HostField
  <1>11. CASE s \notin {"s_http_host", "s_http_host_v6", "s_http_host_v6_zone_start",
                        "s_http_host_v6_zone", "s_http_host_port", "s_http_userinfo"}
    BY <1>1, <1>11 DEF HostField
  <1> QED
    BY <1>7, <1>8, <1>9, <1>10, <1>11

LEMMA HostStepSame ==
    ASSUME NEW c \in CallType, NEW d \in CallType, SameCall(c, d), NEW ch,
           NEW n \in Nat, ParseInv(c, n), c.pc = "host"
    PROVE  SameCall(HostStep(c, ch), HostStep(d, ch))
  <1> DEFINE s == http_parse_host_char(c.s, ch)
             Far(e) == [e EXCEPT !.s = s, !.p = @ + 1, !.u = HostField(e, s)]
  <1>1. http_parse_host_char(d.s, ch) = s
    BY DEF SameCall
  <1>2. SameFields(HostField(c, s), HostField(d, s))
    BY HostFieldSame
  <1>3. SameCall(Far(c), Far(d))
    <2> HIDE DEF s
    <2> QED
      BY <1>2 DEF SameCall, CallType
  <1>4. /\ HostStep(c, ch) = IF s = "s_http_host_dead" THEN Reject(c) ELSE Far(c)
        /\ HostStep(d, ch) = IF s = "s_http_host_dead" THEN Reject(d) ELSE Far(d)
    BY <1>1, Zenon DEF HostStep
  <1> HIDE DEF s, Far
  <1> QED
    BY <1>3, <1>4, ReturnsSame

LEMMA PortSame ==
    ASSUME NEW c \in CallType, NEW d \in CallType, SameCall(c, d), NEW buf
    PROVE  SameCall(Port(c, buf), Port(d, buf))
  <1>1. CASE "UF_PORT" \notin c.u.field_set
    BY <1>1, ReturnsSame DEF Port, SameCall, SameFields
  <1>2. CASE "UF_PORT" \in c.u.field_set
    <2> DEFINE v == Number(buf, c.u.off["UF_PORT"])
    <2>1. c.u.off["UF_PORT"] = d.u.off["UF_PORT"] /\ "UF_PORT" \in d.u.field_set
      BY <1>2 DEF SameCall, SameFields
    <2>2. /\ Port(c, buf) = IF v > UINT16_RANGE - 1 THEN Reject(c)
                            ELSE Accept([c EXCEPT !.u.port = v])
          /\ Port(d, buf) = IF v > UINT16_RANGE - 1 THEN Reject(d)
                            ELSE Accept([d EXCEPT !.u.port = v])
      BY <1>2, <2>1, Zenon DEF Port
    <2>3. SameCall(Accept([c EXCEPT !.u.port = v]), Accept([d EXCEPT !.u.port = v]))
      <3> HIDE DEF v
      <3> QED
        BY DEF Accept, SameCall, SameFields, CallType, StructType
    <2> HIDE DEF v
    <2> QED
      BY <2>2, <2>3, ReturnsSame
  <1> QED
    BY <1>1, <1>2

LEMMA StartSame ==
    ASSUME NEW u, Struct(u), NEW v, Struct(v) PROVE SameCall(Start(u), Start(v))
  BY DEF Start, Struct, SameCall, SameFields

LEMMA ReadSame ==
    ASSUME NEW buf, Len(buf) \in Nat, NEW u, Struct(u), NEW v, Struct(v)
    PROVE  SameCall(Read(buf, u), Read(buf, v))
  <1> DEFINE m == Len(buf)
  <1>1. PICK f \in [0..m -> CallType] :
           /\ IsRead(f, buf, u) /\ Read(buf, u) = f[m]
           /\ \A n \in 0..m : ParseInv(f[n], n) /\ f[n].pc # "host"
    BY ReadLoop
  <1>2. PICK g \in [0..m -> CallType] : IsRead(g, buf, v) /\ Read(buf, v) = g[m]
    BY ReadLoop
  <1> DEFINE T == {n \in 0..m : SameCall(f[n], g[n])}
  <1>3. 0 \in T
    BY <1>1, <1>2, StartSame DEF IsRead
  <1>4. \A n \in 0..(m - 1) : n \in T => n + 1 \in T
    <2> SUFFICES ASSUME NEW n \in 0..(m - 1), SameCall(f[n], g[n])
                 PROVE  SameCall(f[n + 1], g[n + 1])
      OBVIOUS
    <2>1. n + 1 \in 1..m /\ (n + 1) - 1 = n /\ n \in 0..m /\ n \in Nat
      OBVIOUS
    <2>2. /\ f[n + 1] = IF f[n].pc = "url" THEN UrlStep(f[n], buf[n + 1]) ELSE f[n]
          /\ g[n + 1] = IF g[n].pc = "url" THEN UrlStep(g[n], buf[n + 1]) ELSE g[n]
      BY <1>1, <1>2, <2>1 DEF IsRead
    <2> DEFINE c == f[n]
               d == g[n]
    <2>3. c \in CallType /\ d \in CallType /\ ParseInv(c, n) /\ SameCall(c, d) /\ c.pc = d.pc
      BY <1>1, <2>1 DEF SameCall
    <2> HIDE DEF c, d
    <2>4. CASE c.pc = "url"
      <3>1. SameCall(UrlStep(c, buf[n + 1]), UrlStep(d, buf[n + 1]))
        BY <2>1, <2>3, <2>4, UrlStepSame
      <3> QED
        BY <2>2, <2>3, <2>4, <3>1 DEF c, d
    <2>5. CASE c.pc # "url"
      BY <2>2, <2>3, <2>5 DEF c, d
    <2> QED
      BY <2>4, <2>5
  <1>5. m \in T
    <2> DEFINE a == 0
    <2>1. a \in T /\ \A n \in a..(m - 1) : n \in T => n + 1 \in T
      BY <1>3, <1>4
    <2>2. m \in Nat /\ a \in Nat /\ m \in a..m
      OBVIOUS
    <2> HIDE DEF T, m, a
    <2> QED
      BY <2>1, <2>2, IntervalInduction
  <1> QED
    BY <1>1, <1>2, <1>5

LEMMA HostSame ==
    ASSUME NEW c \in CallType, NEW d \in CallType, SameCall(c, d), c.pc = "host",
           NEW n \in Nat, ParseInv(c, n), ParseInv(d, n), NEW buf
    PROVE  SameCall(http_parse_host(c, buf), http_parse_host(d, buf))
  <1> DEFINE a == c.p
             m == c.buflen
  <1>1. d.p = a /\ d.buflen = m /\ d.pc = "host"
    BY DEF SameCall
  <1>2. a \in Nat /\ m \in Nat /\ a <= m
    BY DEF ParseInv, HostInv, CallType
  <1>3. PICK f \in [a..m -> CallType] :
           /\ IsHost(f, c, buf)
           /\ http_parse_host(c, buf) = IF f[m].pc = "host" THEN HostEnd(f[m], buf) ELSE f[m]
           /\ \A k \in a..m : ParseInv(f[k], n)
    BY HostLoop
  <1>4. PICK g \in [a..m -> CallType] :
           /\ IsHost(g, d, buf)
           /\ http_parse_host(d, buf) = IF g[m].pc = "host" THEN HostEnd(g[m], buf) ELSE g[m]
    BY <1>1, HostLoop
  <1> DEFINE T == {k \in a..m : SameCall(f[k], g[k])}
  <1>5. a \in T
    BY <1>1, <1>2, <1>3, <1>4 DEF IsHost
  <1>6. \A k \in a..(m - 1) : k \in T => k + 1 \in T
    <2> SUFFICES ASSUME NEW k \in a..(m - 1), SameCall(f[k], g[k])
                 PROVE  k + 1 \in a..m /\ SameCall(f[k + 1], g[k + 1])
      OBVIOUS
    <2>1. k + 1 \in (a + 1)..m /\ (k + 1) - 1 = k /\ k \in a..m /\ k + 1 \in a..m
      BY <1>2
    <2>2. /\ f[k + 1] = IF f[k].pc = "host" THEN HostStep(f[k], buf[k + 1]) ELSE f[k]
          /\ g[k + 1] = IF g[k].pc = "host" THEN HostStep(g[k], buf[k + 1]) ELSE g[k]
      BY <1>1, <1>3, <1>4, <2>1 DEF IsHost
    <2> DEFINE x == f[k]
               y == g[k]
    <2>3. x \in CallType /\ y \in CallType /\ ParseInv(x, n) /\ SameCall(x, y) /\ x.pc = y.pc
      BY <1>3, <2>1 DEF SameCall
    <2> HIDE DEF x, y
    <2>4. CASE x.pc = "host"
      <3>1. SameCall(HostStep(x, buf[k + 1]), HostStep(y, buf[k + 1]))
        BY <2>3, <2>4, HostStepSame
      <3> QED
        BY <2>1, <2>2, <2>3, <2>4, <3>1 DEF x, y
    <2>5. CASE x.pc # "host"
      BY <2>1, <2>2, <2>3, <2>5 DEF x, y
    <2> QED
      BY <2>4, <2>5
  <1>7. m \in T
    <2>1. m \in a..m
      BY <1>2
    <2> HIDE DEF T, m, a
    <2> QED
      BY <1>2, <1>5, <1>6, <2>1, IntervalInduction
  <1> DEFINE x == f[m]
             y == g[m]
  <1>8. x \in CallType /\ y \in CallType /\ SameCall(x, y) /\ x.pc = y.pc /\ x.s = y.s
    BY <1>2, <1>7 DEF SameCall
  <1> HIDE DEF x, y
  <1>9. SameCall(HostEnd(x, buf), HostEnd(y, buf))
    BY <1>8, PortSame, ReturnsSame DEF HostEnd
  <1> QED
    BY <1>3, <1>4, <1>8, <1>9 DEF x, y

\* The result of a call does not depend on what *u was: the fields, their places and the port
\* are those of any other call on this text.
LEMMA ParsedSame ==
    ASSUME NEW buf, Len(buf) \in Nat, NEW u, Struct(u), NEW v, Struct(v)
    PROVE  SameCall(http_parser_parse_url(buf, u), http_parser_parse_url(buf, v))
  <1> DEFINE c == Read(buf, u)
             d == Read(buf, v)
             x == AfterRead(c, buf)
             y == AfterRead(d, buf)
             n == Len(buf)
  <1>1. /\ c \in CallType /\ ParseInv(c, n) /\ c.pc # "host"
        /\ d \in CallType /\ ParseInv(d, n) /\ d.pc # "host"
    <2>1. n \in 0..n
      OBVIOUS
    <2> QED
      BY <2>1, ReadLoop
  <1>2. SameCall(c, d) /\ c.pc = d.pc
    BY ReadSame DEF SameCall
  <1> HIDE DEF c, d
  <1>3. /\ SameCall(x, y) /\ ParseInv(x, n) /\ ParseInv(y, n)
        /\ x.pc = "done" \/ (x.pc = "host" /\ x \in CallType /\ y \in CallType)
    <2>1. CASE c.pc = "url"
      <3>1. x = UrlEnd(c, buf) /\ y = UrlEnd(d, buf)
        BY <1>2, <2>1 DEF AfterRead
      <3>2. ParseInv(x, n) /\ ParseInv(y, n)
        BY <1>1, <1>2, <2>1, <3>1, UrlEndInv
      <3>3. c.u.field_set = d.u.field_set
        BY <1>2 DEF SameCall, SameFields
      <3> HIDE DEF x, y
      <3>4. CASE "UF_HOST" \in c.u.field_set
        <4>1. x = HostStart(c) /\ y = HostStart(d)
          BY <3>1, <3>3, <3>4 DEF UrlEnd
        <4> QED
          BY <1>1, <1>2, <3>2, <3>4, <4>1, HostStartSame, HostStartType
      <3>5. CASE "UF_HOST" \notin c.u.field_set
        <4>1. \/ x = Reject(c) /\ y = Reject(d)
              \/ x = Port(c, buf) /\ y = Port(d, buf)
          BY <3>1, <3>3, <3>5 DEF UrlEnd
        <4> QED
          BY <1>1, <1>2, <3>2, <4>1, ReturnsSame, PortSame, PortReturns, Returns
      <3> QED
        BY <3>4, <3>5
    <2>2. CASE c.pc # "url"
      <3>1. x = c /\ y = d /\ c.pc = "done"
        BY <1>1, <1>2, <2>2 DEF AfterRead, CallType
      <3> QED
        BY <1>1, <1>2, <3>1
    <2> QED
      BY <2>1, <2>2
  <1>4. /\ http_parser_parse_url(buf, u) = http_parse_host(x, buf)
        /\ http_parser_parse_url(buf, v) = http_parse_host(y, buf)
    BY DEF http_parser_parse_url, c, d
  <1> HIDE DEF x, y, n
  <1>5. CASE x.pc = "host"
    <2>1. n \in Nat
      BY DEF n
    <2> QED
      BY <1>3, <1>4, <1>5, <2>1, HostSame
  <1>6. CASE x.pc = "done"
    <2>1. x.pc # "host" /\ y.pc # "host"
      BY <1>3, <1>6 DEF SameCall
    <2> QED
      BY <1>3, <1>4, <2>1 DEF http_parse_host
  <1> QED
    BY <1>3, <1>5, <1>6

-----------------------------------------------------------------------------
(* What the fields are made of *)

\* The characters up to k have all been accepted, and the fields end there
Spaceless(u, buf, k) == InText(u, k) /\ \A i \in 1..k : buf[i] # "SP"

\* Offsets that do not wrap name the place where a field began
PathBegins(u, buf) ==
    Len(buf) <= UINT16_RANGE /\ "UF_PATH" \in u.field_set =>
        buf[u.off["UF_PATH"] + 1] \in {"/", "*"}

\* The first loop, n characters read
ReadText(c, buf, n) ==
    /\ \E k \in 0..n : Spaceless(c.u, buf, k) /\ (c.pc = "url" => k = n)
    /\ PathBegins(c.u, buf)
    /\ c.pc = "url" /\ c.s = "s_req_path" => c.old_uf = "UF_PATH"
    /\ c.pc = "done" => c.ret = 1

\* A URL of offsets that do not wrap and without an address in brackets
Plain(buf) == Len(buf) < UINT16_RANGE /\ \A i \in 1..Len(buf) : buf[i] # "["

HostCharsOnly(u, buf) ==
    \A i \in (u.off["UF_HOST"] + 1)..(u.off["UF_HOST"] + u.len["UF_HOST"]) : buf[i] \in HostChar

V6 == {"s_http_host_v6_start", "s_http_host_v6", "s_http_host_v6_end",
       "s_http_host_v6_zone_start", "s_http_host_v6_zone"}

\* The second loop: a host that grows ends where the loop stands
HostRead(c, buf) ==
    Plain(buf) =>
        /\ HostCharsOnly(c.u, buf)
        /\ c.pc = "host" => /\ c.s \notin V6
                            /\ c.s = "s_http_host" =>
                                  c.u.off["UF_HOST"] + c.u.len["UF_HOST"] = c.p

LEMMA NoSpace == \A s \in UrlState : parse_url_char(s, "SP") = "s_dead"
  <1>1. /\ "SP" \notin Alpha /\ "SP" \notin UserinfoChar \cup {"[", "]"}
        /\ "SP" \notin UrlChar \cup {"?"} /\ "SP" \notin {"/", "*", ":", "?", "@", "#"}
    BY DEF Alpha, UserinfoChar, UrlChar, Digit
  <1> QED
    BY <1>1 DEF parse_url_char

\* A path begins with "/" or "*".
LEMMA PathFrom ==
    ASSUME NEW s, s # "s_req_path", NEW ch, parse_url_char(s, ch) = "s_req_path"
    PROVE  ch \in {"/", "*"}
  BY DEF parse_url_char, Server

LEMMA FieldIsPath == \A s : (FieldOf(s) = "UF_PATH") <=> (s = "s_req_path")
  BY DEF FieldOf

LEMMA UrlStepCases ==
    ASSUME NEW c \in CallType, c.s \in UrlState, NEW ch, NEW s, s = parse_url_char(c.s, ch),
           NEW uf, uf = FieldOf(s), NEW d, d = UrlStep(c, ch)
    PROVE  \/ s = "s_dead" /\ d = Reject(c)
           \/ /\ s \in Delimiting
              /\ d.pc = c.pc /\ d.s = s /\ d.u = c.u /\ d.old_uf = c.old_uf
           \/ /\ s # "s_dead" /\ s \notin Delimiting /\ uf \in Field
              /\ d.pc = c.pc /\ d.s = s /\ d.old_uf = uf
              /\ d.u = IF uf = c.old_uf THEN Longer(c.u, uf) ELSE Begun(c.u, uf, c.p)
  <1> DEFINE at == c.found_at \/ s = "s_req_server_with_at"
             next == [c EXCEPT !.s = s, !.p = @ + 1,
                               !.found_at = @ \/ s = "s_req_server_with_at"]
             v == IF uf = c.old_uf THEN Longer(c.u, uf) ELSE Begun(c.u, uf, c.p)
             Kept(e, t) == e.pc = c.pc /\ e.s = t /\ e.u = c.u /\ e.old_uf = c.old_uf
  <1>1. s \in UrlState /\ (s = "s_dead" \/ Known(s)) /\ uf \in Field \cup {"none"}
    BY NextKnown, FieldType
  <1>2. next.pc = c.pc /\ next.s = s /\ next.u = c.u /\ next.old_uf = c.old_uf
    <2>1. next = [c EXCEPT !.s = s, !.p = c.p + 1, !.found_at = at]
      BY Zenon DEF CallType
    <2>2. \A t, q, a, e : e = [c EXCEPT !.s = t, !.p = q, !.found_at = a]
              => Kept(e, t)
      BY DEF CallType
    <2>3. Kept(next, s)
      <3> HIDE DEF next, at, Kept
      <3> QED
        BY <2>1, <2>2, Zenon
    <2> QED
      BY <2>3
  <1>3. CASE s = "s_dead"
    BY <1>3 DEF UrlStep, Delimiting
  <1>4. CASE s \in Delimiting
    <2>1. d = next
      BY <1>4 DEF UrlStep, Delimiting
    <2> QED
      BY <1>2, <1>4, <2>1
  <1>5. CASE s # "s_dead" /\ s \notin Delimiting
    <2>1. uf \in Field
      BY <1>1, <1>5 DEF Known
    <2>2. d = [next EXCEPT !.old_uf = uf, !.u = v]
      BY <1>5, <2>1 DEF UrlStep, Field
    <2>3. next \in [pc : {c.pc}, p : {next.p}, s : {s}, old_uf : {c.old_uf},
                    found_at : {next.found_at}, buflen : {c.buflen}, ret : {c.ret}, u : {c.u}]
      <3>1. ASSUME NEW t, NEW q, NEW a, NEW e, e = [c EXCEPT !.s = t, !.p = q, !.found_at = a]
            PROVE  e \in [pc : {c.pc}, p : {e.p}, s : {t}, old_uf : {c.old_uf},
                          found_at : {e.found_at}, buflen : {c.buflen}, ret : {c.ret}, u : {c.u}]
        BY <3>1 DEF CallType
      <3>2. next = [c EXCEPT !.s = s, !.p = c.p + 1, !.found_at = at]
        BY Zenon DEF CallType
      <3> HIDE DEF next, at
      <3> QED
        BY <3>1, <3>2, Zenon
    <2> HIDE DEF next, v
    <2>4. d.pc = c.pc /\ d.s = s /\ d.old_uf = uf /\ d.u = v
      BY <2>2, <2>3
    <2> QED
      BY <1>5, <2>1, <2>4 DEF v
  <1> QED
    BY <1>3, <1>4, <1>5

SetAt(f, i, n) == [f EXCEPT ![i] = n % UINT16_RANGE]

LEMMA LongerKeeps ==
    \A u \in StructType, f \in Field :
        /\ Longer(u, f).field_set = u.field_set /\ Longer(u, f).off = u.off
        /\ Longer(u, f).len = SetAt(u.len, f, u.len[f] + 1)
  BY DEF Longer, StructType, SetAt

LEMMA BegunKeeps ==
    \A u \in StructType, f \in Field, p \in Nat :
        /\ Begun(u, f, p).field_set = u.field_set \cup {f}
        /\ Begun(u, f, p).off = SetAt(u.off, f, p)
  BY DEF Begun, StructType, SetAt

LEMMA MovedKeeps ==
    \A u \in StructType, f \in Field, p \in Nat :
        /\ Moved(u, f, p).field_set = u.field_set /\ Moved(u, f, p).len = u.len
        /\ Moved(u, f, p).off = SetAt(u.off, f, p)
  BY DEF Moved, StructType, SetAt

LEMMA OffsNat == \A u \in StructType : u.off \in [Field -> Nat] /\ u.len \in [Field -> Nat]
  BY DEF StructType

LEMMA SetAtField ==
    \A g \in [Field -> Nat], f \in Field, n \in Nat :
        /\ SetAt(g, f, n)[f] = n % UINT16_RANGE
        /\ \A i \in Field \ {f} : SetAt(g, f, n)[i] = g[i]
  BY DEF SetAt

\* A turn of the first loop.
LEMMA UrlStepText ==
    ASSUME NEW buf, NEW c \in CallType, NEW n \in Nat, n + 1 <= Len(buf), Len(buf) \in Nat,
           ParseInv(c, n), c.pc = "url", ReadText(c, buf, n)
    PROVE  ReadText(UrlStep(c, buf[n + 1]), buf, n + 1)
  <1> DEFINE ch == buf[n + 1]
             s == parse_url_char(c.s, ch)
             uf == FieldOf(s)
             d == UrlStep(c, ch)
  <1>1. /\ c.p = n /\ c.s \in UrlState /\ c.u \in StructType
        /\ Spaceless(c.u, buf, n) /\ PathBegins(c.u, buf)
        /\ c.s = "s_req_path" => c.old_uf = "UF_PATH"
    BY DEF ParseInv, UrlInv, ReadText, CallType
  <1>2. \/ s = "s_dead" /\ d = Reject(c)
        \/ s # "s_dead" /\ d.u = c.u /\ s # "s_req_path"
        \/ /\ s # "s_dead" /\ uf \in Field /\ d.old_uf = uf
           /\ d.u = IF uf = c.old_uf THEN Longer(c.u, uf) ELSE Begun(c.u, uf, c.p)
    BY <1>1, UrlStepCases DEF Delimiting
  <1>3. s # "s_dead" => d.pc = "url" /\ d.s = s
    BY <1>1, UrlStepCases
  <1>4. InText(d.u, n + 1)
    BY UrlStepInv DEF ParseInv
  <1>5. s # "s_dead" => Spaceless(d.u, buf, n + 1)
    <2>1. s # "s_dead" => ch # "SP"
      BY <1>1, NoSpace
    <2>2. \A i \in 1..(n + 1) : i \in 1..n \/ i = n + 1
      OBVIOUS
    <2> HIDE DEF d, s
    <2> QED
      BY <1>1, <1>4, <2>1, <2>2 DEF Spaceless
  <1> HIDE DEF d
  <1>6. CASE s = "s_dead"
    <2>1. d.pc = "done" /\ d.ret = 1 /\ d.u = c.u
      BY <1>2, <1>6 DEF Reject, CallType
    <2>2. n \in 0..(n + 1)
      OBVIOUS
    <2>3. ReadText(d, buf, n + 1)
      BY <1>1, <2>1, <2>2 DEF ReadText
    <2> QED
      BY <2>3 DEF d
  <1>7. CASE s # "s_dead"
    <2>1. PathBegins(d.u, buf)
      <3>1. CASE d.u = c.u
        BY <1>1, <3>1
      <3>2. CASE uf \in Field /\ uf = c.old_uf /\ d.u = Longer(c.u, uf)
        <4>1. d.u.field_set = c.u.field_set /\ d.u.off = c.u.off
          <5> HIDE DEF uf
          <5> QED
            BY <1>1, <3>2, LongerKeeps
        <4> QED
          BY <1>1, <4>1 DEF PathBegins
      <3>3. CASE uf \in Field /\ uf # c.old_uf /\ d.u = Begun(c.u, uf, c.p)
        <4>1. d.u.field_set = c.u.field_set \cup {uf} /\ d.u.off = SetAt(c.u.off, uf, n)
          <5> HIDE DEF uf
          <5> QED
            BY <1>1, <3>3, BegunKeeps
        <4>2. CASE uf # "UF_PATH"
          <5>1. d.u.off["UF_PATH"] = c.u.off["UF_PATH"]
            <6>1. uf \in Field /\ "UF_PATH" \in Field /\ c.u.off \in [Field -> Nat]
              BY <1>1, <3>3, OffsNat DEF Field
            <6> HIDE DEF uf
            <6>2. "UF_PATH" \in Field \ {uf}
              BY <4>2, <6>1
            <6>3. SetAt(c.u.off, uf, n)["UF_PATH"] = c.u.off["UF_PATH"]
              BY <6>1, <6>2, SetAtField
            <6> QED
              BY <4>1, <6>3
          <5> HIDE DEF uf
          <5> QED
            BY <1>1, <4>1, <4>2, <5>1 DEF PathBegins
        <4>3. CASE uf = "UF_PATH"
          <5>1. s = "s_req_path" /\ c.s # "s_req_path"
            BY <1>1, <3>3, <4>3, FieldIsPath
          <5>2. ch \in {"/", "*"}
            BY <5>1, PathFrom
          <5>3. d.u.off["UF_PATH"] = n % UINT16_RANGE
            <6>1. uf \in Field /\ c.u.off \in [Field -> Nat]
              BY <1>1, <3>3, OffsNat
            <6> HIDE DEF uf
            <6>2. SetAt(c.u.off, uf, n)[uf] = n % UINT16_RANGE
              BY <6>1, SetAtField
            <6> QED
              BY <4>1, <4>3, <6>2
          <5>4. Len(buf) <= UINT16_RANGE => n % UINT16_RANGE = n
            BY RangeAssumption, SMT
          <5> HIDE DEF uf, s
          <5> QED
            BY <5>2, <5>3, <5>4 DEF PathBegins
        <4> QED
          BY <4>2, <4>3
      <3> QED
        BY <1>2, <1>7, <3>1, <3>2, <3>3
    <2>2. d.s = "s_req_path" => d.old_uf = "UF_PATH"
      BY <1>2, <1>3, <1>7, FieldIsPath
    <2>3. n + 1 \in 0..(n + 1)
      OBVIOUS
    <2>4. ReadText(d, buf, n + 1)
      BY <1>3, <1>5, <1>7, <2>1, <2>2, <2>3 DEF ReadText
    <2> QED
      BY <2>4 DEF d
  <1> QED
    BY <1>6, <1>7

LEMMA ReadsText ==
    ASSUME NEW buf, Len(buf) \in Nat, NEW u, Struct(u)
    PROVE  ReadText(Read(buf, u), buf, Len(buf))
  <1> DEFINE m == Len(buf)
  <1>1. PICK f \in [0..m -> CallType] :
           /\ IsRead(f, buf, u) /\ Read(buf, u) = f[m]
           /\ \A n \in 0..m : ParseInv(f[n], n) /\ f[n].pc # "host"
    BY ReadLoop
  <1> DEFINE T == {n \in 0..m : ReadText(f[n], buf, n)}
  <1>2. 0 \in T
    <2>1. f[0] = Start(u) /\ 0 \in 0..0
      BY <1>1 DEF IsRead
    <2>2. /\ Start(u).pc = "url" /\ Start(u).s # "s_req_path"
          /\ Start(u).u.field_set = {}
      BY DEF Start, Struct
    <2>3. ReadText(Start(u), buf, 0)
      BY <2>1, <2>2 DEF ReadText, Spaceless, InText, PathBegins
    <2> QED
      BY <2>1, <2>3
  <1>3. \A n \in 0..(m - 1) : n \in T => n + 1 \in T
    <2> SUFFICES ASSUME NEW n \in 0..(m - 1), ReadText(f[n], buf, n)
                 PROVE  ReadText(f[n + 1], buf, n + 1)
      OBVIOUS
    <2>1. n + 1 \in 1..m /\ (n + 1) - 1 = n /\ n \in Nat /\ n \in 0..m
      OBVIOUS
    <2> DEFINE c == f[n]
               e == f[n + 1]
    <2>2. c \in CallType /\ ParseInv(c, n) /\ c.pc # "host" /\ ReadText(c, buf, n)
      BY <1>1, <2>1
    <2>3. e = IF c.pc = "url" THEN UrlStep(c, buf[n + 1]) ELSE c
      BY <1>1, <2>1 DEF IsRead
    <2> HIDE DEF c, e
    <2>4. CASE c.pc = "url"
      <3>1. ReadText(UrlStep(c, buf[n + 1]), buf, n + 1)
        BY <2>1, <2>2, <2>4, UrlStepText
      <3> QED
        BY <2>3, <2>4, <3>1 DEF e
    <2>5. CASE c.pc # "url"
      <3>1. e = c /\ c.pc = "done"
        BY <2>2, <2>3, <2>5 DEF CallType
      <3>2. \A k \in 0..n : k \in 0..(n + 1)
        BY <2>1
      <3>3. ReadText(c, buf, n + 1)
        BY <2>2, <2>5, <3>2 DEF ReadText
      <3> QED
        BY <3>1, <3>3 DEF e
    <2> QED
      BY <2>4, <2>5
  <1>4. \A n \in 0..m : n \in T
    <2> HIDE DEF T
    <2> QED
      BY <1>2, <1>3, IntervalInduction
  <1> QED
    BY <1>1, <1>4

\* What the loop over the host makes of a URL without an address.
LEMMA NextPlain ==
    ASSUME NEW s \in HostState, s \notin V6, NEW ch, ch # "[",
           NEW t, t = http_parse_host_char(s, ch)
    PROVE  /\ t \notin V6
           /\ t = "s_http_host" => ch \in HostChar
  <1>1. CASE s \in {"s_http_userinfo_start", "s_http_userinfo", "s_http_host_start"}
    BY <1>1 DEF http_parse_host_char, V6
  <1>2. CASE s = "s_http_host"
    BY <1>2 DEF http_parse_host_char, V6
  <1>3. CASE s \in {"s_http_host_dead", "s_http_host_port_start", "s_http_host_port"}
    BY <1>3 DEF http_parse_host_char, V6
  <1> QED
    BY <1>1, <1>2, <1>3 DEF HostState, V6

LEMMA HostStepCases ==
    ASSUME NEW c \in CallType, NEW ch, NEW t, t = http_parse_host_char(c.s, ch),
           NEW d, d = HostStep(c, ch)
    PROVE  \/ d.pc = "done" /\ d.u = c.u
           \/ d.pc = c.pc /\ d.s = t /\ d.p = c.p + 1 /\ d.u = HostField(c, t)
  <1> DEFINE v == HostField(c, t)
             q == c.p + 1
  <1>1. CASE t = "s_http_host_dead"
    <2>1. d = Reject(c)
      BY <1>1 DEF HostStep
    <2> QED
      BY <2>1 DEF Reject, CallType
  <1>2. CASE t # "s_http_host_dead"
    <2>1. d = [c EXCEPT !.s = t, !.p = q, !.u = v]
      BY <1>2, Zenon DEF HostStep, CallType
    <2> HIDE DEF v, q
    <2>2. d.pc = c.pc /\ d.s = t /\ d.p = q /\ d.u = v
      BY <2>1 DEF CallType
    <2> QED
      BY <2>2 DEF v, q
  <1> QED
    BY <1>1, <1>2

\* A turn leaves the path where it is, and gives a host a character that hosts may have.
LEMMA HostStepText ==
    ASSUME NEW buf, Len(buf) \in Nat, NEW c \in CallType, NEW n \in Nat, n <= Len(buf),
           ParseInv(c, n), c.pc = "host", c.p < c.buflen, PathBegins(c.u, buf), HostRead(c, buf),
           NEW d, d = HostStep(c, buf[c.p + 1])
    PROVE  PathBegins(d.u, buf) /\ HostRead(d, buf)
  <1> DEFINE ch == buf[c.p + 1]
             t == http_parse_host_char(c.s, ch)
             v == HostField(c, t)
  <1>1. /\ Locals(c) /\ HostInv(c, n) /\ c.s \in HostState /\ c.u \in StructType
        /\ c.p \in Nat /\ c.p + 1 <= Len(buf) /\ Ends(c.u, "UF_HOST", c.p)
        /\ c.s \in BeforeHost => c.u.len["UF_HOST"] = 0
    BY DEF ParseInv, HostInv, CallType
  <1>2. \/ d.pc = "done" /\ d.u = c.u
        \/ d.pc = "host" /\ d.s = t /\ d.p = c.p + 1 /\ d.u = v
    BY HostStepCases
  <1>3. CASE d.pc = "done" /\ d.u = c.u
    BY <1>3 DEF HostRead
  <1>4. CASE d.pc = "host" /\ d.s = t /\ d.p = c.p + 1 /\ d.u = v
    <2>1. /\ t \in {"s_http_host", "s_http_host_v6", "s_http_host_v6_zone_start",
                     "s_http_host_v6_zone"} => Only(c.u, v, "UF_HOST", c.p + 1)
          /\ t = "s_http_host_port" => Only(c.u, v, "UF_PORT", c.p + 1)
          /\ t = "s_http_userinfo" => Only(c.u, v, "UF_USERINFO", c.p + 1)
          /\ t \notin {"s_http_host", "s_http_host_v6", "s_http_host_v6_zone_start",
                        "s_http_host_v6_zone", "s_http_host_port", "s_http_userinfo"}
                => v = c.u
      BY <1>1, HostFieldInv, Zenon
    <2>2. /\ "UF_PATH" \in v.field_set <=> "UF_PATH" \in c.u.field_set
          /\ v.off["UF_PATH"] = c.u.off["UF_PATH"]
      <3> HIDE DEF t, v
      <3> QED
        BY <2>1 DEF Only, Field
    <2>3. PathBegins(d.u, buf)
      <3> HIDE DEF t, v
      <3> QED
        BY <1>4, <2>2 DEF PathBegins
    <2>4. ASSUME Plain(buf)
          PROVE  /\ t \notin V6 /\ HostCharsOnly(v, buf)
                 /\ t = "s_http_host" => v.off["UF_HOST"] + v.len["UF_HOST"] = c.p + 1
      <3> DEFINE p == c.p
                 a == c.u.off["UF_HOST"]
                 l == c.u.len["UF_HOST"]
      <3>1. /\ c.p + 1 \in 1..Len(buf)
            /\ Len(buf) < UINT16_RANGE /\ ch # "["
        BY <1>1, <2>4 DEF Plain
      <3>2. /\ c.s \notin V6 /\ HostCharsOnly(c.u, buf)
            /\ c.s = "s_http_host" => a + l = p
        BY <2>4 DEF HostRead
      <3>3. t \notin V6 /\ (t = "s_http_host" => ch \in HostChar)
        <4> HIDE DEF t, ch
        <4> QED
          BY <1>1, <3>1, <3>2, NextPlain DEF t
      <3>4. a \in Nat /\ l \in Nat
        BY <1>1, OffsNat DEF Field
      <3>5. CASE t # "s_http_host"
        <4>1. v.off["UF_HOST"] = a /\ v.len["UF_HOST"] = l
          <5> HIDE DEF t, v
          <5> QED
            BY <2>1, <3>3, <3>5 DEF V6, Only, Field
        <4> HIDE DEF t, v
        <4> QED
          BY <3>2, <3>3, <3>5, <4>1 DEF HostCharsOnly
      <3>6. CASE t = "s_http_host"
        <4>1. \/ c.s = "s_http_host" /\ v = Longer(c.u, "UF_HOST")
              \/ c.s = "s_http_host_start" /\ v = Longer(Moved(c.u, "UF_HOST", c.p), "UF_HOST")
          <5>1. c.s \in {"s_http_host_start", "s_http_host"}
            BY <1>1, <3>6, NextHost
          <5> HIDE DEF t
          <5> QED
            BY <3>6, <5>1 DEF HostField
        <4>2. v.off["UF_HOST"] + v.len["UF_HOST"] = p + 1 /\ v.off["UF_HOST"] \in Nat
              /\ (v.len["UF_HOST"] = 1 \/ (v.off["UF_HOST"] = a /\ a + l = p))
          <5>1. "UF_HOST" \in Field
            BY DEF Field
          <5>2. CASE c.s = "s_http_host" /\ v = Longer(c.u, "UF_HOST")
            <6>1. v.off = c.u.off /\ v.len = SetAt(c.u.len, "UF_HOST", l + 1)
              <7> HIDE DEF v
              <7> QED
                BY <1>1, <5>1, <5>2, LongerKeeps
            <6>2. v.len["UF_HOST"] = (l + 1) % UINT16_RANGE
              <7> HIDE DEF v, l
              <7> QED
                BY <1>1, <3>4, <5>1, <6>1, OffsNat, SetAtField
            <6>3. l + 1 \in 0..(UINT16_RANGE - 1) => (l + 1) % UINT16_RANGE = l + 1
              BY RangeAssumption, SMT
            <6> HIDE DEF v, l, a, p
            <6>4. p \in Nat /\ p + 1 \in 1..Len(buf)
              BY <1>1, <3>1 DEF p
            <6>5. a + l = p
              BY <3>2, <5>2
            <6>6. l + 1 \in 0..(UINT16_RANGE - 1)
              BY <3>1, <3>4, <6>4, <6>5, RangeAssumption
            <6>7. v.len["UF_HOST"] = l + 1
              BY <6>2, <6>3, <6>6
            <6>8. v.off["UF_HOST"] = a
              BY <6>1 DEF a
            <6> QED
              BY <3>4, <6>4, <6>5, <6>7, <6>8
          <5>3. CASE /\ c.s = "s_http_host_start"
                     /\ v = Longer(Moved(c.u, "UF_HOST", c.p), "UF_HOST")
            <6> DEFINE w == Moved(c.u, "UF_HOST", c.p)
            <6>1. w \in StructType
              BY <1>1, <5>1, StructTypes
            <6>2. w.off = SetAt(c.u.off, "UF_HOST", p) /\ w.len = c.u.len
              <7> HIDE DEF w
              <7> QED
                BY <1>1, <5>1, MovedKeeps DEF w
            <6>3. l = 0
              BY <1>1, <5>3 DEF BeforeHost
            <6>4. v.off = w.off /\ v.len = SetAt(w.len, "UF_HOST", w.len["UF_HOST"] + 1)
              <7> HIDE DEF v, w
              <7> QED
                BY <5>1, <5>3, <6>1, LongerKeeps DEF w
            <6>5. v.off["UF_HOST"] = p % UINT16_RANGE
              <7> HIDE DEF v, w
              <7> QED
                BY <1>1, <5>1, <6>2, <6>4, OffsNat, SetAtField
            <6>6. v.len["UF_HOST"] = (l + 1) % UINT16_RANGE
              <7> HIDE DEF v, w, l
              <7>1. v.len = SetAt(c.u.len, "UF_HOST", l + 1)
                BY <6>2, <6>4 DEF l
              <7> QED
                BY <1>1, <3>4, <5>1, <7>1, OffsNat, SetAtField
            <6> HIDE DEF v, w, l, p
            <6>7. \A k \in 0..(UINT16_RANGE - 1) : k % UINT16_RANGE = k
              BY RangeAssumption, SMT
            <6>8. p \in 0..(UINT16_RANGE - 1) /\ 1 \in 0..(UINT16_RANGE - 1)
              BY <1>1, <3>1, RangeAssumption DEF p
            <6>9. p % UINT16_RANGE = p /\ 1 % UINT16_RANGE = 1
              BY <6>7, <6>8
            <6> QED
              BY <6>3, <6>5, <6>6, <6>8, <6>9
          <5> QED
            BY <4>1, <5>2, <5>3
        <4>3. HostCharsOnly(v, buf)
          <5> DEFINE b == v.off["UF_HOST"]
                     m == v.len["UF_HOST"]
          <5>1. buf[p + 1] \in HostChar
            BY <3>3, <3>6
          <5>2. \A i \in (a + 1)..(a + l) : buf[i] \in HostChar
            BY <3>2 DEF HostCharsOnly
          <5>3. b + m = p + 1 /\ b \in Nat /\ (m = 1 \/ (b = a /\ a + l = p)) /\ p \in Nat
            BY <1>1, <4>2
          <5> HIDE DEF a, l, p, b, m
          <5>4. ASSUME NEW i \in (b + 1)..(b + m) PROVE buf[i] \in HostChar
            <6>1. i = p + 1 \/ i \in (a + 1)..(a + l)
              BY <3>4, <5>3
            <6> QED
              BY <5>1, <5>2, <6>1
          <5> QED
            BY <5>4 DEF HostCharsOnly, b, m
        <4> QED
          BY <3>3, <4>2, <4>3
      <3> QED
        BY <3>5, <3>6
    <2>5. HostRead(d, buf)
      <3> HIDE DEF t, v
      <3> QED
        BY <1>4, <2>4 DEF HostRead
    <2> QED
      BY <2>3, <2>5
  <1> QED
    BY <1>2, <1>3, <1>4

\* Neither return nor the port touches the fields.
LEMMA ReturnKeeps ==
    ASSUME NEW c \in CallType, NEW buf, NEW d,
           d = Reject(c) \/ d = Accept(c) \/ d = Port(c, buf)
    PROVE  d.u.field_set = c.u.field_set /\ d.u.off = c.u.off /\ d.u.len = c.u.len
  <1>1. ASSUME NEW v, NEW e, e = [c EXCEPT !.u.port = v]
        PROVE  /\ Accept(e).u.field_set = c.u.field_set /\ Accept(e).u.off = c.u.off
               /\ Accept(e).u.len = c.u.len
    <2>1. e.u.field_set = c.u.field_set /\ e.u.off = c.u.off /\ e.u.len = c.u.len
      BY <1>1 DEF CallType, StructType
    <2>2. Accept(e).u = e.u
      BY <1>1 DEF Accept, CallType
    <2> QED
      BY <2>1, <2>2
  <1>2. Accept(c).u = c.u /\ Reject(c).u = c.u
    BY DEF Accept, Reject, CallType
  <1>3. \/ d = Accept(c) \/ d = Reject(c)
        \/ \E v : d = Accept([c EXCEPT !.u.port = v])
    BY DEF Port
  <1>4. CASE d = Accept(c) \/ d = Reject(c)
    BY <1>2, <1>4
  <1>5. CASE \E v : d = Accept([c EXCEPT !.u.port = v])
    <2>1. PICK v : d = Accept([c EXCEPT !.u.port = v])
      BY <1>5
    <2> QED
      BY <1>1, <2>1
  <1> QED
    BY <1>3, <1>4, <1>5

SamePlaces(u, v) == u.field_set = v.field_set /\ u.off = v.off /\ u.len = v.len

\* Properties of the places of the fields are the same for the same places.
LEMMA PlacesSay ==
    ASSUME NEW u, NEW v, NEW buf, NEW n, SamePlaces(u, v)
    PROVE  /\ InText(u, n) <=> InText(v, n)
           /\ PathBegins(u, buf) <=> PathBegins(v, buf)
           /\ HostCharsOnly(u, buf) <=> HostCharsOnly(v, buf)
  BY DEF SamePlaces, InText, Ends, PathBegins, HostCharsOnly

\* http_parse_host leaves the path, and a host of the characters of hosts.
LEMMA ParsesHost ==
    ASSUME NEW buf, Len(buf) \in Nat, NEW c \in CallType, c.pc = "host",
           ParseInv(c, Len(buf)), PathBegins(c.u, buf), HostRead(c, buf),
           NEW r, r = http_parse_host(c, buf)
    PROVE  /\ InText(r.u, Len(buf)) /\ PathBegins(r.u, buf)
           /\ Plain(buf) => HostCharsOnly(r.u, buf)
  <1> DEFINE a == c.p
             m == c.buflen
             n == Len(buf)
  <1>1. a \in Nat /\ m \in Nat /\ a <= m /\ m <= n /\ m \in a..m
    BY DEF CallType, ParseInv, HostInv
  <1>2. PICK f \in [a..m -> CallType] :
           /\ IsHost(f, c, buf)
           /\ r = IF f[m].pc = "host" THEN HostEnd(f[m], buf) ELSE f[m]
           /\ \A k \in a..m :
                 /\ ParseInv(f[k], n) /\ f[k].buflen = m /\ f[k].pc # "url"
                 /\ f[k].pc = "host" => f[k].p = k
    BY HostLoop
  <1> DEFINE T == {k \in a..m : PathBegins(f[k].u, buf) /\ HostRead(f[k], buf)}
  <1>3. a \in T
    BY <1>1, <1>2 DEF IsHost
  <1>4. \A k \in a..(m - 1) : k \in T => k + 1 \in T
    <2> SUFFICES ASSUME NEW k \in a..(m - 1), PathBegins(f[k].u, buf), HostRead(f[k], buf)
                 PROVE  k + 1 \in T
      OBVIOUS
    <2>1. k + 1 \in (a + 1)..m /\ k + 1 \in a..m /\ k \in a..m /\ (k + 1) - 1 = k /\ k < m
      BY <1>1
    <2> DEFINE d == f[k]
               e == f[k + 1]
    <2>2. e = IF d.pc = "host" THEN HostStep(d, buf[k + 1]) ELSE d
      BY <1>2, <2>1 DEF IsHost
    <2>3. /\ d \in CallType /\ ParseInv(d, n) /\ (d.pc = "host" => d.p = k)
          /\ d.buflen = m /\ PathBegins(d.u, buf) /\ HostRead(d, buf)
      BY <1>2, <2>1
    <2> HIDE DEF d, e, T
    <2>4. CASE d.pc = "host"
      <3>1. d.p < d.buflen /\ n \in Nat /\ n <= Len(buf) /\ e = HostStep(d, buf[d.p + 1])
        BY <1>1, <2>1, <2>2, <2>3, <2>4
      <3> HIDE DEF n
      <3>2. PathBegins(e.u, buf) /\ HostRead(e, buf)
        BY <2>3, <2>4, <3>1, HostStepText
      <3> QED
        BY <2>1, <3>2 DEF T, e
    <2>5. CASE d.pc # "host"
      BY <2>1, <2>2, <2>3, <2>5 DEF T, e
    <2> QED
      BY <2>4, <2>5
  <1>5. m \in T
    <2> HIDE DEF T, a, m
    <2> QED
      BY <1>1, <1>3, <1>4, IntervalInduction
  <1> DEFINE e == f[m]
  <1>6. /\ e \in CallType /\ ParseInv(e, n) /\ PathBegins(e.u, buf) /\ HostRead(e, buf)
        /\ r = IF e.pc = "host" THEN HostEnd(e, buf) ELSE e
    BY <1>1, <1>2, <1>5
  <1> HIDE DEF e
  <1>7. SamePlaces(r.u, e.u)
    <2>1. r = e \/ r = Reject(e) \/ r = Port(e, buf)
      BY <1>6 DEF HostEnd
    <2> QED
      BY <1>6, <2>1, ReturnKeeps DEF SamePlaces
  <1>8. InText(e.u, n) /\ (Plain(buf) => HostCharsOnly(e.u, buf))
    BY <1>6 DEF ParseInv, HostRead
  <1> QED
    BY <1>6, <1>7, <1>8, PlacesSay

\* Of a URL that is split, whether or not it is accepted: the fields hold characters that
\* were accepted, and the path begins like one; the host of a URL that is accepted is made
\* of characters that hosts may have.
LEMMA ParsedText ==
    ASSUME NEW buf, Len(buf) \in Nat, NEW u, Struct(u),
           NEW r, r = http_parser_parse_url(buf, u)
    PROVE  /\ \E k \in 0..Len(buf) : Spaceless(r.u, buf, k)
           /\ PathBegins(r.u, buf)
           /\ r.ret = 0 /\ Plain(buf) /\ "UF_HOST" \in r.u.field_set
                 => HostCharsOnly(r.u, buf)
  <1> DEFINE n == Len(buf)
             c == Read(buf, u)
             d == AfterRead(c, buf)
  <1>1. c \in CallType /\ ParseInv(c, n) /\ c.pc # "host" /\ n \in 0..n
    <2>1. PICK f \in [0..n -> CallType] :
             /\ Read(buf, u) = f[n]
             /\ \A k \in 0..n : ParseInv(f[k], k) /\ f[k].pc # "host"
      BY ReadLoop
    <2> QED
      BY <2>1
  <1>2. ReadText(c, buf, n)
    BY ReadsText
  <1>3. r = http_parse_host(d, buf)
    BY DEF http_parser_parse_url
  <1> HIDE DEF c
  <1>4. CASE c.pc # "url"
    <2>1. c.pc = "done" /\ d = c
      BY <1>1, <1>4 DEF AfterRead, CallType
    <2>2. r = c
      BY <1>3, <2>1 DEF http_parse_host
    <2> QED
      BY <1>2, <2>1, <2>2 DEF ReadText
  <1>5. CASE c.pc = "url"
    <2>1. Spaceless(c.u, buf, n) /\ PathBegins(c.u, buf) /\ InText(c.u, n)
      BY <1>2, <1>5 DEF ReadText, Spaceless
    <2>2. d = UrlEnd(c, buf)
      BY <1>5 DEF AfterRead
    <2>3. ASSUME InText(r.u, n) PROVE \E k \in 0..n : Spaceless(r.u, buf, k)
      BY <1>1, <2>1, <2>3 DEF Spaceless
    <2>4. CASE d = HostStart(c) /\ "UF_HOST" \in c.u.field_set
      <3>1. d \in CallType /\ d.pc = "host"
        BY <1>1, <2>4, HostStartType
      <3>2. ParseInv(d, n)
        BY <1>1, <2>1, <2>4, HostStartInv DEF ParseInv
      <3>3. d.u = [c.u EXCEPT !.len["UF_HOST"] = 0]
            /\ d.s \in {"s_http_userinfo_start", "s_http_host_start"}
        BY <1>1, <2>4 DEF HostStart, CallType
      <3>4. d.u.field_set = c.u.field_set /\ d.u.off = c.u.off
            /\ d.u.len = [c.u.len EXCEPT !["UF_HOST"] = 0]
        BY <1>1, <3>3 DEF CallType, StructType
      <3>5. d.u.len["UF_HOST"] = 0 /\ d.u.off["UF_HOST"] \in Nat
        BY <1>1, <3>4 DEF CallType, StructType, Field
      <3>6. HostRead(d, buf) /\ PathBegins(d.u, buf)
        <4>1. HostCharsOnly(d.u, buf)
          BY <3>5 DEF HostCharsOnly
        <4> QED
          BY <2>1, <3>3, <3>4, <4>1 DEF HostRead, V6, PathBegins
      <3> HIDE DEF d, n
      <3>7. /\ InText(r.u, n) /\ PathBegins(r.u, buf)
            /\ Plain(buf) => HostCharsOnly(r.u, buf)
        BY <1>3, <3>1, <3>2, <3>6, ParsesHost DEF n
      <3> QED
        BY <2>3, <3>7 DEF n
    <2>5. CASE d = Reject(c) \/ (d = Port(c, buf) /\ "UF_HOST" \notin c.u.field_set)
      <3>1. d.pc = "done"
        BY <1>1, <2>5, PortReturns, Returns
      <3>2. r = d
        BY <1>3, <3>1 DEF http_parse_host
      <3>3. SamePlaces(d.u, c.u)
        BY <1>1, <2>5, ReturnKeeps DEF SamePlaces
      <3>4. InText(d.u, n) /\ PathBegins(d.u, buf)
        BY <2>1, <3>3, PlacesSay
      <3>5. d = Reject(c) => d.ret = 1
        BY <1>1 DEF Reject, CallType
      <3>6. r.ret = 0 => "UF_HOST" \notin r.u.field_set
        BY <2>5, <3>2, <3>3, <3>5 DEF SamePlaces
      <3> QED
        BY <2>3, <3>2, <3>4, <3>6
    <2> QED
      BY <2>2, <2>4, <2>5 DEF UrlEnd
  <1> QED
    BY <1>4, <1>5
=============================================================================
