------------------------------ MODULE ParseUrl -------------------------------
(***************************************************************************)
(* src/http_parse_url.c: several parse_url_t over the one static           *)
(* h_parse_url.  A client calls init, string (any number of times) and     *)
(* free on each, in this order; the calls on different objects mix.        *)
(*                                                                         *)
(* A string is its characters, or NullPtr.  heap counts the blocks that    *)
(* were allocated and not freed.  A call that reads or writes where it     *)
(* must not ends the run with a fault.  Two variables are history: given   *)
(* is the URL an object was last parsed from, NullPtr before the first,    *)
(* and astray collects what the callers and the allocator did out of the   *)
(* ordinary.                                                               *)
(***************************************************************************)
EXTENDS UrlSteps, FiniteSets

CONSTANTS
    Urls,               \* the parse_url_t objects
    Strings,            \* the URLs clients parse
    AllocFails,         \* {FALSE}, or BOOLEAN: malloc and calloc may fail
    Memory              \* what malloc leaves in field_data

ASSUME StringsAssumption == Strings \subseteq Seq(Char)
ASSUME AllocAssumption   == AllocFails \subseteq BOOLEAN /\ FALSE \in AllocFails
ASSUME GarbageAssumption == Memory \subseteq 0..(UINT16_RANGE - 1)

VARIABLES
    h_parse_url,        \* the static pointer: a struct http_parser_url or NoStruct
    parse_url,          \* the objects
    heap,
    fault,              \* "none", or what the process did that is undefined
    given,
    astray

pvars == <<h_parse_url, parse_url, heap, fault, given, astray>>

NullPtr == <<"NULL">>
NoStruct == [Garbage(0) EXCEPT !.field_set = {"NULL"}]
TextOf(p) == IF p = NullPtr THEN <<>> ELSE p

\* parse_url_t, not yet filled in; life says how far its owner has come
NewUrl == [life |-> "new", port |-> 0, schema |-> <<>>, host |-> <<>>, path |-> <<>>,
           query |-> <<>>, userinfo |-> <<>>]

PInit ==
    /\ h_parse_url = NoStruct
    /\ parse_url = [p \in Urls |-> NewUrl]
    /\ heap = 0
    /\ fault = "none"
    /\ given = [p \in Urls |-> NullPtr]
    /\ astray = {}

\* What the mallocs of this call may do.  A bound: memory runs out in one call only.
Fails == IF "no memory" \in astray THEN {FALSE} ELSE AllocFails

\* Some other object is in use between its init and its free
Shared(p) == \E q \in Urls \ {p} : parse_url[q].life # "new"

\* The block of a former init is lost; a failed malloc is not noticed
parse_url_init(p) ==
    /\ parse_url[p].life = "new"
    /\ parse_url' = [parse_url EXCEPT ![p].life = "allocated"]
    /\ \E fails \in Fails, m \in Memory :
          /\ h_parse_url' = IF fails THEN NoStruct ELSE Garbage(m)
          /\ heap' = IF fails THEN heap ELSE heap + 1
          /\ astray' = astray \cup (IF fails THEN {"no memory"} ELSE {})
                              \cup (IF Shared(p) THEN {"shared"} ELSE {})
    /\ UNCHANGED <<fault, given>>

\* The text of field f in the URL s, empty if u does not have it
Copied(u, f, s) ==
    IF f \in u.field_set THEN SubSeq(s, u.off[f] + 1, u.off[f] + u.len[f]) ELSE <<>>

PortOf(u, schema) ==
    CASE u.port # 0 -> u.port
      [] u.port = 0 /\ schema = <<"https">> -> 443
      [] OTHER -> 80

\* wrong: an empty path stays empty
PathAsIs(path) == path

PathOr(path) == IF path = <<>> THEN <<"/">> ELSE path

Kept == {"UF_SCHEMA", "UF_HOST", "UF_PATH", "UF_QUERY", "UF_USERINFO"}

\* What parse_url_string makes of u and s when the callocs for these fields fail
Filled(u, s, failed) ==
    LET Text(f) == IF f \in failed THEN NullPtr ELSE Copied(u, f, s)
    IN  [life |-> "parsed",
         port |-> PortOf(u, Copied(u, "UF_SCHEMA", s)),
         schema |-> Text("UF_SCHEMA"), host |-> Text("UF_HOST"),
         path |-> PathOr(Text("UF_PATH")), query |-> Text("UF_QUERY"),
         userinfo |-> Text("UF_USERINFO")]

\* The result of http_parser_parse_url is not looked at and no calloc is checked: memcpy
\* and strcmp then go through NULL, except where an empty field is only stored
parse_url_string(p, s) ==
    LET u == http_parser_parse_url(s, h_parse_url).u
        Touched(failed) == \/ failed \cap {"UF_PATH", "slash"} # {}
                           \/ \E f \in failed : Copied(u, f, s) # <<>>
                           \/ "UF_SCHEMA" \in failed /\ u.port = 0
    IN  /\ parse_url[p].life \in {"allocated", "parsed"}
        /\ IF h_parse_url = NoStruct
           THEN fault' = "null" /\ UNCHANGED <<h_parse_url, parse_url, heap, given, astray>>
           ELSE \E failed \in {{}} \cup (IF TRUE \in Fails
                                         THEN {{f} : f \in Kept \cup {"slash"}} ELSE {}) :
                   /\ "slash" \in failed => Copied(u, "UF_PATH", s) = <<>>
                   /\ h_parse_url' = u
                   /\ fault' = IF Touched(failed) THEN "null" ELSE fault
                   /\ parse_url' = IF Touched(failed) THEN parse_url
                                   ELSE [parse_url EXCEPT ![p] = Filled(u, s, failed)]
                   /\ given' = IF Touched(failed) THEN given ELSE [given EXCEPT ![p] = s]
                   /\ heap' = heap + Cardinality(Kept \ failed)
                   /\ astray' = astray \cup (IF failed = {} THEN {} ELSE {"no memory"})
                         \cup (IF parse_url[p].life = "parsed" THEN {"parsed twice"} ELSE {})
                         \cup (IF parse_url[p].life = "allocated" /\ given[p] # NullPtr
                               THEN {"used again"} ELSE {})

\* The blocks of p that are not NULL
Blocks(p) ==
    Cardinality({f \in {"schema", "host", "path", "query", "userinfo"} :
                    parse_url[p][f] # NullPtr})

\* wrong: the userinfo is not freed
FreeKeepsUserinfo(p) ==
    /\ parse_url[p].life = "parsed"
    /\ parse_url' = [parse_url EXCEPT ![p] = NewUrl]
    /\ h_parse_url' = NoStruct
    /\ heap' = heap - Blocks(p) + 1 - (IF h_parse_url = NoStruct THEN 0 ELSE 1)
    /\ UNCHANGED <<fault, given, astray>>

\* The shared block goes with the first object that is freed
parse_url_free(p) ==
    /\ parse_url[p].life = "parsed"
    /\ parse_url' = [parse_url EXCEPT ![p] = NewUrl]
    /\ h_parse_url' = NoStruct
    /\ heap' = heap - Blocks(p) - (IF h_parse_url = NoStruct THEN 0 ELSE 1)
    /\ UNCHANGED <<fault, given, astray>>

-----------------------------------------------------------------------------
(* Properties *)

\* What each string is parsed into by itself
Parsed == [s \in Strings |-> http_parser_parse_url(s, Garbage(0))]

\* The fields of a URL are those of the string it was parsed from, whatever other URLs were
\* parsed, rejected or freed through the shared block before and since: nothing of an
\* earlier parse shows through
FieldsOfOwnUrl ==
    \A p \in Urls : parse_url[p].life = "parsed" =>
        LET u == Parsed[given[p]].u
        IN  /\ parse_url[p].port = PortOf(u, Copied(u, "UF_SCHEMA", given[p]))
            /\ TextOf(parse_url[p].schema) = Copied(u, "UF_SCHEMA", given[p])
            /\ TextOf(parse_url[p].host) = Copied(u, "UF_HOST", given[p])
            /\ TextOf(parse_url[p].path) = PathOr(Copied(u, "UF_PATH", given[p]))
            /\ TextOf(parse_url[p].query) = Copied(u, "UF_QUERY", given[p])
            /\ TextOf(parse_url[p].userinfo) = Copied(u, "UF_USERINFO", given[p])

\* A request line can be made of every URL that parse_url_string has returned, also of one
\* that http_parser_parse_url rejected: it has a path from "/" or "*" on and a port, and
\* there is no space in what the builder writes of it.  In a URL of more characters than an
\* offset has values the path may begin anywhere.
MakesRequestLine ==
    \A p \in Urls : parse_url[p].life = "parsed" =>
        /\ parse_url[p].path # <<>>
        /\ Len(given[p]) <= UINT16_RANGE => parse_url[p].path[1] \in {"/", "*"}
        /\ parse_url[p].port # 0
        /\ \A f \in {"host", "path", "query"} :
              \A i \in 1..Len(TextOf(parse_url[p][f])) : parse_url[p][f][i] # "SP"
=============================================================================
