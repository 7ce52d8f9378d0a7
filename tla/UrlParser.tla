------------------------------ MODULE UrlParser ------------------------------
(***************************************************************************)
(* http_parser_parse_url a step at a time, on a URL chosen a character at  *)
(* a time, when the first loop reads it.                                   *)
(***************************************************************************)
EXTENDS UrlSteps

CONSTANTS
    Offered,            \* the characters a URL may go on with, by the state that reads them
    MaxUrl,             \* bound: the longest URL
    Memory              \* what malloc leaves in field_data: nothing initialises it

ASSUME MemoryAssumption  == Memory \subseteq 0..(UINT16_RANGE - 1)
ASSUME OfferedAssumption == Offered \in [UrlState -> SUBSET Char]

VARIABLES
    url,                \* the characters read so far
    parse               \* the locals of the functions, and *u

uvars == <<url, parse>>

UInit ==
    /\ url = <<>>
    /\ \E m \in Memory : parse = Start(Garbage(m))

ReadUrl ==
    /\ parse.pc = "url" /\ Len(url) < MaxUrl
    /\ \E ch \in Offered[parse.s] :
          url' = Append(url, ch) /\ parse' = UrlStep(parse, ch)

EndUrl == parse.pc = "url" /\ parse' = UrlEnd(parse, url) /\ UNCHANGED url

ReadHost ==
    /\ parse.pc = "host" /\ parse.p < parse.buflen
    /\ parse' = HostStep(parse, url[parse.p + 1])
    /\ UNCHANGED url

EndHost ==
    /\ parse.pc = "host" /\ parse.p = parse.buflen
    /\ parse' = HostEnd(parse, url)
    /\ UNCHANGED url

Returned == parse.pc = "done" /\ UNCHANGED uvars

UNext == ReadUrl \/ EndUrl \/ ReadHost \/ EndHost \/ Returned

USpec == UInit /\ [][UNext]_uvars

-----------------------------------------------------------------------------
(* Properties *)

UrlStruct == [field_set : SUBSET Field, port : 0..(UINT16_RANGE - 1),
              off : [Field -> 0..(UINT16_RANGE - 1)],
              len : [Field -> 0..(UINT16_RANGE - 1)]]

\* The types of the variables
UrlTypeOK ==
    /\ url \in Seq(Char)
    /\ parse \in [pc : {"url", "host", "done"}, p : Nat, s : UrlState \cup HostState,
                  old_uf : Field \cup {"UF_MAX"}, found_at : BOOLEAN, buflen : Nat,
                  ret : {0, 1}, u : UrlStruct]

\* Every field reported lies inside the URL, also in a URL that is rejected half way,
\* whose fields parse_url_string copies all the same (http_parse_url.c:29), and in one
\* longer than the 16 bits of an offset
FieldsInBuffer ==
    \A f \in parse.u.field_set : parse.u.off[f] + parse.u.len[f] <= Len(url)

\* The assertions of http_parser.c:2236 and 2364: the host is parsed only if there is one,
\* and a character leads to a field, to a delimiter or to an error
UrlAsserts ==
    /\ parse.pc = "host" => "UF_HOST" \in parse.u.field_set
    /\ parse.pc # "host" /\ parse.s \in UrlState /\ parse.p > 0
          => FieldOf(parse.s) # "none" \/ parse.s \in Delimiting
=============================================================================
