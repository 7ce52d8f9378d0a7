----------------------------- MODULE UrlGrammar ------------------------------
(***************************************************************************)
(* What a URL is and which fields it has, for a reader who has all of it:  *)
(* the text is cut at its delimiters first and the pieces are checked      *)
(* afterwards.  UrlParser decides the same a character at a time.  A piece *)
(* is <<i, j>>: the characters from position i up to, not including, j.    *)
(***************************************************************************)
EXTENDS UrlParser

\* The first of cs from position i on, the end of the text if there is none
First(t, cs, i) ==
    IF i > Len(t) THEN i
    ELSE CHOOSE k \in i..(Len(t) + 1) :
            /\ k = Len(t) + 1 \/ t[k] \in cs
            /\ \A j \in i..(k - 1) : t[j] \notin cs

Earlier(i, j) == IF i < j THEN i ELSE j

Of(t, piece, cs) == \A k \in piece[1]..(piece[2] - 1) : t[k] \in cs
Empty(piece)     == piece[1] >= piece[2]

Absolute(t) == t # <<>> /\ t[1] \in Alpha

\* schema://authority
Colon(t) == First(t, {":"}, 1)
Authority(t) == LET from == Colon(t) + 3 IN <<from, First(t, {"/", "?"}, from)>>

\* [userinfo@]host[:port]: where the host begins, and whether it is in brackets
At(t) == First(t, {"@"}, Authority(t)[1])
HostFrom(t) == IF At(t) < Authority(t)[2] THEN At(t) + 1 ELSE Authority(t)[1]

Bracketed(t) == HostFrom(t) < Authority(t)[2] /\ t[HostFrom(t)] = "["

HostTo(t) ==
    Earlier(First(t, IF Bracketed(t) THEN {"]"} ELSE {":"}, HostFrom(t)), Authority(t)[2])
PortFrom(t) == IF Bracketed(t) THEN HostTo(t) + 2 ELSE HostTo(t) + 1

TargetFrom(t) == IF Absolute(t) THEN Authority(t)[2] ELSE 1
QueryMark(t) == First(t, {"?", "#"}, TargetFrom(t))
FragmentMark(t) == First(t, {"#"}, QueryMark(t))
FragmentFrom(t) == First(t, Char \ {"#"}, FragmentMark(t))

Pieces(t) ==
    [f \in Field |->
        CASE ~Absolute(t) /\ f \in {"UF_SCHEMA", "UF_USERINFO", "UF_HOST", "UF_PORT"} -> <<1, 1>>
          [] Absolute(t) /\ f = "UF_SCHEMA"   -> <<1, Colon(t)>>
          [] Absolute(t) /\ f = "UF_USERINFO" -> <<Authority(t)[1], HostFrom(t) - 1>>
          [] Absolute(t) /\ f = "UF_HOST"     ->
               <<IF Bracketed(t) THEN HostFrom(t) + 1 ELSE HostFrom(t), HostTo(t)>>
          [] Absolute(t) /\ f = "UF_PORT"     -> <<PortFrom(t), Authority(t)[2]>>
          [] f = "UF_PATH"                    -> <<TargetFrom(t), QueryMark(t)>>
          [] f = "UF_QUERY"                   -> <<QueryMark(t) + 1, FragmentMark(t)>>
          [] f = "UF_FRAGMENT"                -> <<FragmentFrom(t), Len(t) + 1>>]

\* An address in brackets may name a zone, 1*( unreserved / pct-encoded )
IsHostName(t, piece) ==
    LET zone == Earlier(First(t, {"%"}, piece[1]), piece[2])
    IN  /\ ~Empty(piece)
        /\ IF ~Bracketed(t) THEN Of(t, piece, HostChar)
           ELSE /\ HostTo(t) < Authority(t)[2]
                /\ ~Empty(<<piece[1], zone>>) /\ Of(t, <<piece[1], zone>>, V6Char)
                /\ zone < piece[2] => /\ ~Empty(<<zone + 1, piece[2]>>)
                                      /\ Of(t, <<zone + 1, piece[2]>>, ZoneChar)

IsPort(t, piece) ==
    \/ PortFrom(t) = Authority(t)[2] + 1          \* there is no colon
    \/ /\ t[PortFrom(t) - 1] = ":"
       /\ ~Empty(piece) /\ Of(t, piece, Digit)
       /\ Number(t, piece[1] - 1) < UINT16_RANGE

IsUrl(t) ==
    /\ Absolute(t) =>
          /\ Of(t, Pieces(t)["UF_SCHEMA"], Alpha)
          /\ Authority(t)[1] <= Len(t)
          /\ t[Authority(t)[1] - 2] = "/" /\ t[Authority(t)[1] - 1] = "/"
          /\ Of(t, Pieces(t)["UF_USERINFO"], UserinfoChar)
          /\ IsHostName(t, Pieces(t)["UF_HOST"])
          /\ IsPort(t, Pieces(t)["UF_PORT"])
    /\ ~Absolute(t) /\ t # <<>> => t[1] \in {"/", "*"}
    /\ Of(t, <<TargetFrom(t), Len(t) + 1>>, Char \ {"SP"})

\* No piece is too long for 16 bits, and none begins too late
Fits(t) ==
    /\ Len(t) <= UINT16_RANGE
    /\ \A f \in Field : Pieces(t)[f][2] - Pieces(t)[f][1] < UINT16_RANGE

\* What u and the result ret say of t is what the grammar says of it
AsWritten(t, ret, u) ==
    /\ ret = 0 <=> IsUrl(t)
    /\ ret = 0 =>
          /\ u.field_set = {f \in Field : ~Empty(Pieces(t)[f])}
          /\ \A f \in u.field_set :
                /\ u.off[f] = Pieces(t)[f][1] - 1
                /\ u.len[f] = Pieces(t)[f][2] - Pieces(t)[f][1]
          /\ u.port = IF "UF_PORT" \in u.field_set THEN Number(t, u.off["UF_PORT"]) ELSE 0

\* http_parser_parse_url returns 0 exactly for the URLs of the grammar, with the pieces of
\* the grammar as its fields and the value of the digits as its port: the two state
\* machines together, the second of which reads over what the first has called the host
SplitAsWritten ==
    parse.pc = "done" /\ Fits(url) => AsWritten(url, parse.ret, parse.u)
=============================================================================
