--------------------------- MODULE UrlParserProofs ---------------------------
(***************************************************************************)
(* What holds of http_parser_parse_url for every URL, every width of an    *)
(* offset and whatever was in the struct before: the fields it reports lie *)
(* in the URL, its assertions do not fail, and it splits a URL as          *)
(* UrlGrammar does.  The steps of the first two are those of               *)
(* UrlStepsProofs.  For the third, both loops are followed a character at  *)
(* a time: how the marks at which the grammar cuts a text move when it     *)
(* grows (FirstAt to MarksGrow), in which state the first loop is then     *)
(* (Stage) and what it reports (ReadSoFar), the pieces of an authority     *)
(* (HostMarks), and the state (HostStage) and the reports (HostSoFar) of   *)
(* the second loop between them.                                           *)
(***************************************************************************)
EXTENDS UrlGrammar, UrlStepsProofs

IInv == url \in Seq(Char) /\ ParseInv(parse, Len(url))

-----------------------------------------------------------------------------
(* The specification *)

LEMMA InitInv == UInit => IInv
  <1> SUFFICES ASSUME UInit PROVE IInv
    OBVIOUS
  <1>1. PICK m \in Memory : parse = Start(Garbage(m))
    BY DEF UInit
  <1>2. url = <<>> /\ url \in Seq(Char) /\ Len(url) = 0
    BY DEF UInit
  <1>3. m \in Nat
    BY MemoryAssumption, RangeAssumption
  <1>4. Struct(parse.u) /\ parse.u.field_set = {}
    BY <1>1, <1>3 DEF Start, Garbage, Struct
  <1>5. /\ parse.pc = "url" /\ parse.p = 0 /\ parse.s = "s_req_spaces_before_url"
        /\ parse.old_uf = "UF_MAX"
    BY <1>1 DEF Start
  <1>6. Locals(parse)
    BY <1>1, <1>4 DEF Start, Locals, UrlState
  <1> QED
    BY <1>2, <1>4, <1>5, <1>6
       DEF IInv, ParseInv, InText, UrlInv, HostInv, CaseInv, UrlState

LEMMA NextInv == IInv /\ [UNext]_uvars => IInv'
  <1> SUFFICES ASSUME IInv, [UNext]_uvars PROVE IInv'
    OBVIOUS
  <1>1. url \in Seq(Char) /\ ParseInv(parse, Len(url)) /\ Len(url) \in Nat
    BY DEF IInv
  <1>2. CASE ReadUrl
    <2>1. PICK ch \in Offered[parse.s] :
             url' = Append(url, ch) /\ parse' = UrlStep(parse, ch)
      BY <1>2 DEF ReadUrl
    <2>2. parse.s \in UrlState /\ parse.pc = "url"
      BY <1>1, <1>2 DEF ParseInv, UrlInv, ReadUrl
    <2>3. ch \in Char
      BY <2>1, <2>2, OfferedAssumption
    <2>4. url' \in Seq(Char) /\ Len(url') = Len(url) + 1
      BY <1>1, <2>1, <2>3
    <2> QED
      BY <1>1, <2>1, <2>2, <2>4, UrlStepInv DEF IInv
  <1>3. CASE EndUrl
    BY <1>1, <1>3, UrlEndInv DEF EndUrl, IInv
  <1>4. CASE ReadHost
    BY <1>1, <1>4, HostStepInv DEF ReadHost, IInv
  <1>5. CASE EndHost
    BY <1>1, <1>5, HostEndInv DEF EndHost, IInv
  <1>6. CASE Returned \/ UNCHANGED uvars
    BY <1>1, <1>6 DEF Returned, uvars, IInv
  <1> QED
    BY <1>2, <1>3, <1>4, <1>5, <1>6 DEF UNext

\* What IInv says of the two loops holds of every URL, whatever malloc left in the struct.
THEOREM UrlInvariance == USpec => []IInv
  <1> QED
    BY InitInv, NextInv, PTL DEF USpec

\* The fields reported lie inside the URL, of whatever length it is and also when it is
\* rejected half way: parse_url_string copies them without looking at the result.
THEOREM FieldsBounded == USpec => []FieldsInBuffer
  <1>1. IInv => FieldsInBuffer
    BY DEF IInv, ParseInv, InText, Ends, FieldsInBuffer
  <1> QED
    BY <1>1, UrlInvariance, PTL

\* The assertions of the two functions do not fail: a host is parsed only where there is one,
\* and no state reached lacks a case in the switch.
THEOREM UrlAssertsHold == USpec => []UrlAsserts
  <1>1. IInv => UrlAsserts
    BY DEF IInv, ParseInv, HostInv, CaseInv, Known, UrlAsserts
  <1> QED
    BY <1>1, UrlInvariance, PTL

-----------------------------------------------------------------------------
(* The first of some characters *)

\* k is where the first of cs stands, from position i on
FirstAt(t, cs, i, k) ==
    /\ k \in Nat /\ i <= k
    /\ i > Len(t) => k = i
    /\ i <= Len(t) + 1 => k <= Len(t) + 1
    /\ k <= Len(t) => t[k] \in cs
    /\ \A j \in i..(k - 1) : t[j] \notin cs

LEMMA FirstFound ==
    ASSUME NEW t, Len(t) \in Nat, NEW cs, NEW i \in Nat
    PROVE  FirstAt(t, cs, i, First(t, cs, i))
  <1> DEFINE n == Len(t)
             Found(k) == k = n + 1 \/ t[k] \in cs
             S == {k \in i..(n + 1) : Found(k)}
  <1>1. CASE i > n
    BY <1>1 DEF First, FirstAt
  <1>2. CASE i <= n
    <2>1. S \in SUBSET Nat /\ n + 1 \in S
      BY <1>2
    <2>2. PICK x \in S : \A y \in S : x <= y
      BY <2>1, SmallestExists
    <2>3. \A j \in i..(x - 1) : t[j] \notin cs
      <3> SUFFICES ASSUME NEW j \in i..(x - 1), t[j] \in cs PROVE FALSE
        OBVIOUS
      <3>1. j \in S
        BY <2>1, <2>2
      <3> QED
        BY <2>1, <2>2, <3>1
    <2>4. \E k \in i..(n + 1) : Found(k) /\ \A j \in i..(k - 1) : t[j] \notin cs
      BY <2>2, <2>3
    <2>5. First(t, cs, i) = CHOOSE k \in i..(n + 1) :
                               Found(k) /\ \A j \in i..(k - 1) : t[j] \notin cs
      BY <1>2 DEF First
    <2> HIDE DEF Found
    <2>6. /\ First(t, cs, i) \in i..(n + 1) /\ Found(First(t, cs, i))
          /\ \A j \in i..(First(t, cs, i) - 1) : t[j] \notin cs
      BY <2>4, <2>5
    <2> QED
      BY <1>2, <2>6 DEF Found, FirstAt
  <1> QED
    BY <1>1, <1>2

\* There is only one such place.
LEMMA FirstOnly ==
    ASSUME NEW t, Len(t) \in Nat, NEW cs, NEW i \in Nat, NEW k, FirstAt(t, cs, i, k),
           NEW l, FirstAt(t, cs, i, l)
    PROVE  k = l
  <1>1. ASSUME NEW x, NEW y, FirstAt(t, cs, i, x), FirstAt(t, cs, i, y), x < y PROVE FALSE
    <2>1. x \in i..(y - 1) /\ x <= Len(t)
      BY <1>1 DEF FirstAt
    <2> QED
      BY <1>1, <2>1 DEF FirstAt
  <1>2. k \in Nat /\ l \in Nat /\ ~(k < l) /\ ~(l < k)
    BY <1>1 DEF FirstAt
  <1> QED
    BY <1>2

\* A place is found again in a text with one more character, if there is one
Grown(k, i, n, found) == IF i > n + 1 THEN i
                         ELSE IF k <= n THEN k ELSE IF found THEN n + 1 ELSE n + 2

LEMMA FirstGrows ==
    ASSUME NEW t \in Seq(Char), NEW ch \in Char, NEW cs,
           NEW i \in Nat, NEW j \in Nat, i > 0, j = i \/ (j > Len(t) + 1 /\ i > Len(t))
    PROVE  LET k == First(t, cs, i)
               l == First(Append(t, ch), cs, j)
           IN  l = Grown(k, j, Len(t), ch \in cs)
  <1> DEFINE k == First(t, cs, i)
             w == Append(t, ch)
             n == Len(t)
             l == Grown(k, j, n, ch \in cs)
  <1>1. /\ n \in Nat /\ Len(w) = n + 1 /\ w[n + 1] = ch
        /\ \A q \in Nat : q > 0 /\ q <= n => w[q] = t[q]
    OBVIOUS
  <1>2. FirstAt(t, cs, i, k)
    BY <1>1, FirstFound
  <1> HIDE DEF k, w, n
  <1>3. FirstAt(w, cs, j, l)
    <2>1. CASE j > n + 1
      BY <1>1, <2>1 DEF FirstAt, Grown
    <2>2. CASE j = i /\ i <= n + 1
      BY <1>1, <1>2, <2>2 DEF FirstAt, Grown, n
    <2> QED
      BY <1>1, <2>1, <2>2 DEF n
  <1>4. l = First(w, cs, j)
    BY <1>1, <1>3, FirstFound, FirstOnly
  <1> QED
    BY <1>4 DEF k, w, n

-----------------------------------------------------------------------------
(* The marks that cut a text *)

From(t) == Authority(t)[1]
To(t)   == Authority(t)[2]

MarksOf(t) ==
    /\ FirstAt(t, {":"}, 1, Colon(t))
    /\ From(t) = Colon(t) + 3
    /\ FirstAt(t, {"/", "?"}, From(t), To(t))
    /\ FirstAt(t, {"@"}, From(t), At(t))
    /\ TargetFrom(t) = IF Absolute(t) THEN To(t) ELSE 1
    /\ FirstAt(t, {"?", "#"}, TargetFrom(t), QueryMark(t))
    /\ FirstAt(t, {"#"}, QueryMark(t), FragmentMark(t))
    /\ FirstAt(t, Char \ {"#"}, FragmentMark(t), FragmentFrom(t))

LEMMA MarksFound ==
    ASSUME NEW t, Len(t) \in Nat PROVE MarksOf(t)
  <1>1. FirstAt(t, {":"}, 1, Colon(t)) /\ Colon(t) \in Nat
    BY FirstFound DEF Colon, FirstAt
  <1>2. From(t) = Colon(t) + 3 /\ To(t) = First(t, {"/", "?"}, From(t))
    BY DEF From, To, Authority
  <1>3. From(t) \in Nat /\ From(t) = Authority(t)[1]
    BY <1>1, <1>2 DEF From
  <1>4. FirstAt(t, {"/", "?"}, From(t), To(t)) /\ FirstAt(t, {"@"}, From(t), At(t))
    BY <1>2, <1>3, FirstFound DEF At
  <1>5. TargetFrom(t) = IF Absolute(t) THEN To(t) ELSE 1
    BY DEF TargetFrom, To
  <1>6. TargetFrom(t) \in Nat
    BY <1>4, <1>5 DEF FirstAt
  <1>7. FirstAt(t, {"?", "#"}, TargetFrom(t), QueryMark(t)) /\ QueryMark(t) \in Nat
    BY <1>6, FirstFound DEF QueryMark, FirstAt
  <1>8. FirstAt(t, {"#"}, QueryMark(t), FragmentMark(t)) /\ FragmentMark(t) \in Nat
    BY <1>7, FirstFound DEF FragmentMark, FirstAt
  <1>9. FirstAt(t, Char \ {"#"}, FragmentMark(t), FragmentFrom(t))
    BY <1>8, FirstFound DEF FragmentFrom
  <1> QED
    BY <1>1, <1>2, <1>4, <1>5, <1>7, <1>8, <1>9 DEF MarksOf

\* The marks are positions.
LEMMA MarkTypes ==
    ASSUME NEW t, MarksOf(t)
    PROVE  /\ Colon(t) \in Nat /\ Colon(t) > 0 /\ From(t) = Colon(t) + 3
           /\ From(t) \in Nat /\ From(t) > 3 /\ To(t) \in Nat /\ From(t) <= To(t)
           /\ From(t) > Len(t) => To(t) = From(t)
           /\ From(t) <= Len(t) + 1 => To(t) <= Len(t) + 1
           /\ TargetFrom(t) = IF Absolute(t) THEN To(t) ELSE 1
  <1>1. Colon(t) \in Nat /\ 1 <= Colon(t)
    <2>1. FirstAt(t, {":"}, 1, Colon(t))
      BY DEF MarksOf
    <2> QED
      BY <2>1 DEF FirstAt
  <1>2. /\ To(t) \in Nat /\ From(t) <= To(t)
        /\ From(t) > Len(t) => To(t) = From(t)
        /\ From(t) <= Len(t) + 1 => To(t) <= Len(t) + 1
    <2>1. FirstAt(t, {"/", "?"}, From(t), To(t))
      BY DEF MarksOf
    <2> QED
      BY <2>1 DEF FirstAt
  <1>3. From(t) = Colon(t) + 3 /\ TargetFrom(t) = IF Absolute(t) THEN To(t) ELSE 1
    BY DEF MarksOf
  <1> QED
    BY <1>1, <1>2, <1>3

\* w is t with the character ch behind it
Appended(t, ch, w) ==
    /\ Len(t) \in Nat /\ Len(w) = Len(t) + 1 /\ w[Len(t) + 1] = ch
    /\ \A q \in 1..Len(t) : w[q] = t[q]

LEMMA AppendedText ==
    ASSUME NEW t \in Seq(Char), NEW ch \in Char
    PROVE  Appended(t, ch, Append(t, ch)) /\ Append(t, ch) \in Seq(Char)
  BY DEF Appended

\* How each mark of t moves when ch is read
MarksMove(t, ch, w) ==
    LET n == Len(t) IN
    /\ Colon(w) = Grown(Colon(t), 1, n, ch = ":")
    /\ To(w) = Grown(To(t), From(w), n, ch \in {"/", "?"})
    /\ At(w) = Grown(At(t), From(w), n, ch = "@")
    /\ Absolute(w) <=> IF n = 0 THEN ch \in Alpha ELSE Absolute(t)
    /\ QueryMark(w) = Grown(QueryMark(t), TargetFrom(w), n, ch \in {"?", "#"})
    /\ FragmentMark(w) = Grown(FragmentMark(t), QueryMark(w), n, ch = "#")
    /\ FragmentFrom(w) = Grown(FragmentFrom(t), FragmentMark(w), n, ch # "#")

\* The same for a mark counted from another, which stays or moves behind the text
Moves(k, l, n) == k \in Nat /\ l \in Nat /\ k > 0 /\ (l = k \/ (l > n + 1 /\ k > n))

LEMMA MarkMoves ==
    ASSUME NEW t \in Seq(Char), NEW ch \in Char, NEW i, NEW j, Moves(i, j, Len(t)), NEW cs,
           NEW k, k = First(t, cs, i), NEW l, l = First(Append(t, ch), cs, j)
    PROVE  l = Grown(k, j, Len(t), ch \in cs) /\ Moves(k, l, Len(t))
  <1>1. i \in Nat /\ j \in Nat /\ i > 0 /\ (j = i \/ (j > Len(t) + 1 /\ i > Len(t)))
    BY DEF Moves
  <1>2. l = Grown(k, j, Len(t), ch \in cs)
    BY <1>1, FirstGrows
  <1>3. Len(t) \in Nat
    OBVIOUS
  <1>4. FirstAt(t, cs, i, k)
    BY <1>1, <1>3, FirstFound
  <1>5. k \in Nat /\ i <= k /\ (i <= Len(t) + 1 => k <= Len(t) + 1) /\ (i > Len(t) => k = i)
    BY <1>4 DEF FirstAt
  <1> QED
    BY <1>1, <1>2, <1>3, <1>5 DEF Grown, Moves

LEMMA MarksGrow ==
    ASSUME NEW t \in Seq(Char), NEW ch \in Char, NEW w, w = Append(t, ch)
    PROVE  MarksMove(t, ch, w)
  <1> DEFINE n == Len(t)
  <1>1. /\ n \in Nat /\ Len(w) = n + 1 /\ w[n + 1] = ch /\ w # <<>>
        /\ \A q \in 1..n : w[q] = t[q]
    BY AppendedText DEF Appended
  <1>2. MarksOf(t) /\ MarksOf(w)
    BY <1>1, MarksFound
  <1>3. Moves(1, 1, n)
    BY <1>1 DEF Moves
  <1>4. Colon(w) = Grown(Colon(t), 1, n, ch \in {":"}) /\ Moves(Colon(t), Colon(w), n)
    BY <1>3, MarkMoves, Zenon DEF Colon
  <1>5. From(t) = Colon(t) + 3 /\ From(w) = Colon(w) + 3
    BY <1>2 DEF MarksOf
  <1>6. Moves(From(t), From(w), n)
    BY <1>1, <1>4, <1>5 DEF Moves
  <1>7. To(t) = First(t, {"/", "?"}, From(t)) /\ To(w) = First(w, {"/", "?"}, From(w))
    BY DEF To, From, Authority
  <1>8. At(t) = First(t, {"@"}, From(t)) /\ At(w) = First(w, {"@"}, From(w))
    BY DEF At, From
  <1>9. To(w) = Grown(To(t), From(w), n, ch \in {"/", "?"}) /\ Moves(To(t), To(w), n)
    BY <1>6, <1>7, MarkMoves
  <1>10. At(w) = Grown(At(t), From(w), n, ch \in {"@"})
    BY <1>6, <1>8, MarkMoves
  <1>11. Absolute(w) <=> IF n = 0 THEN ch \in Alpha ELSE Absolute(t)
    <2>1. n > 0 => t # <<>> /\ w[1] = t[1]
      BY <1>1
    <2>2. n = 0 => w[1] = ch
      BY <1>1
    <2> QED
      BY <1>1, <2>1, <2>2 DEF Absolute
  <1>12. Moves(TargetFrom(t), TargetFrom(w), n)
    <2>1. /\ TargetFrom(t) = IF Absolute(t) THEN To(t) ELSE 1
          /\ TargetFrom(w) = IF Absolute(w) THEN To(w) ELSE 1
      BY <1>2 DEF MarksOf
    <2>2. CASE n > 0
      BY <1>3, <1>9, <1>11, <2>1, <2>2
    <2>3. CASE n = 0
      <3>1. ~Absolute(t)
        BY <2>3 DEF Absolute
      <3>2. FirstAt(w, {":"}, 1, Colon(w)) /\ FirstAt(w, {"/", "?"}, From(w), To(w))
        BY <1>2 DEF MarksOf
      <3>3. To(w) \in Nat /\ To(w) > n + 1
        BY <1>5, <2>3, <3>2 DEF FirstAt
      <3> QED
        BY <1>3, <2>1, <2>3, <3>1, <3>3 DEF Moves
    <2> QED
      BY <1>1, <2>2, <2>3
  <1>13. /\ QueryMark(w) = Grown(QueryMark(t), TargetFrom(w), n, ch \in {"?", "#"})
         /\ Moves(QueryMark(t), QueryMark(w), n)
    BY <1>12, MarkMoves, Zenon DEF QueryMark
  <1>14. /\ FragmentMark(w) = Grown(FragmentMark(t), QueryMark(w), n, ch \in {"#"})
         /\ Moves(FragmentMark(t), FragmentMark(w), n)
    BY <1>13, MarkMoves, Zenon DEF FragmentMark
  <1>15. FragmentFrom(w) = Grown(FragmentFrom(t), FragmentMark(w), n, ch \in Char \ {"#"})
    BY <1>14, MarkMoves DEF FragmentFrom
  <1>16. /\ (ch \in {":"}) = (ch = ":") /\ (ch \in {"@"}) = (ch = "@")
         /\ (ch \in {"#"}) = (ch = "#") /\ (ch \in Char \ {"#"}) = (ch # "#")
    OBVIOUS
  <1> QED
    BY <1>4, <1>9, <1>10, <1>11, <1>13, <1>14, <1>15, <1>16 DEF MarksMove

-----------------------------------------------------------------------------
(* What the first loop knows of the text it has read *)

AuthorityChar == UserinfoChar \cup {"[", "]", "@"}
SchemaStates  == {"s_req_schema", "s_req_schema_slash", "s_req_schema_slash_slash"} \cup Server

\* Where each state stands between the marks of the text
Stage(s, t) ==
    LET n == Len(t) IN
    /\ s \in UrlState \ {"s_dead"}
    /\ s = "s_req_spaces_before_url" <=> n = 0
    /\ s \in SchemaStates => Absolute(t)
    /\ s = "s_req_schema" => Colon(t) = n + 1
    /\ s = "s_req_schema_slash" => Colon(t) = n
    /\ s = "s_req_schema_slash_slash" => Colon(t) = n - 1
    /\ s = "s_req_server_start" => Colon(t) = n - 2
    /\ s \in {"s_req_server", "s_req_server_with_at"} => From(t) <= n /\ To(t) = n + 1
    /\ s = "s_req_server" => t[n] # "@"
    /\ s = "s_req_server_with_at" => t[n] = "@"
    /\ s = "s_req_path" => TargetFrom(t) <= n /\ QueryMark(t) = n + 1
    /\ s = "s_req_query_string_start" => QueryMark(t) = n /\ FragmentMark(t) = n + 1
    /\ s = "s_req_query_string" => QueryMark(t) < n /\ FragmentMark(t) = n + 1
    /\ s = "s_req_fragment_start" => FragmentMark(t) <= n /\ FragmentFrom(t) = n + 1
    /\ s = "s_req_fragment" => FragmentFrom(t) <= n

\* An '@' follows another
Doubled(t, i, j) == \E k \in i..(j - 2) : t[k] = "@" /\ t[k + 1] = "@"

\* What a text must be to begin a URL
Good(t) ==
    LET n == Len(t) IN
    /\ Absolute(t) =>
          /\ Of(t, <<1, Colon(t)>>, Alpha)
          /\ Colon(t) + 1 <= n => t[Colon(t) + 1] = "/"
          /\ Colon(t) + 2 <= n => t[Colon(t) + 2] = "/"
          /\ Of(t, <<From(t), To(t)>>, AuthorityChar)
          /\ ~Doubled(t, From(t), To(t))
    /\ ~Absolute(t) /\ n > 0 => t[1] \in {"/", "*"}
    /\ Of(t, <<TargetFrom(t), n + 1>>, Char \ {"SP"})

LEMMA PieceOf ==
    ASSUME NEW t, NEW i, NEW j, NEW cs
    PROVE  Of(t, <<i, j>>, cs) <=> \A k \in i..(j - 1) : t[k] \in cs
  BY DEF Of

LEMMA OfGrows ==
    ASSUME NEW t, NEW ch, NEW w, Appended(t, ch, w), NEW i \in Nat, i > 0, NEW cs
    PROVE  /\ \A j \in Nat : j <= Len(t) + 1 => (Of(w, <<i, j>>, cs) <=> Of(t, <<i, j>>, cs))
           /\ i <= Len(t) + 1 => (Of(w, <<i, Len(t) + 2>>, cs)
                                    <=> Of(t, <<i, Len(t) + 1>>, cs) /\ ch \in cs)
           /\ \A j \in Nat : j <= i => Of(w, <<i, j>>, cs)
  <1>1. /\ Len(t) \in Nat /\ Len(w) = Len(t) + 1 /\ w[Len(t) + 1] = ch
        /\ \A q \in 1..Len(t) : w[q] = t[q]
    BY DEF Appended
  <1> DEFINE n == Len(t)
  <1> HIDE DEF n
  <1>2. n \in Nat
    BY <1>1 DEF n
  <1>3. ASSUME NEW j \in Nat, j <= n + 1
        PROVE  Of(w, <<i, j>>, cs) <=> Of(t, <<i, j>>, cs)
    <2>1. \A k \in i..(j - 1) : w[k] = t[k]
      BY <1>1, <1>3 DEF n
    <2> QED
      BY <2>1, PieceOf
  <1>4. ASSUME i <= n + 1
        PROVE  Of(w, <<i, n + 2>>, cs) <=> Of(t, <<i, n + 1>>, cs) /\ ch \in cs
    <2>1. w[n + 1] = ch /\ \A k \in i..n : w[k] = t[k]
      BY <1>1 DEF n
    <2> DEFINE a == n + 1
               b == n + 2
    <2>2. a \in Nat /\ b \in Nat /\ i..(b - 1) = i..n \cup {n + 1} /\ i..(a - 1) = i..n
      BY <1>2, <1>4
    <2> HIDE DEF a, b
    <2>3. Of(w, <<i, b>>, cs) <=> \A k \in i..(b - 1) : w[k] \in cs
      BY PieceOf
    <2>4. Of(t, <<i, a>>, cs) <=> \A k \in i..(a - 1) : t[k] \in cs
      BY PieceOf
    <2>5. Of(w, <<i, b>>, cs) <=> Of(t, <<i, a>>, cs) /\ ch \in cs
      BY <2>1, <2>2, <2>3, <2>4
    <2> QED
      BY <2>5 DEF a, b
  <1>5. ASSUME NEW j \in Nat, j <= i PROVE Of(w, <<i, j>>, cs)
    BY <1>5, PieceOf
  <1> QED
    BY <1>3, <1>4, <1>5 DEF n

LEMMA OfKept ==
    ASSUME NEW t, NEW ch, NEW w, Appended(t, ch, w), NEW i, i \in Nat, i > 0, NEW cs,
           NEW j, j \in Nat, j <= Len(t) + 1
    PROVE  Of(w, <<i, j>>, cs) <=> Of(t, <<i, j>>, cs)
  BY OfGrows

LEMMA OfAppended ==
    ASSUME NEW t, NEW ch, NEW w, Appended(t, ch, w), NEW i, i \in Nat, i > 0, i <= Len(t) + 1,
           NEW cs
    PROVE  Of(w, <<i, Len(t) + 2>>, cs) <=> Of(t, <<i, Len(t) + 1>>, cs) /\ ch \in cs
  BY OfGrows

LEMMA DoubledGrows ==
    ASSUME NEW t, NEW ch, NEW w, Appended(t, ch, w), NEW i, i \in Nat, i > 0,
           NEW n, n = Len(t)
    PROVE  /\ Doubled(w, i, n + 1) <=> Doubled(t, i, n + 1)
           /\ Doubled(w, i, n + 2)
                 <=> Doubled(t, i, n + 1) \/ (i <= n /\ t[n] = "@" /\ ch = "@")
  <1>1. n \in Nat /\ w[n + 1] = ch /\ \A q \in 1..n : w[q] = t[q]
    BY DEF Appended
  <1>2. /\ Doubled(w, i, n + 1) <=> \E k \in i..(n - 1) : w[k] = "@" /\ w[k + 1] = "@"
        /\ Doubled(t, i, n + 1) <=> \E k \in i..(n - 1) : t[k] = "@" /\ t[k + 1] = "@"
        /\ Doubled(w, i, n + 2) <=> \E k \in i..n : w[k] = "@" /\ w[k + 1] = "@"
    <2>1. ASSUME NEW x, NEW j, NEW m, j - 2 = m
          PROVE  Doubled(x, i, j) <=> \E k \in i..m : x[k] = "@" /\ x[k + 1] = "@"
      BY <2>1, Zenon DEF Doubled
    <2>2. (n + 1) - 2 = n - 1 /\ (n + 2) - 2 = n
      BY <1>1
    <2> QED
      BY <2>1, <2>2, Zenon
  <1>3. \A k \in i..(n - 1) : w[k] = t[k] /\ w[k + 1] = t[k + 1]
    BY <1>1
  <1>4. \A k : k \in i..n <=> k \in i..(n - 1) \/ (k = n /\ i <= n)
    BY <1>1
  <1>5. i <= n => w[n] = t[n]
    BY <1>1
  <1> QED
    BY <1>1, <1>2, <1>3, <1>4, <1>5, Zenon

\* A character that cannot follow spoils the text; another leads to the state that reads
\* what comes next.
StepStage(s, t, ch, w) ==
    LET r == parse_url_char(s, ch) IN
    /\ r # "s_dead" => Stage(r, w) /\ Good(w)
    /\ r = "s_dead" => ~Good(w)

\* The text, its marks and what becomes of them
LEMMA ReadOne ==
    ASSUME NEW t \in Seq(Char), NEW ch \in Char, NEW w, w = Append(t, ch)
    PROVE  /\ Len(t) \in Nat /\ Len(w) = Len(t) + 1 /\ w[Len(t) + 1] = ch
           /\ \A q \in 1..Len(t) : w[q] = t[q]
           /\ Appended(t, ch, w) /\ MarksOf(t) /\ MarksOf(w) /\ MarksMove(t, ch, w)
  <1>1. Appended(t, ch, w)
    BY AppendedText
  <1>2. Len(t) \in Nat /\ Len(w) \in Nat
    BY <1>1 DEF Appended
  <1> QED
    BY <1>1, <1>2, MarksFound, MarksGrow DEF Appended

\* The first character of a text without a schema
LEMMA TargetBegins ==
    ASSUME NEW t \in Seq(Char), NEW ch \in Char, NEW w, w = Append(t, ch),
           NEW s, Stage(s, t), Good(t), s = "s_req_spaces_before_url", ch \notin Alpha
    PROVE  StepStage(s, t, ch, w)
  <1> DEFINE n == Len(t)
             r == parse_url_char(s, ch)
  <1>1. /\ n \in Nat /\ Len(w) = n + 1 /\ w[n + 1] = ch
        /\ MarksOf(w) /\ MarksMove(t, ch, w)
    BY ReadOne
  <1>2. n = 0 /\ ~Absolute(w) /\ TargetFrom(w) = 1
    BY <1>1 DEF Stage, MarksMove, MarksOf
  <1>3. r = IF ch \in {"/", "*"} THEN "s_req_path" ELSE "s_dead"
    BY DEF parse_url_char, Server
  <1>4. CASE ch \notin {"/", "*"}
    BY <1>1, <1>2, <1>3, <1>4 DEF Good, StepStage
  <1>5. CASE ch \in {"/", "*"}
    <2>1. QueryMark(w) = n + 2
      BY <1>1, <1>2, <1>5 DEF MarksOf, FirstAt
    <2>2. Stage(r, w)
      BY <1>1, <1>2, <1>3, <1>5, <2>1 DEF Stage, UrlState, Server, SchemaStates
    <2>3. Of(w, <<1, 2>>, Char \ {"SP"})
      BY <1>1, <1>2, <1>5 DEF Of
    <2>4. Good(w)
      BY <1>1, <1>2, <1>5, <2>3 DEF Good
    <2> QED
      BY <1>3, <1>5, <2>2, <2>4 DEF StepStage
  <1> QED
    BY <1>4, <1>5

\* In the schema
LEMMA SchemaStep ==
    ASSUME NEW t \in Seq(Char), NEW ch \in Char, NEW w, w = Append(t, ch),
           NEW s, Stage(s, t), Good(t),
           \/ s = "s_req_spaces_before_url" /\ ch \in Alpha
           \/ s = "s_req_schema"
    PROVE  StepStage(s, t, ch, w)
  <1> DEFINE n == Len(t)
             r == parse_url_char(s, ch)
  <1>1. /\ n \in Nat /\ Len(w) = n + 1 /\ w[n + 1] = ch
        /\ Appended(t, ch, w) /\ MarksOf(t) /\ MarksOf(w) /\ MarksMove(t, ch, w)
    BY ReadOne
  <1>2. Absolute(w) /\ Colon(t) = n + 1 /\ Of(t, <<1, n + 1>>, Alpha)
    <2>1. CASE s = "s_req_schema"
      BY <1>1, <2>1 DEF Stage, SchemaStates, Good, MarksMove
    <2>2. CASE s = "s_req_spaces_before_url" /\ ch \in Alpha
      <3>1. n = 0 /\ Absolute(w) /\ Colon(t) = n + 1
        BY <1>1, <2>2 DEF Stage, MarksMove, MarksOf, FirstAt
      <3> QED
        BY <3>1 DEF Of
    <2> QED
      BY <2>1, <2>2
  <1>3. /\ Colon(w) = (IF ch = ":" THEN n + 1 ELSE n + 2)
        /\ From(w) = Colon(w) + 3 /\ To(w) = From(w) /\ TargetFrom(w) = To(w)
    <2>1. Colon(w) = IF ch = ":" THEN n + 1 ELSE n + 2
      <3>1. Colon(w) = Grown(n + 1, 1, n, ch = ":")
        BY <1>1, <1>2 DEF MarksMove
      <3> HIDE DEF n
      <3> QED
        BY <1>1, <3>1 DEF Grown
    <2>2. From(w) = Colon(w) + 3 /\ (From(w) > Len(w) => To(w) = From(w)) /\ TargetFrom(w) = To(w)
      BY <1>1, <1>2, MarkTypes
    <2>3. n \in Nat /\ Len(w) = n + 1
      BY <1>1
    <2> HIDE DEF n
    <2>4. From(w) > Len(w)
      <3>1. Colon(w) = n + 1 \/ Colon(w) = n + 2
        BY <2>1
      <3>2. From(w) = Colon(w) + 3
        BY <2>2
      <3> QED
        BY <2>3, <3>1, <3>2
    <2> QED
      BY <2>1, <2>2, <2>4
  <1>4. Of(w, <<1, n + 1>>, Alpha) /\ (Of(w, <<1, n + 2>>, Alpha) <=> ch \in Alpha)
    <2>1. /\ Appended(t, ch, w) /\ n + 1 \in Nat /\ n + 1 <= Len(t) + 1
          /\ 1 \in Nat /\ 1 > 0 /\ 1 <= Len(t) + 1
      BY <1>1
    <2>2. Of(w, <<1, n + 1>>, Alpha) <=> Of(t, <<1, n + 1>>, Alpha)
      BY <2>1, OfKept
    <2>3. Of(w, <<1, Len(t) + 2>>, Alpha) <=> Of(t, <<1, Len(t) + 1>>, Alpha) /\ ch \in Alpha
      BY <2>1, OfAppended
    <2> QED
      BY <1>2, <2>2, <2>3
  <1>5. /\ Of(w, <<From(w), To(w)>>, AuthorityChar)
        /\ Of(w, <<TargetFrom(w), n + 2>>, Char \ {"SP"})
        /\ ~Doubled(w, From(w), To(w))
    BY <1>1, <1>3 DEF Of, Doubled
  <1>6. CASE ch \notin Alpha \cup {":"}
    <2>1. r = "s_dead"
      BY <1>6 DEF parse_url_char, Server
    <2> QED
      BY <1>2, <1>3, <1>4, <1>6, <2>1 DEF Good, StepStage
  <1>7. CASE ch \in Alpha \cup {":"}
    <2>1. r = IF ch = ":" THEN "s_req_schema_slash" ELSE "s_req_schema"
      BY <1>7 DEF parse_url_char, Server, Alpha
    <2>2. Stage(r, w)
      BY <1>1, <1>2, <1>3, <2>1 DEF Stage, UrlState, Server, SchemaStates
    <2>3. Good(w)
      <3>1. Len(w) + 1 = n + 2
        BY <1>1
      <3>2. Of(w, <<1, Colon(w)>>, Alpha)
        BY <1>3, <1>4, <1>7
      <3>3. ~(Colon(w) + 1 <= Len(w)) /\ ~(Colon(w) + 2 <= Len(w))
        BY <1>1, <1>3
      <3> QED
        BY <1>2, <1>5, <3>1, <3>2, <3>3 DEF Good
    <2> QED
      BY <2>1, <2>2, <2>3 DEF StepStage
  <1> QED
    BY <1>6, <1>7

\* Between the schema and the server
LEMMA SlashStep ==
    ASSUME NEW t \in Seq(Char), NEW ch \in Char, NEW w, w = Append(t, ch),
           NEW s, Stage(s, t), Good(t), s \in {"s_req_schema_slash", "s_req_schema_slash_slash"}
    PROVE  StepStage(s, t, ch, w)
  <1> DEFINE n == Len(t)
             r == parse_url_char(s, ch)
             k == Colon(t)
  <1>1. /\ n \in Nat /\ Len(w) = n + 1 /\ w[n + 1] = ch
        /\ Appended(t, ch, w) /\ MarksOf(t) /\ MarksOf(w) /\ MarksMove(t, ch, w)
    BY ReadOne
  <1>2. /\ n > 0 /\ Absolute(t) /\ Absolute(w) /\ k \in Nat /\ k > 0
        /\ k = IF s = "s_req_schema_slash" THEN n ELSE n - 1
    <2>1. k \in Nat /\ k > 0
      BY <1>1, MarkTypes
    <2>2. n > 0 /\ Absolute(t) /\ k = IF s = "s_req_schema_slash" THEN n ELSE n - 1
      BY <1>1 DEF Stage, SchemaStates
    <2> QED
      BY <1>1, <2>1, <2>2 DEF MarksMove
  <1> HIDE DEF k
  <1>3. Colon(w) = k
    BY <1>1, <1>2 DEF MarksMove, Grown, k
  <1>4. From(w) = k + 3 /\ To(w) = k + 3 /\ TargetFrom(w) = k + 3
    <2>1. From(w) > Len(w)
      BY <1>1, <1>2, <1>3, MarkTypes
    <2> QED
      BY <1>1, <1>2, <1>3, <2>1, MarkTypes
  <1>5. Of(w, <<1, k>>, Alpha) /\ (k + 1 <= n => w[k + 1] = "/")
    <2>1. Of(t, <<1, k>>, Alpha) /\ (k + 1 <= n => t[k + 1] = "/")
      BY <1>2 DEF Good, k
    <2>2. Appended(t, ch, w) /\ k <= Len(t) + 1
      BY <1>1, <1>2
    <2>3. Of(w, <<1, k>>, Alpha)
      <3>1. k \in Nat /\ Of(t, <<1, k>>, Alpha) /\ 1 \in Nat /\ 1 > 0
        BY <1>2, <2>1
      <3>2. Of(w, <<1, k>>, Alpha) <=> Of(t, <<1, k>>, Alpha)
        BY <2>2, <3>1, OfKept
      <3> QED
        BY <3>1, <3>2
    <2>4. k + 1 <= n => w[k + 1] = t[k + 1]
      BY <1>2, <2>2 DEF Appended
    <2> QED
      BY <2>1, <2>3, <2>4
  <1>6. /\ Of(w, <<From(w), To(w)>>, AuthorityChar)
        /\ Of(w, <<TargetFrom(w), n + 2>>, Char \ {"SP"})
        /\ ~Doubled(w, From(w), To(w))
    BY <1>1, <1>2, <1>4 DEF Of, Doubled
  <1>7. r = IF ch # "/" THEN "s_dead"
            ELSE IF s = "s_req_schema_slash" THEN "s_req_schema_slash_slash"
            ELSE "s_req_server_start"
    BY DEF parse_url_char, Server
  <1>8. CASE ch # "/"
    BY <1>1, <1>2, <1>3, <1>7, <1>8 DEF Good, StepStage
  <1>9. CASE ch = "/"
    <2>1. Stage(r, w)
      BY <1>1, <1>2, <1>3, <1>7, <1>9 DEF Stage, UrlState, Server, SchemaStates
    <2>2. (k + 1 <= n + 1 => w[k + 1] = "/") /\ (k + 2 <= n + 1 => w[k + 2] = "/")
      BY <1>1, <1>2, <1>5, <1>9
    <2>3. Good(w)
      <3>1. Absolute(w) /\ Len(w) = n + 1 /\ Colon(w) = k
        BY <1>1, <1>2, <1>3
      <3>2. (k + 1 <= Len(w) => w[k + 1] = "/") /\ (k + 2 <= Len(w) => w[k + 2] = "/")
        BY <2>2, <3>1
      <3>3. Of(w, <<TargetFrom(w), Len(w) + 1>>, Char \ {"SP"})
        <4>1. Len(w) + 1 = n + 2
          BY <1>1
        <4> QED
          BY <1>6, <4>1
      <3> QED
        BY <1>5, <1>6, <3>1, <3>2, <3>3 DEF Good
    <2> QED
      BY <1>7, <1>9, <2>1, <2>3 DEF StepStage
  <1> QED
    BY <1>8, <1>9

LEMMA ServerChars ==
    ASSUME NEW s \in Server, NEW ch
    PROVE  parse_url_char(s, ch) =
             IF ch = "/" THEN "s_req_path"
             ELSE IF ch = "?" THEN "s_req_query_string_start"
             ELSE IF ch = "@" /\ s # "s_req_server_with_at" THEN "s_req_server_with_at"
             ELSE IF ch \in UserinfoChar \cup {"[", "]"} THEN "s_req_server"
             ELSE "s_dead"
  <1>1. s \notin {"s_req_spaces_before_url", "s_req_schema", "s_req_schema_slash",
                  "s_req_schema_slash_slash"}
    BY DEF Server
  <1>2. s \notin {"s_req_path", "s_req_query_string_start", "s_req_query_string",
                  "s_req_fragment_start", "s_req_fragment"}
    BY DEF Server
  <1> DEFINE Ordinary == UserinfoChar \cup {"[", "]"}
  <1>0. "/" \notin Ordinary /\ "?" \notin Ordinary /\ "@" \notin Ordinary
    BY DEF UserinfoChar, Alpha, Digit
  <1>3. CASE ch = "/"
    BY <1>0, <1>1, <1>2, <1>3 DEF parse_url_char
  <1>4. CASE ch = "?"
    BY <1>0, <1>1, <1>2, <1>4 DEF parse_url_char
  <1>5. CASE ch = "@" /\ s # "s_req_server_with_at"
    BY <1>0, <1>1, <1>2, <1>5 DEF parse_url_char
  <1>6. CASE /\ ch \notin {"/", "?"} /\ ~(ch = "@" /\ s # "s_req_server_with_at")
             /\ ch \in UserinfoChar \cup {"[", "]"}
    BY <1>0, <1>1, <1>2, <1>6 DEF parse_url_char
  <1>7. CASE /\ ch \notin {"/", "?"} /\ ~(ch = "@" /\ s # "s_req_server_with_at")
             /\ ch \notin UserinfoChar \cup {"[", "]"}
    BY <1>1, <1>2, <1>7 DEF parse_url_char
  <1> QED
    BY <1>3, <1>4, <1>5, <1>6, <1>7

\* In the server
LEMMA ServerStep ==
    ASSUME NEW t \in Seq(Char), NEW ch \in Char, NEW w, w = Append(t, ch),
           NEW s, Stage(s, t), Good(t), s \in Server
    PROVE  StepStage(s, t, ch, w)
  <1> DEFINE n == Len(t)
             r == parse_url_char(s, ch)
  <1>1. /\ n \in Nat /\ Len(w) = n + 1 /\ w[n + 1] = ch
        /\ Appended(t, ch, w) /\ MarksOf(t) /\ MarksOf(w) /\ MarksMove(t, ch, w)
    BY ReadOne
  <1>2. \A q \in 1..n : w[q] = t[q]
    BY <1>1 DEF Appended
  <1>3. /\ Absolute(t) /\ Absolute(w) /\ To(t) = n + 1
        /\ From(t) \in Nat /\ From(t) > 3 /\ From(t) <= n + 1 /\ Colon(t) = From(t) - 3
    <2>1. Absolute(t) /\ n > 0
      BY <1>1 DEF Stage, SchemaStates, Server
    <2>2. /\ Colon(t) \in Nat /\ Colon(t) > 0 /\ From(t) = Colon(t) + 3
          /\ To(t) \in Nat /\ From(t) <= To(t)
          /\ From(t) <= n + 1 => To(t) <= n + 1
      BY <1>1, MarkTypes
    <2>3. CASE s = "s_req_server_start"
      <3>1. Colon(t) = n - 2
        BY <2>3 DEF Stage
      <3> QED
        BY <1>1, <2>1, <2>2, <3>1 DEF MarksMove
    <2>4. CASE s \in {"s_req_server", "s_req_server_with_at"}
      <3>1. From(t) <= n /\ To(t) = n + 1
        BY <2>4 DEF Stage
      <3> QED
        BY <1>1, <2>1, <2>2, <3>1 DEF MarksMove
    <2> QED
      BY <2>3, <2>4 DEF Server
  <1>4. Colon(w) = Colon(t) /\ From(w) = From(t)
    <2>1. Colon(w) = Colon(t)
      BY <1>1, <1>3 DEF MarksMove, Grown
    <2> QED
      BY <1>1, <2>1 DEF MarksOf
  <1>5. To(w) = (IF ch \in {"/", "?"} THEN n + 1 ELSE n + 2) /\ TargetFrom(w) = To(w)
    <2>1. To(w) = IF ch \in {"/", "?"} THEN n + 1 ELSE n + 2
      BY <1>1, <1>3, <1>4 DEF MarksMove, Grown
    <2> QED
      BY <1>1, <1>3, <2>1 DEF MarksOf
  <1> DEFINE a == From(t)
  <1>6. /\ Of(t, <<1, Colon(t)>>, Alpha) /\ t[Colon(t) + 1] = "/" /\ t[Colon(t) + 2] = "/"
        /\ Of(t, <<a, n + 1>>, AuthorityChar) /\ ~Doubled(t, a, n + 1)
    BY <1>1, <1>3 DEF Good
  <1>7. /\ Of(w, <<1, Colon(w)>>, Alpha) /\ w[Colon(w) + 1] = "/" /\ w[Colon(w) + 2] = "/"
    <2>1. Colon(t) \in Nat /\ Colon(t) <= n + 1 /\ 1 \in Nat /\ 1 > 0
      BY <1>1, <1>3
    <2>2. Of(w, <<1, Colon(t)>>, Alpha) <=> Of(t, <<1, Colon(t)>>, Alpha)
      BY <1>1, <2>1, OfKept
    <2>3. w[Colon(t) + 1] = t[Colon(t) + 1] /\ w[Colon(t) + 2] = t[Colon(t) + 2]
      BY <1>2, <1>3, <2>1
    <2> QED
      BY <1>4, <1>6, <2>2, <2>3
  <1>8. /\ Of(w, <<a, n + 1>>, AuthorityChar)
        /\ Of(w, <<a, n + 2>>, AuthorityChar) <=> ch \in AuthorityChar
    <2>1. a \in Nat /\ a > 0 /\ a <= Len(t) + 1 /\ n + 1 \in Nat /\ n + 1 <= Len(t) + 1
      BY <1>1, <1>3
    <2>2. Of(w, <<a, n + 1>>, AuthorityChar) <=> Of(t, <<a, n + 1>>, AuthorityChar)
      BY <1>1, <2>1, OfKept
    <2>3. Of(w, <<a, n + 2>>, AuthorityChar)
             <=> Of(t, <<a, n + 1>>, AuthorityChar) /\ ch \in AuthorityChar
      BY <1>1, <2>1, OfAppended
    <2> QED
      BY <1>6, <2>2, <2>3
  <1>9. /\ ~Doubled(w, a, n + 1)
        /\ Doubled(w, a, n + 2) <=> s = "s_req_server_with_at" /\ ch = "@"
    <2>1. /\ ~Doubled(w, a, n + 1)
          /\ Doubled(w, a, n + 2) <=> a <= n /\ t[n] = "@" /\ ch = "@"
      <3>1. a \in Nat /\ a > 0 /\ n = Len(t)
        BY <1>3
      <3> QED
        BY <1>1, <1>6, <3>1, DoubledGrows
    <2>2. CASE s = "s_req_server_start"
      <3>1. a = n + 1
        BY <1>1, <1>3, <2>2 DEF Stage
      <3> QED
        BY <1>1, <2>1, <2>2, <3>1
    <2>3. CASE s \in {"s_req_server", "s_req_server_with_at"}
      <3>1. a <= n /\ (t[n] = "@" <=> s = "s_req_server_with_at")
        BY <2>3 DEF Stage
      <3> QED
        BY <2>1, <3>1
    <2> QED
      BY <2>2, <2>3 DEF Server
  <1>10. r = IF ch = "/" THEN "s_req_path"
             ELSE IF ch = "?" THEN "s_req_query_string_start"
             ELSE IF ch = "@" /\ s # "s_req_server_with_at" THEN "s_req_server_with_at"
             ELSE IF ch \in UserinfoChar \cup {"[", "]"} THEN "s_req_server"
             ELSE "s_dead"
    BY ServerChars
  <1>11. Good(w) <=> /\ Of(w, <<a, To(w)>>, AuthorityChar) /\ ~Doubled(w, a, To(w))
                     /\ Of(w, <<To(w), n + 2>>, Char \ {"SP"})
    <2>1. Len(w) + 1 = n + 2
      BY <1>1
    <2> QED
      BY <1>3, <1>4, <1>5, <1>7, <2>1 DEF Good
  <1> HIDE DEF a
  <1>12. CASE ch \in {"/", "?"}
    <2>1. Of(w, <<n + 1, n + 2>>, Char \ {"SP"})
      BY <1>1, <1>12 DEF Of
    <2>2. Good(w)
      BY <1>5, <1>8, <1>9, <1>11, <1>12, <2>1
    <2>3. QueryMark(w) = IF ch = "?" THEN n + 1 ELSE n + 2
      <3>1. FirstAt(w, {"?", "#"}, n + 1, QueryMark(w))
        BY <1>1, <1>5, <1>12 DEF MarksOf
      <3> QED
        BY <1>1, <1>12, <3>1 DEF FirstAt
    <2>4. ch = "?" => FragmentMark(w) = n + 2
      <3>1. ch = "?" => FirstAt(w, {"#"}, n + 1, FragmentMark(w))
        BY <1>1, <2>3 DEF MarksOf
      <3> QED
        BY <1>1, <3>1 DEF FirstAt
    <2>5. r = IF ch = "?" THEN "s_req_query_string_start" ELSE "s_req_path"
      BY <1>10, <1>12
    <2>6. Stage(r, w)
      BY <1>1, <1>5, <1>12, <2>3, <2>4, <2>5 DEF Stage, UrlState, Server, SchemaStates
    <2> QED
      BY <2>2, <2>5, <2>6 DEF StepStage
  <1>13. CASE ch \in AuthorityChar /\ ~(ch = "@" /\ s = "s_req_server_with_at")
    <2>1. ch \notin {"/", "?"}
      BY <1>13 DEF AuthorityChar, UserinfoChar, Alpha, Digit
    <2>2. Of(w, <<n + 2, n + 2>>, Char \ {"SP"})
      BY <1>1 DEF Of
    <2>3. Good(w)
      BY <1>5, <1>8, <1>9, <1>11, <1>13, <2>1, <2>2
    <2>4. r = IF ch = "@" THEN "s_req_server_with_at" ELSE "s_req_server"
      BY <1>10, <1>13, <2>1 DEF AuthorityChar
    <2>5. From(w) <= n + 1 /\ To(w) = n + 2
      BY <1>1, <1>3, <1>4, <1>5, <2>1
    <2>6. Stage(r, w)
      BY <1>1, <1>3, <2>4, <2>5 DEF Stage, UrlState, Server, SchemaStates
    <2> QED
      BY <2>3, <2>4, <2>6 DEF StepStage
  <1>14. CASE /\ ch \notin {"/", "?"}
              /\ ch \notin AuthorityChar \/ (ch = "@" /\ s = "s_req_server_with_at")
    <2>1. r = "s_dead"
      <3>1. ch \notin UserinfoChar \cup {"[", "]"}
        BY <1>14 DEF AuthorityChar, UserinfoChar, Alpha, Digit
      <3> QED
        BY <1>10, <1>14, <3>1 DEF AuthorityChar
    <2>2. ~Good(w)
      BY <1>5, <1>8, <1>9, <1>11, <1>14
    <2> QED
      BY <2>1, <2>2 DEF StepStage
  <1> QED
    BY <1>12, <1>13, <1>14

TailStates == {"s_req_path", "s_req_query_string_start", "s_req_query_string",
               "s_req_fragment_start", "s_req_fragment"}

LEMMA TailChars ==
    ASSUME NEW s \in TailStates, NEW ch \in Char
    PROVE  parse_url_char(s, ch) =
             IF ch = "SP" THEN "s_dead"
             ELSE IF s \in {"s_req_fragment_start", "s_req_fragment"}
                  THEN IF s = "s_req_fragment_start" /\ ch = "#" THEN s ELSE "s_req_fragment"
             ELSE IF ch = "#" THEN "s_req_fragment_start"
             ELSE IF s # "s_req_path" THEN "s_req_query_string"
             ELSE IF ch = "?" THEN "s_req_query_string_start" ELSE s
  <1>1. s \notin Server /\ s \notin {"s_req_spaces_before_url", "s_req_schema",
                                     "s_req_schema_slash", "s_req_schema_slash_slash"}
    BY DEF Server, TailStates
  <1>2. CASE ch = "SP"
    BY <1>1, <1>2 DEF parse_url_char, UrlChar
  <1>3. CASE s \in {"s_req_fragment_start", "s_req_fragment"} /\ ch # "SP"
    <2>1. ch # "#" \/ s = "s_req_fragment" => parse_url_char(s, ch) = "s_req_fragment"
      BY <1>1, <1>3 DEF parse_url_char
    <2>2. ch = "#" /\ s = "s_req_fragment_start" => parse_url_char(s, ch) = s
      BY <1>1, <1>3 DEF parse_url_char
    <2> QED
      BY <1>3, <2>1, <2>2
  <1>4. CASE s \notin {"s_req_fragment_start", "s_req_fragment"} /\ ch \notin {"SP", "#", "?"}
    BY <1>1, <1>4 DEF parse_url_char, UrlChar, TailStates
  <1>5. CASE s \notin {"s_req_fragment_start", "s_req_fragment"} /\ ch = "?"
    BY <1>1, <1>5 DEF parse_url_char, UrlChar, TailStates
  <1>6. CASE s \notin {"s_req_fragment_start", "s_req_fragment"} /\ ch = "#"
    BY <1>1, <1>6 DEF parse_url_char, UrlChar, TailStates
  <1> QED
    BY <1>2, <1>3, <1>4, <1>5, <1>6

\* In the target: the path, the query and the fragment
LEMMA TailStep ==
    ASSUME NEW t \in Seq(Char), NEW ch \in Char, NEW w, w = Append(t, ch),
           NEW s, Stage(s, t), Good(t), s \in TailStates
    PROVE  StepStage(s, t, ch, w)
  <1> DEFINE n == Len(t)
             r == parse_url_char(s, ch)
  <1>1. /\ n \in Nat /\ Len(w) = n + 1 /\ w[n + 1] = ch
        /\ Appended(t, ch, w) /\ MarksOf(t) /\ MarksOf(w) /\ MarksMove(t, ch, w)
    BY ReadOne
  <1>2. \A q \in 1..n : w[q] = t[q]
    BY <1>1 DEF Appended
  <1>3. /\ TargetFrom(t) \in Nat /\ QueryMark(t) \in Nat /\ FragmentMark(t) \in Nat
        /\ FragmentFrom(t) \in Nat
        /\ TargetFrom(t) <= QueryMark(t) /\ QueryMark(t) <= FragmentMark(t)
        /\ FragmentMark(t) <= FragmentFrom(t)
        /\ QueryMark(t) > n => FragmentMark(t) = QueryMark(t)
    <2>1. TargetFrom(t) \in Nat
      BY <1>1 DEF MarksOf, FirstAt
    <2> QED
      BY <1>1, <2>1 DEF MarksOf, FirstAt
  <1>4. n > 0 /\ TargetFrom(t) <= n
    <2>1. n > 0
      BY <1>1 DEF Stage, TailStates
    <2>2. CASE s = "s_req_path"
      BY <2>1, <2>2 DEF Stage
    <2>3. CASE s \in {"s_req_query_string_start", "s_req_query_string"}
      <3>1. QueryMark(t) <= n
        BY <1>1, <1>3, <2>3 DEF Stage
      <3> QED
        BY <1>1, <1>3, <2>1, <3>1
    <2>4. CASE s \in {"s_req_fragment_start", "s_req_fragment"}
      <3>1. FragmentMark(t) <= n \/ FragmentFrom(t) <= n
        BY <2>4 DEF Stage
      <3> QED
        BY <1>1, <1>3, <2>1, <3>1
    <2> QED
      BY <2>2, <2>3, <2>4 DEF TailStates
  <1>5. Absolute(w) <=> Absolute(t)
    BY <1>1, <1>4 DEF MarksMove
  <1>6. ASSUME Absolute(t)
        PROVE  /\ Colon(t) \in Nat /\ Colon(t) > 0 /\ From(t) = Colon(t) + 3 /\ To(t) \in Nat
               /\ From(t) <= To(t) /\ To(t) <= n /\ To(t) = TargetFrom(t)
               /\ Colon(w) = Colon(t) /\ From(w) = From(t) /\ To(w) = To(t)
    <2>1. To(t) = TargetFrom(t) /\ To(t) <= n
      BY <1>1, <1>4, <1>6 DEF MarksOf
    <2>2. /\ Colon(t) \in Nat /\ Colon(t) > 0 /\ From(t) = Colon(t) + 3
          /\ To(t) \in Nat /\ From(t) <= To(t)
      BY <1>1, MarkTypes
    <2>3. Colon(w) = Colon(t)
      BY <1>1, <2>1, <2>2 DEF MarksMove, Grown
    <2>4. From(w) = From(t)
      BY <1>1, <2>3 DEF MarksOf
    <2>5. To(w) = To(t)
      BY <1>1, <2>1, <2>2, <2>4 DEF MarksMove, Grown
    <2> QED
      BY <2>1, <2>2, <2>3, <2>4, <2>5
  <1>7. TargetFrom(w) = TargetFrom(t)
    BY <1>1, <1>5, <1>6 DEF MarksOf
  <1>8. Good(w) <=> ch # "SP"
    <2>1. Of(w, <<TargetFrom(w), n + 2>>, Char \ {"SP"}) <=> ch # "SP"
      <3>1. Of(t, <<TargetFrom(t), Len(t) + 1>>, Char \ {"SP"})
        BY DEF Good
      <3>2. TargetFrom(t) > 0
        BY <1>1, <1>6 DEF MarksOf
      <3>3. Of(w, <<TargetFrom(t), Len(t) + 2>>, Char \ {"SP"}) <=> ch \in Char \ {"SP"}
        <4>1. TargetFrom(t) \in Nat /\ TargetFrom(t) > 0 /\ TargetFrom(t) <= Len(t) + 1
          BY <1>1, <1>3, <1>4, <3>2
        <4> QED
          BY <1>1, <3>1, <4>1, OfAppended
      <3> QED
        BY <1>7, <3>3
    <2>2. ~Absolute(w) => w[1] \in {"/", "*"}
      <3>1. w[1] = t[1]
        BY <1>1, <1>2, <1>4
      <3> QED
        BY <1>4, <1>5, <3>1 DEF Good
    <2>3. ASSUME Absolute(w)
          PROVE  /\ Of(w, <<1, Colon(w)>>, Alpha)
                 /\ w[Colon(w) + 1] = "/" /\ w[Colon(w) + 2] = "/"
                 /\ Of(w, <<From(w), To(w)>>, AuthorityChar)
                 /\ ~Doubled(w, From(w), To(w))
      <3> DEFINE k == Colon(t)
                 a == From(t)
                 b == To(t)
      <3>1. /\ k \in Nat /\ k > 0 /\ a = k + 3 /\ b \in Nat /\ a <= b /\ b <= n
            /\ Colon(w) = k /\ From(w) = a /\ To(w) = b /\ Absolute(t)
        BY <1>5, <1>6, <2>3
      <3>2. /\ Of(t, <<1, k>>, Alpha) /\ t[k + 1] = "/" /\ t[k + 2] = "/"
            /\ Of(t, <<a, b>>, AuthorityChar) /\ ~Doubled(t, a, b)
        BY <1>1, <3>1 DEF Good
      <3> HIDE DEF k, a, b
      <3>3. Of(w, <<1, k>>, Alpha)
        <4>1. 1 \in Nat /\ 1 > 0 /\ k \in Nat /\ k <= Len(t) + 1
          BY <1>1, <3>1
        <4> QED
          BY <1>1, <3>2, <4>1, OfKept
      <3>4. Of(w, <<a, b>>, AuthorityChar)
        <4>1. a \in Nat /\ a > 0 /\ b \in Nat /\ b <= Len(t) + 1
          BY <1>1, <3>1
        <4> QED
          BY <1>1, <3>2, <4>1, OfKept
      <3>5. w[k + 1] = "/" /\ w[k + 2] = "/"
        BY <1>1, <1>2, <3>1, <3>2
      <3>6. ~Doubled(w, a, b)
        <4>1. \A q \in a..(b - 2) : w[q] = t[q] /\ w[q + 1] = t[q + 1]
          BY <1>1, <1>2, <3>1
        <4> QED
          BY <3>2, <4>1 DEF Doubled
      <3> QED
        BY <3>1, <3>3, <3>4, <3>5, <3>6
    <2>4. Len(w) + 1 = n + 2
      BY <1>1
    <2> QED
      BY <2>1, <2>2, <2>3, <2>4 DEF Good
  <1> DEFINE c == ch \in {"?", "#"}
  <1>9. CASE s = "s_req_path" /\ ch # "SP"
    <2>1. QueryMark(t) = n + 1
      BY <1>9 DEF Stage
    <2>2. QueryMark(w) = IF c THEN n + 1 ELSE n + 2
      BY <1>1, <1>3, <1>4, <1>7, <2>1 DEF MarksMove, Grown
    <2>3. ch = "?" => FragmentMark(w) = n + 2
      BY <1>1, <1>3, <2>1, <2>2 DEF MarksMove, Grown
    <2>4. ch = "#" => FragmentMark(w) = n + 1 /\ FragmentFrom(w) = n + 2
      <3>1. ch = "#" => FragmentMark(w) = n + 1
        BY <1>1, <1>3, <2>1, <2>2 DEF MarksMove, Grown
      <3>2. ch = "#" => FirstAt(w, Char \ {"#"}, n + 1, FragmentFrom(w))
        BY <1>1, <3>1 DEF MarksOf
      <3> QED
        BY <1>1, <3>1, <3>2 DEF FirstAt
    <2>5. r = IF ch = "?" THEN "s_req_query_string_start"
              ELSE IF ch = "#" THEN "s_req_fragment_start" ELSE "s_req_path"
      BY <1>9, TailChars
    <2>6. Stage(r, w)
      <3>1. CASE ch = "?"
        BY <1>1, <2>2, <2>3, <2>5, <3>1 DEF Stage, UrlState, Server, SchemaStates
      <3>2. CASE ch = "#"
        BY <1>1, <2>4, <2>5, <3>2 DEF Stage, UrlState, Server, SchemaStates
      <3>3. CASE ch \notin {"?", "#"}
        <4>1. r = "s_req_path" /\ QueryMark(w) = Len(w) + 1
          BY <1>1, <2>2, <2>5, <3>3
        <4>2. TargetFrom(w) <= Len(w) /\ Len(w) # 0
          BY <1>1, <1>3, <1>4, <1>7
        <4> HIDE DEF r
        <4> QED
          BY <4>1, <4>2 DEF Stage, UrlState, Server, SchemaStates
      <3> QED
        BY <3>1, <3>2, <3>3
    <2> QED
      BY <1>8, <1>9, <2>5, <2>6 DEF StepStage
  <1>10. CASE s \in {"s_req_query_string_start", "s_req_query_string"} /\ ch # "SP"
    <2>1. QueryMark(t) <= n /\ FragmentMark(t) = n + 1
      BY <1>1, <1>3, <1>10 DEF Stage
    <2>2. QueryMark(w) = QueryMark(t)
      BY <1>1, <1>3, <1>4, <1>7, <2>1 DEF MarksMove, Grown
    <2>3. FragmentMark(w) = IF ch = "#" THEN n + 1 ELSE n + 2
      BY <1>1, <1>3, <2>1, <2>2 DEF MarksMove, Grown
    <2>4. ch = "#" => FragmentFrom(w) = n + 2
      <3>1. ch = "#" => FirstAt(w, Char \ {"#"}, n + 1, FragmentFrom(w))
        BY <1>1, <2>3 DEF MarksOf
      <3> QED
        BY <1>1, <3>1 DEF FirstAt
    <2>5. r = IF ch = "#" THEN "s_req_fragment_start" ELSE "s_req_query_string"
      BY <1>10, TailChars
    <2>6. Stage(r, w)
      BY <1>1, <1>3, <2>1, <2>2, <2>3, <2>4, <2>5
         DEF Stage, UrlState, Server, SchemaStates
    <2> QED
      BY <1>8, <1>10, <2>5, <2>6 DEF StepStage
  <1>11. CASE s \in {"s_req_fragment_start", "s_req_fragment"} /\ ch # "SP"
    <2>1. /\ FragmentMark(t) <= n
          /\ s = "s_req_fragment_start" => FragmentFrom(t) = n + 1
          /\ s = "s_req_fragment" => FragmentFrom(t) <= n
      BY <1>1, <1>3, <1>11 DEF Stage
    <2>2. QueryMark(w) = QueryMark(t)
      BY <1>1, <1>3, <1>4, <1>7, <2>1 DEF MarksMove, Grown
    <2>3. FragmentMark(w) = FragmentMark(t)
      BY <1>1, <1>3, <2>1, <2>2 DEF MarksMove, Grown
    <2>4. /\ s = "s_req_fragment_start" =>
                FragmentFrom(w) = IF ch # "#" THEN n + 1 ELSE n + 2
          /\ s = "s_req_fragment" => FragmentFrom(w) = FragmentFrom(t)
      BY <1>1, <1>3, <2>1, <2>3 DEF MarksMove, Grown
    <2>5. r = IF s = "s_req_fragment_start" /\ ch = "#" THEN "s_req_fragment_start"
              ELSE "s_req_fragment"
      BY <1>11, TailChars
    <2>6. Stage(r, w)
      BY <1>1, <1>3, <1>11, <2>1, <2>3, <2>4, <2>5
         DEF Stage, UrlState, Server, SchemaStates
    <2> QED
      BY <1>8, <1>11, <2>5, <2>6 DEF StepStage
  <1>12. CASE ch = "SP"
    BY <1>8, <1>12, TailChars DEF StepStage
  <1> QED
    BY <1>9, <1>10, <1>11, <1>12 DEF TailStates

\* A turn of the first loop keeps to the marks, or the text begins no URL.
LEMMA StageSteps ==
    ASSUME NEW t \in Seq(Char), NEW ch \in Char, NEW w, w = Append(t, ch),
           NEW s, Stage(s, t), Good(t)
    PROVE  StepStage(s, t, ch, w)
  <1>1. \/ s \in {"s_req_spaces_before_url", "s_req_schema", "s_req_schema_slash",
                  "s_req_schema_slash_slash"}
        \/ s \in Server \/ s \in TailStates
    BY DEF Stage, UrlState, TailStates
  <1>2. CASE s \in {"s_req_spaces_before_url", "s_req_schema"}
    BY <1>2, TargetBegins, SchemaStep
  <1>3. CASE s \in {"s_req_schema_slash", "s_req_schema_slash_slash"}
    BY <1>3, SlashStep
  <1> QED
    BY <1>1, <1>2, <1>3, ServerStep, TailStep

-----------------------------------------------------------------------------
(* The pieces the first loop reports *)

\* All of the authority is the host, which the second loop divides
Cut(t) ==
    [f \in Field |->
        CASE f \in {"UF_USERINFO", "UF_PORT"} -> <<1, 1>>
          [] f = "UF_HOST" -> IF Absolute(t) THEN <<From(t), To(t)>> ELSE <<1, 1>>
          [] f \notin {"UF_USERINFO", "UF_PORT", "UF_HOST"} -> Pieces(t)[f]]

LEMMA CutPieces ==
    ASSUME NEW t
    PROVE  /\ Cut(t)["UF_USERINFO"] = <<1, 1>> /\ Cut(t)["UF_PORT"] = <<1, 1>>
           /\ Cut(t)["UF_HOST"] = IF Absolute(t) THEN <<From(t), To(t)>> ELSE <<1, 1>>
           /\ Cut(t)["UF_SCHEMA"] = IF Absolute(t) THEN <<1, Colon(t)>> ELSE <<1, 1>>
           /\ Cut(t)["UF_PATH"] = <<TargetFrom(t), QueryMark(t)>>
           /\ Cut(t)["UF_QUERY"] = <<QueryMark(t) + 1, FragmentMark(t)>>
           /\ Cut(t)["UF_FRAGMENT"] = <<FragmentFrom(t), Len(t) + 1>>
  <1>1. \A f \in Field : Cut(t)[f] =
        CASE f \in {"UF_USERINFO", "UF_PORT"} -> <<1, 1>>
          [] f = "UF_HOST" -> IF Absolute(t) THEN <<From(t), To(t)>> ELSE <<1, 1>>
          [] f \notin {"UF_USERINFO", "UF_PORT", "UF_HOST"} -> Pieces(t)[f]
    BY DEF Cut
  <1>2. /\ Pieces(t)["UF_SCHEMA"] = IF Absolute(t) THEN <<1, Colon(t)>> ELSE <<1, 1>>
        /\ Pieces(t)["UF_PATH"] = <<TargetFrom(t), QueryMark(t)>>
        /\ Pieces(t)["UF_QUERY"] = <<QueryMark(t) + 1, FragmentMark(t)>>
        /\ Pieces(t)["UF_FRAGMENT"] = <<FragmentFrom(t), Len(t) + 1>>
    BY DEF Pieces, Field
  <1> QED
    BY <1>1, <1>2 DEF Field

\* Piece p of a text of n characters becomes piece q of the text with one more: if it has
\* ended it stays, if it goes to the end of the text it may go on, and a new one can only
\* begin at the new character.
Carried(p, q, n) ==
    /\ p[1] < p[2] => /\ p[2] <= n => q[1] = p[1] /\ q[2] = p[2]
                      /\ p[2] > n => /\ p[2] = n + 1 /\ q[1] = p[1]
                                     /\ q[2] \in {n + 1, n + 2}
    /\ ~(p[1] < p[2]) /\ q[1] < q[2] => q[1] = n + 1 /\ q[2] = n + 2

\* A mark in the text stays, one at its end stays or moves with the end.
Keeps(k, l, n) ==
    /\ k \in Nat /\ l \in Nat
    /\ k <= n => l = k
    /\ k = n + 1 => l \in {n + 1, n + 2}
    /\ k > n + 1 => l > n + 1

LEMMA FirstKeeps ==
    ASSUME NEW t, NEW w, NEW n \in Nat, NEW b, NEW cs, n = Len(t), Len(w) = n + 1,
           NEW i, NEW j, Keeps(i, j, n), NEW k, NEW l, FirstAt(t, cs, i, k), FirstAt(w, cs, j, l),
           l = Grown(k, j, n, b)
    PROVE  Keeps(k, l, n)
  BY DEF FirstAt, Grown, Keeps

\* All marks do, once the first character is there
AllKeep(t, w, n) ==
    /\ Absolute(w) <=> Absolute(t)
    /\ Keeps(Colon(t), Colon(w), n) /\ Keeps(From(t), From(w), n) /\ Keeps(To(t), To(w), n)
    /\ Keeps(At(t), At(w), n) /\ Keeps(TargetFrom(t), TargetFrom(w), n)
    /\ Keeps(QueryMark(t), QueryMark(w), n) /\ Keeps(FragmentMark(t), FragmentMark(w), n)
    /\ Keeps(FragmentFrom(t), FragmentFrom(w), n)

LEMMA MarksKeep ==
    ASSUME NEW t \in Seq(Char), NEW ch \in Char, NEW w, w = Append(t, ch),
           NEW n, n = Len(t), n > 0
    PROVE  AllKeep(t, w, n)
  <1>1. n \in Nat /\ Len(w) = n + 1 /\ MarksOf(t) /\ MarksOf(w) /\ MarksMove(t, ch, w)
    BY ReadOne
  <1>2. Keeps(1, 1, n)
    BY <1>1 DEF Keeps
  <1>3. Keeps(Colon(t), Colon(w), n)
    <2>1. FirstAt(t, {":"}, 1, Colon(t)) /\ FirstAt(w, {":"}, 1, Colon(w))
      BY <1>1 DEF MarksOf
    <2>2. Colon(w) = Grown(Colon(t), 1, n, ch = ":")
      BY <1>1 DEF MarksMove
    <2> QED
      BY <1>1, <1>2, <2>1, <2>2, FirstKeeps
  <1>4. Keeps(From(t), From(w), n)
    <2>1. From(t) = Colon(t) + 3 /\ From(w) = Colon(w) + 3
      BY <1>1 DEF MarksOf
    <2> QED
      BY <1>1, <1>3, <2>1 DEF Keeps
  <1>5. Keeps(To(t), To(w), n)
    <2>1. FirstAt(t, {"/", "?"}, From(t), To(t)) /\ FirstAt(w, {"/", "?"}, From(w), To(w))
      BY <1>1 DEF MarksOf
    <2>2. To(w) = Grown(To(t), From(w), n, ch \in {"/", "?"})
      BY <1>1 DEF MarksMove
    <2> QED
      BY <1>1, <1>4, <2>1, <2>2, FirstKeeps
  <1>6. Keeps(At(t), At(w), n)
    <2>1. FirstAt(t, {"@"}, From(t), At(t)) /\ FirstAt(w, {"@"}, From(w), At(w))
      BY <1>1 DEF MarksOf
    <2>2. At(w) = Grown(At(t), From(w), n, ch = "@")
      BY <1>1 DEF MarksMove
    <2> QED
      BY <1>1, <1>4, <2>1, <2>2, FirstKeeps
  <1>7. Absolute(w) <=> Absolute(t)
    BY <1>1 DEF MarksMove
  <1>8. Keeps(TargetFrom(t), TargetFrom(w), n)
    <2>1. /\ TargetFrom(t) = IF Absolute(t) THEN To(t) ELSE 1
          /\ TargetFrom(w) = IF Absolute(w) THEN To(w) ELSE 1
      BY <1>1 DEF MarksOf
    <2> QED
      BY <1>2, <1>5, <1>7, <2>1
  <1>9. Keeps(QueryMark(t), QueryMark(w), n)
    <2>1. /\ FirstAt(t, {"?", "#"}, TargetFrom(t), QueryMark(t))
          /\ FirstAt(w, {"?", "#"}, TargetFrom(w), QueryMark(w))
      BY <1>1 DEF MarksOf
    <2>2. QueryMark(w) = Grown(QueryMark(t), TargetFrom(w), n, ch \in {"?", "#"})
      BY <1>1 DEF MarksMove
    <2> QED
      BY <1>1, <1>8, <2>1, <2>2, FirstKeeps
  <1>10. Keeps(FragmentMark(t), FragmentMark(w), n)
    <2>1. /\ FirstAt(t, {"#"}, QueryMark(t), FragmentMark(t))
          /\ FirstAt(w, {"#"}, QueryMark(w), FragmentMark(w))
      BY <1>1 DEF MarksOf
    <2>2. FragmentMark(w) = Grown(FragmentMark(t), QueryMark(w), n, ch = "#")
      BY <1>1 DEF MarksMove
    <2> QED
      BY <1>1, <1>9, <2>1, <2>2, FirstKeeps
  <1>11. Keeps(FragmentFrom(t), FragmentFrom(w), n)
    <2>1. /\ FirstAt(t, Char \ {"#"}, FragmentMark(t), FragmentFrom(t))
          /\ FirstAt(w, Char \ {"#"}, FragmentMark(w), FragmentFrom(w))
      BY <1>1 DEF MarksOf
    <2>2. FragmentFrom(w) = Grown(FragmentFrom(t), FragmentMark(w), n, ch # "#")
      BY <1>1 DEF MarksMove
    <2> QED
      BY <1>1, <1>10, <2>1, <2>2, FirstKeeps
  <1> QED
    BY <1>3, <1>4, <1>5, <1>6, <1>7, <1>8, <1>9, <1>10, <1>11 DEF AllKeep

\* A piece that goes from a mark, or from the character behind it, to the next mark.
LEMMA PieceCarried ==
    ASSUME NEW t, NEW w, NEW n \in Nat, NEW cs, n = Len(t), Len(w) = n + 1,
           NEW i, NEW j, Keeps(i, j, n), NEW k, NEW l, FirstAt(t, cs, i, k), FirstAt(w, cs, j, l),
           Keeps(k, l, n), NEW d \in {0, 1}
    PROVE  Carried(<<i + d, k>>, <<j + d, l>>, n)
  <1>1. /\ i \in Nat /\ k \in Nat /\ i <= k /\ (i > n => k = i) /\ (i <= n + 1 => k <= n + 1)
        /\ j \in Nat /\ l \in Nat /\ j <= l /\ (j > n + 1 => l = j) /\ (j <= n + 2 => l <= n + 2)
    BY DEF FirstAt, Keeps
  <1>2. /\ <<i + d, k>>[1] = i + d /\ <<i + d, k>>[2] = k
        /\ <<j + d, l>>[1] = j + d /\ <<j + d, l>>[2] = l
    OBVIOUS
  <1>3. CASE d = 0
    BY <1>1, <1>2, <1>3 DEF Keeps, Carried
  <1>4. CASE d = 1
    BY <1>1, <1>2, <1>4 DEF Keeps, Carried
  <1> QED
    BY <1>3, <1>4

LEMMA CutCarried ==
    ASSUME NEW t \in Seq(Char), NEW ch \in Char, NEW w, w = Append(t, ch),
           NEW n, n = Len(t), n > 0, NEW f \in Field
    PROVE  Carried(Cut(t)[f], Cut(w)[f], n)
  <1>1. n \in Nat /\ Len(w) = n + 1 /\ MarksOf(t) /\ MarksOf(w) /\ AllKeep(t, w, n)
    BY ReadOne, MarksKeep
  <1>2. Carried(<<1, 1>>, <<1, 1>>, n)
    BY DEF Carried
  <1>3. CASE f \in {"UF_USERINFO", "UF_PORT"}
    BY <1>2, <1>3, CutPieces
  <1>4. CASE f = "UF_SCHEMA"
    <2>1. CASE ~Absolute(t)
      BY <1>1, <1>2, <1>4, <2>1, CutPieces DEF AllKeep
    <2>2. CASE Absolute(t)
      <3>1. Carried(<<1 + 0, Colon(t)>>, <<1 + 0, Colon(w)>>, n)
        <4>1. FirstAt(t, {":"}, 1, Colon(t)) /\ FirstAt(w, {":"}, 1, Colon(w))
          BY <1>1 DEF MarksOf
        <4>2. Keeps(1, 1, n) /\ Keeps(Colon(t), Colon(w), n)
          BY <1>1 DEF Keeps, AllKeep
        <4> QED
          BY <1>1, <4>1, <4>2, PieceCarried
      <3>2. 1 + 0 = 1
        OBVIOUS
      <3>3. Cut(t)[f] = <<1, Colon(t)>> /\ Cut(w)[f] = <<1, Colon(w)>>
        BY <1>1, <1>4, <2>2, CutPieces DEF AllKeep
      <3> QED
        BY <3>1, <3>2, <3>3
    <2> QED
      BY <2>1, <2>2
  <1>5. CASE f = "UF_HOST"
    <2>1. CASE ~Absolute(t)
      BY <1>1, <1>2, <1>5, <2>1, CutPieces DEF AllKeep
    <2>2. CASE Absolute(t)
      <3>1. Carried(<<From(t) + 0, To(t)>>, <<From(w) + 0, To(w)>>, n)
        <4>1. FirstAt(t, {"/", "?"}, From(t), To(t)) /\ FirstAt(w, {"/", "?"}, From(w), To(w))
          BY <1>1 DEF MarksOf
        <4>2. Keeps(From(t), From(w), n) /\ Keeps(To(t), To(w), n)
          BY <1>1 DEF AllKeep
        <4> QED
          BY <1>1, <4>1, <4>2, PieceCarried
      <3>2. From(t) + 0 = From(t) /\ From(w) + 0 = From(w)
        <4>1. Keeps(From(t), From(w), n)
          BY <1>1 DEF AllKeep
        <4>2. From(t) \in Nat /\ From(w) \in Nat
          BY <4>1 DEF Keeps
        <4> QED
          BY <4>2
      <3>3. Cut(t)[f] = <<From(t), To(t)>> /\ Cut(w)[f] = <<From(w), To(w)>>
        BY <1>1, <1>5, <2>2, CutPieces DEF AllKeep
      <3> QED
        BY <3>1, <3>2, <3>3
    <2> QED
      BY <2>1, <2>2
  <1>6. CASE f = "UF_PATH"
    <2>1. Carried(<<TargetFrom(t) + 0, QueryMark(t)>>, <<TargetFrom(w) + 0, QueryMark(w)>>, n)
      <3>1. /\ FirstAt(t, {"?", "#"}, TargetFrom(t), QueryMark(t))
            /\ FirstAt(w, {"?", "#"}, TargetFrom(w), QueryMark(w))
        BY <1>1 DEF MarksOf
      <3>2. Keeps(TargetFrom(t), TargetFrom(w), n) /\ Keeps(QueryMark(t), QueryMark(w), n)
        BY <1>1 DEF AllKeep
      <3> QED
        BY <1>1, <3>1, <3>2, PieceCarried
    <2>2. TargetFrom(t) + 0 = TargetFrom(t) /\ TargetFrom(w) + 0 = TargetFrom(w)
      <3>1. Keeps(TargetFrom(t), TargetFrom(w), n)
        BY <1>1 DEF AllKeep
      <3>2. TargetFrom(t) \in Nat /\ TargetFrom(w) \in Nat
        BY <3>1 DEF Keeps
      <3> QED
        BY <3>2
    <2>3. /\ Cut(t)[f] = <<TargetFrom(t), QueryMark(t)>>
          /\ Cut(w)[f] = <<TargetFrom(w), QueryMark(w)>>
      BY <1>6, CutPieces
    <2> QED
      BY <2>1, <2>2, <2>3
  <1>7. CASE f = "UF_QUERY"
    <2>1. /\ FirstAt(t, {"#"}, QueryMark(t), FragmentMark(t))
          /\ FirstAt(w, {"#"}, QueryMark(w), FragmentMark(w))
      BY <1>1 DEF MarksOf
    <2>2. Keeps(QueryMark(t), QueryMark(w), n) /\ Keeps(FragmentMark(t), FragmentMark(w), n)
      BY <1>1 DEF AllKeep
    <2>3. Carried(<<QueryMark(t) + 1, FragmentMark(t)>>, <<QueryMark(w) + 1, FragmentMark(w)>>, n)
      BY <1>1, <2>1, <2>2, PieceCarried
    <2> QED
      BY <1>7, <2>3, CutPieces
  <1>8. CASE f = "UF_FRAGMENT"
    <2>1. Keeps(FragmentFrom(t), FragmentFrom(w), n)
      BY <1>1 DEF AllKeep
    <2>2. Cut(t)[f][1] = FragmentFrom(t) /\ Cut(t)[f][2] = n + 1
          /\ Cut(w)[f][1] = FragmentFrom(w) /\ Cut(w)[f][2] = n + 2
      <3>1. Len(w) + 1 = n + 2
        BY <1>1
      <3>2. Cut(w)[f] = <<FragmentFrom(w), Len(w) + 1>> /\ Cut(t)[f] = <<FragmentFrom(t), n + 1>>
        BY <1>8, CutPieces
      <3> QED
        BY <3>1, <3>2
    <2> QED
      BY <1>1, <2>1, <2>2 DEF Keeps, Carried
  <1> QED
    BY <1>3, <1>4, <1>5, <1>6, <1>7, <1>8 DEF Field

LEMMA EmptyText ==
    ASSUME NEW t \in Seq(Char), Len(t) = 0 PROVE t = <<>>
  OBVIOUS

\* How the marks of a text are ordered
MarksOrdered(t, n) ==
    /\ Colon(t) \in Nat /\ Colon(t) > 0 /\ Colon(t) <= n + 1 /\ From(t) = Colon(t) + 3
    /\ To(t) \in Nat /\ From(t) <= To(t)
    /\ From(t) > n => To(t) = From(t)
    /\ From(t) <= n + 1 => To(t) <= n + 1
    /\ TargetFrom(t) = IF Absolute(t) THEN To(t) ELSE 1
    /\ QueryMark(t) \in Nat /\ TargetFrom(t) <= QueryMark(t)
    /\ TargetFrom(t) > n => QueryMark(t) = TargetFrom(t)
    /\ TargetFrom(t) <= n + 1 => QueryMark(t) <= n + 1
    /\ FragmentMark(t) \in Nat /\ QueryMark(t) <= FragmentMark(t)
    /\ QueryMark(t) > n => FragmentMark(t) = QueryMark(t)
    /\ QueryMark(t) <= n + 1 => FragmentMark(t) <= n + 1
    /\ FragmentFrom(t) \in Nat /\ FragmentMark(t) <= FragmentFrom(t)
    /\ FragmentMark(t) > n => FragmentFrom(t) = FragmentMark(t)
    /\ FragmentMark(t) <= n + 1 => FragmentFrom(t) <= n + 1

LEMMA MarksInOrder ==
    ASSUME NEW t, NEW n, n = Len(t), n \in Nat PROVE MarksOrdered(t, n)
  <1>1. MarksOf(t)
    BY MarksFound
  <1>2. /\ Colon(t) \in Nat /\ Colon(t) > 0 /\ Colon(t) <= n + 1 /\ From(t) = Colon(t) + 3
    BY <1>1 DEF MarksOf, FirstAt
  <1>3. /\ To(t) \in Nat /\ From(t) <= To(t)
        /\ From(t) > n => To(t) = From(t)
        /\ From(t) <= n + 1 => To(t) <= n + 1
        /\ TargetFrom(t) = IF Absolute(t) THEN To(t) ELSE 1
        /\ TargetFrom(t) \in Nat
    BY <1>1 DEF MarksOf, FirstAt
  <1>4. /\ QueryMark(t) \in Nat /\ TargetFrom(t) <= QueryMark(t)
        /\ TargetFrom(t) > n => QueryMark(t) = TargetFrom(t)
        /\ TargetFrom(t) <= n + 1 => QueryMark(t) <= n + 1
    BY <1>1 DEF MarksOf, FirstAt
  <1>5. /\ FragmentMark(t) \in Nat /\ QueryMark(t) <= FragmentMark(t)
        /\ QueryMark(t) > n => FragmentMark(t) = QueryMark(t)
        /\ QueryMark(t) <= n + 1 => FragmentMark(t) <= n + 1
    BY <1>1 DEF MarksOf, FirstAt
  <1>6. /\ FragmentFrom(t) \in Nat /\ FragmentMark(t) <= FragmentFrom(t)
        /\ FragmentMark(t) > n => FragmentFrom(t) = FragmentMark(t)
        /\ FragmentMark(t) <= n + 1 => FragmentFrom(t) <= n + 1
    BY <1>1 DEF MarksOf, FirstAt
  <1> QED
    BY <1>2, <1>3, <1>4, <1>5, <1>6 DEF MarksOrdered

\* The piece a state is in goes to the end of the text; the others have ended before it.
Shaped(p, open, n) ==
    /\ p[1] \in Nat /\ p[1] > 0 /\ p[2] \in Nat
    /\ open => p[1] <= n /\ p[2] = n + 1
    /\ ~open /\ p[1] < p[2] => p[2] <= n

LEMMA StageShape ==
    ASSUME NEW t \in Seq(Char), NEW n, n = Len(t), NEW s, Stage(s, t), NEW f \in Field
    PROVE  Shaped(Cut(t)[f], FieldOf(s) = f, n)
  <1>1. n \in Nat /\ MarksOrdered(t, n)
    BY MarksInOrder
  <1> DEFINE co == Colon(t)
             fr == From(t)
             to == To(t)
             tf == TargetFrom(t)
             qm == QueryMark(t)
             fm == FragmentMark(t)
             ff == FragmentFrom(t)
             ab == Absolute(t)
             Shapes(x) ==
                /\ ab => Shaped(<<1, co>>, x = "UF_SCHEMA", n) /\ Shaped(<<fr, to>>, x = "UF_HOST", n)
                /\ ~ab => x \notin {"UF_SCHEMA", "UF_HOST"}
                /\ x \notin {"UF_USERINFO", "UF_PORT"}
                /\ Shaped(<<tf, qm>>, x = "UF_PATH", n)
                /\ Shaped(<<qm + 1, fm>>, x = "UF_QUERY", n)
                /\ Shaped(<<ff, n + 1>>, x = "UF_FRAGMENT", n)
  <1>2. /\ co \in Nat /\ co > 0 /\ co <= n + 1 /\ fr = co + 3
        /\ to \in Nat /\ fr <= to
        /\ fr > n => to = fr
        /\ fr <= n + 1 => to <= n + 1
        /\ tf = IF ab THEN to ELSE 1
        /\ qm \in Nat /\ tf <= qm
        /\ tf > n => qm = tf
        /\ tf <= n + 1 => qm <= n + 1
        /\ fm \in Nat /\ qm <= fm
        /\ qm > n => fm = qm
        /\ qm <= n + 1 => fm <= n + 1
        /\ ff \in Nat /\ fm <= ff
        /\ fm > n => ff = fm
        /\ fm <= n + 1 => ff <= n + 1
        /\ n \in Nat
    BY <1>1 DEF MarksOrdered
  <1>3. /\ s \in UrlState \ {"s_dead"}
        /\ s = "s_req_spaces_before_url" <=> n = 0
        /\ s \in SchemaStates => ab
        /\ s = "s_req_schema" => co = n + 1
        /\ s = "s_req_schema_slash" => co = n
        /\ s = "s_req_schema_slash_slash" => co = n - 1
        /\ s = "s_req_server_start" => co = n - 2
        /\ s \in {"s_req_server", "s_req_server_with_at"} => fr <= n /\ to = n + 1
        /\ s = "s_req_path" => tf <= n /\ qm = n + 1
        /\ s = "s_req_query_string_start" => qm = n /\ fm = n + 1
        /\ s = "s_req_query_string" => qm < n /\ fm = n + 1
        /\ s = "s_req_fragment_start" => fm <= n /\ ff = n + 1
        /\ s = "s_req_fragment" => ff <= n
    BY DEF Stage
  <1>4. n = 0 => ~ab
    BY EmptyText DEF Absolute
  <1> HIDE DEF co, fr, to, tf, qm, fm, ff, ab
  <1>5. ASSUME s = "s_req_spaces_before_url"
        PROVE  Shapes(FieldOf(s))
    BY <1>2, <1>3, <1>4, <1>5 DEF Shaped, FieldOf
  <1>6. ASSUME s \in {"s_req_schema", "s_req_schema_slash", "s_req_schema_slash_slash",
                      "s_req_server_start"}
        PROVE  Shapes(FieldOf(s))
    <2>1. ab /\ fr > n /\ to = fr /\ tf = to /\ qm = tf /\ fm = qm /\ ff = fm /\ n > 0
      BY <1>2, <1>3, <1>6 DEF SchemaStates, Server
    <2>2. FieldOf(s) = IF s = "s_req_schema" THEN "UF_SCHEMA" ELSE "none"
      BY <1>6 DEF FieldOf
    <2>3. /\ s = "s_req_schema" => co = n + 1
          /\ s # "s_req_schema" => co <= n
      BY <1>2, <1>3, <1>6
    <2>4. /\ Shaped(<<1, co>>, s = "s_req_schema", n) /\ Shaped(<<fr, to>>, FALSE, n)
          /\ Shaped(<<tf, qm>>, FALSE, n) /\ Shaped(<<qm + 1, fm>>, FALSE, n)
          /\ Shaped(<<ff, n + 1>>, FALSE, n)
      <3>1. Shaped(<<1, co>>, s = "s_req_schema", n)
        <4>1. n \in Nat /\ n > 0 /\ co \in Nat
          BY <1>2, <2>1
        <4> QED
          BY <2>3, <4>1 DEF Shaped
      <3>2. /\ n \in Nat /\ fr \in Nat /\ fr > n /\ fr > 0 /\ to = fr /\ tf = fr /\ qm = fr /\ fm = fr /\ ff = fr
        BY <1>2, <2>1
      <3> QED
        BY <3>1, <3>2 DEF Shaped
    <2>5. \A g \in {"UF_HOST", "UF_PATH", "UF_QUERY", "UF_FRAGMENT"} : (FieldOf(s) = g) = FALSE
      BY <2>2
    <2>6. (FieldOf(s) = "UF_SCHEMA") = (s = "s_req_schema") /\ FieldOf(s) \notin {"UF_USERINFO", "UF_PORT"}
      BY <2>2
    <2> QED
      BY <2>1, <2>4, <2>5, <2>6
  <1>7. ASSUME s \in {"s_req_server", "s_req_server_with_at"}
        PROVE  Shapes(FieldOf(s))
    <2>1. ab /\ fr <= n /\ to = n + 1 /\ tf = n + 1 /\ qm = tf /\ fm = qm /\ ff = fm
          /\ FieldOf(s) = "UF_HOST"
      BY <1>2, <1>3, <1>7 DEF SchemaStates, Server, FieldOf
    <2> QED
      BY <1>2, <2>1 DEF Shaped
  <1>8. ASSUME s = "s_req_path"
        PROVE  Shapes(FieldOf(s))
    <2>1. tf <= n /\ qm = n + 1 /\ fm = qm /\ ff = fm /\ FieldOf(s) = "UF_PATH" /\ n > 0
      BY <1>2, <1>3, <1>8 DEF FieldOf
    <2> QED
      BY <1>2, <2>1 DEF Shaped
  <1>9. ASSUME s \in {"s_req_query_string_start", "s_req_query_string"}
        PROVE  Shapes(FieldOf(s))
    <2>1. /\ FieldOf(s) = IF s = "s_req_query_string" THEN "UF_QUERY" ELSE "none"
          /\ qm <= n /\ fm = n + 1 /\ ff = fm /\ n > 0
          /\ s = "s_req_query_string_start" => qm = n
          /\ s = "s_req_query_string" => qm < n
      BY <1>2, <1>3, <1>9 DEF FieldOf
    <2>2. tf <= n
      BY <1>2, <2>1
    <2> QED
      BY <1>2, <1>9, <2>1, <2>2 DEF Shaped
  <1>10. ASSUME s \in {"s_req_fragment_start", "s_req_fragment"}
        PROVE  Shapes(FieldOf(s))
    <2>1. /\ FieldOf(s) = IF s = "s_req_fragment" THEN "UF_FRAGMENT" ELSE "none"
          /\ n > 0 /\ fm <= n /\ qm <= n /\ tf <= n
          /\ s = "s_req_fragment_start" => ff = n + 1
          /\ s = "s_req_fragment" => ff <= n
      <3>1. fm <= n
        BY <1>2, <1>3, <1>10
      <3>2. FieldOf(s) = IF s = "s_req_fragment" THEN "UF_FRAGMENT" ELSE "none"
        BY <1>10 DEF FieldOf
      <3> QED
        BY <1>2, <1>3, <1>10, <3>1, <3>2
    <2> QED
      BY <1>2, <1>10, <2>1 DEF Shaped
  <1>11. Shapes(FieldOf(s))
    BY <1>3, <1>5, <1>6, <1>7, <1>8, <1>9, <1>10 DEF UrlState, Server
  <1>12. Shaped(<<1, 1>>, FALSE, n)
    BY DEF Shaped
  <1>13. CASE f \in {"UF_USERINFO", "UF_PORT"}
    <2>1. Cut(t)[f] = <<1, 1>> /\ (FieldOf(s) = f) = FALSE
      BY <1>11, <1>13, CutPieces
    <2> QED
      BY <1>12, <2>1, Zenon
  <1>14. CASE f \in {"UF_SCHEMA", "UF_HOST"}
    <2>1. CASE ab
      BY <1>11, <1>14, <2>1, CutPieces DEF ab, co, fr, to
    <2>2. CASE ~ab
      <3>1. Cut(t)[f] = <<1, 1>> /\ (FieldOf(s) = f) = FALSE
        BY <1>11, <1>14, <2>2, CutPieces DEF ab
      <3> QED
        BY <1>12, <3>1, Zenon
    <2> QED
      BY <2>1, <2>2
  <1>15. CASE f \in {"UF_PATH", "UF_QUERY", "UF_FRAGMENT"}
    BY <1>11, <1>15, CutPieces DEF tf, qm, fm, ff
  <1> QED
    BY <1>13, <1>14, <1>15 DEF Field

\* A turn of the loop takes one more character into the piece of the state it leads to, and
\* leaves the others.
Taken(p, q, was, is, n) ==
    /\ is => /\ q[2] = n + 2
             /\ was => p[1] <= n /\ p[2] = n + 1 /\ q[1] = p[1]
             /\ ~was => ~(p[1] < p[2]) /\ q[1] = n + 1
    /\ ~is => /\ p[1] < p[2] <=> q[1] < q[2]
              /\ p[1] < p[2] => q[1] = p[1] /\ q[2] = p[2]

LEMMA CutStep ==
    ASSUME NEW t \in Seq(Char), NEW ch \in Char, NEW w, w = Append(t, ch), NEW n, n = Len(t),
           NEW s, Stage(s, t), NEW r, Stage(r, w), NEW f \in Field
    PROVE  Taken(Cut(t)[f], Cut(w)[f], FieldOf(s) = f, FieldOf(r) = f, n)
  <1> DEFINE p == Cut(t)[f]
             q == Cut(w)[f]
             was == FieldOf(s) = f
             is == FieldOf(r) = f
  <1>1. n \in Nat /\ Len(w) = n + 1
    BY ReadOne
  <1>2. Shaped(p, was, n) /\ Shaped(q, is, n + 1)
    <2>1. n + 1 = Len(w) /\ w \in Seq(Char)
      BY <1>1
    <2>2. Shaped(Cut(t)[f], FieldOf(s) = f, n)
      BY StageShape
    <2>3. Shaped(Cut(w)[f], FieldOf(r) = f, n + 1)
      BY <2>1, StageShape
    <2> QED
      BY <2>2, <2>3
  <1> HIDE DEF p, q
  <1>3. CASE n > 0
    <2>1. Carried(p, q, n)
      BY <1>1, <1>3, CutCarried DEF p, q
    <2> HIDE DEF was, is
    <2>2. Taken(p, q, was, is, n)
      BY <1>1, <1>2, <2>1 DEF Carried, Shaped, Taken
    <2> QED
      BY <2>2 DEF was, is, p, q
  <1>4. CASE n = 0
    <2>1. ~was /\ ~(p[1] < p[2])
      <3>1. s = "s_req_spaces_before_url"
        BY <1>4 DEF Stage
      <3>2. FieldOf(s) = "none" /\ "none" \notin Field
        BY <3>1 DEF FieldOf, Field
      <3> QED
        BY <1>2, <1>4, <3>2 DEF Shaped
    <2> HIDE DEF was, is
    <2>2. Taken(p, q, was, is, n)
      BY <1>1, <1>2, <1>4, <2>1 DEF Shaped, Taken
    <2> QED
      BY <2>2 DEF was, is, p, q
  <1> QED
    BY <1>1, <1>3, <1>4

-----------------------------------------------------------------------------
(* What the first loop reports *)

\* u reports piece p as field f, its length unless it is too long
Says(u, f, p) ==
    /\ f \in u.field_set <=> p[1] < p[2]
    /\ p[1] < p[2] => /\ u.off[f] = p[1] - 1
                      /\ p[2] - p[1] < UINT16_RANGE => u.len[f] = p[2] - p[1]

LEMMA Small == \A k \in Nat : k < UINT16_RANGE => k % UINT16_RANGE = k
  BY RangeAssumption, SMT

\* A field that grows is a piece with one more character.
LEMMA LongerSays ==
    ASSUME NEW u \in StructType, NEW f \in Field, NEW p, NEW q, p[1] \in Nat, p[2] \in Nat,
           p[1] < p[2], q[1] = p[1], q[2] = p[2] + 1, Says(u, f, p)
    PROVE  /\ Says(Longer(u, f), f, q) /\ Longer(u, f).port = u.port
           /\ Longer(u, f).field_set = u.field_set
           /\ \A g \in Field \ {f} : \A x : Says(Longer(u, f), g, x) <=> Says(u, g, x)
  <1> DEFINE v == Longer(u, f)
  <1>1. /\ v.field_set = u.field_set /\ v.off = u.off /\ v.len = SetAt(u.len, f, u.len[f] + 1)
        /\ u.len \in [Field -> Nat]
    BY LongerKeeps, OffsNat
  <1>2. v.port = u.port
    BY DEF Longer, StructType
  <1> HIDE DEF v
  <1>3. v.len[f] = (u.len[f] + 1) % UINT16_RANGE /\ \A g \in Field \ {f} : v.len[g] = u.len[g]
    <2>1. u.len[f] + 1 \in Nat
      BY <1>1
    <2> QED
      BY <1>1, <2>1, SetAtField
  <1>4. Says(v, f, q)
    <2>1. f \in v.field_set /\ q[1] < q[2] /\ v.off[f] = q[1] - 1
      BY <1>1 DEF Says
    <2>2. q[2] - q[1] < UINT16_RANGE => v.len[f] = q[2] - q[1]
      <3> SUFFICES ASSUME q[2] - q[1] < UINT16_RANGE PROVE v.len[f] = q[2] - q[1]
        OBVIOUS
      <3> DEFINE k == q[2] - q[1]
      <3>1. k \in Nat /\ k = (p[2] - p[1]) + 1
        OBVIOUS
      <3>2. p[2] - p[1] < UINT16_RANGE
        BY RangeAssumption
      <3>3. u.len[f] + 1 = k
        BY <3>1, <3>2 DEF Says
      <3> HIDE DEF k
      <3>4. k % UINT16_RANGE = k
        BY <3>1, Small DEF k
      <3> QED
        BY <1>3, <3>3, <3>4 DEF k
    <2> QED
      BY <2>1, <2>2 DEF Says
  <1>5. \A g \in Field \ {f} : \A x : Says(v, g, x) <=> Says(u, g, x)
    BY <1>1, <1>3 DEF Says
  <1> QED
    BY <1>1, <1>2, <1>4, <1>5 DEF v

\* A field that begins is a piece of one character.
LEMMA BegunSays ==
    ASSUME NEW u \in StructType, NEW f \in Field, NEW k \in Nat, k < UINT16_RANGE,
           NEW q, q[1] = k + 1, q[2] = k + 2
    PROVE  /\ Says(Begun(u, f, k), f, q) /\ Begun(u, f, k).port = u.port
           /\ Begun(u, f, k).field_set = u.field_set \cup {f}
           /\ \A g \in Field \ {f} : \A x : Says(Begun(u, f, k), g, x) <=> Says(u, g, x)
  <1> DEFINE v == Begun(u, f, k)
             x1 == [u EXCEPT !.off[f] = k % UINT16_RANGE]
             x2 == [x1 EXCEPT !.len[f] = 1 % UINT16_RANGE]
  <1>1. /\ v.field_set = u.field_set \cup {f} /\ v.off = SetAt(u.off, f, k)
        /\ u.off \in [Field -> Nat] /\ u.len \in [Field -> Nat]
    BY BegunKeeps, OffsNat
  <1>2. v.port = u.port /\ v.len = SetAt(u.len, f, 1)
    <2>1. v = [x2 EXCEPT !.field_set = @ \cup {f}]
      BY DEF Begun
    <2>2. x1 \in StructType /\ x1.port = u.port /\ x1.len = u.len
      <3>1. k % UINT16_RANGE \in Nat
        BY Wrapped
      <3> QED
        BY <3>1 DEF StructType
    <2>3. x2 \in StructType /\ x2.port = u.port /\ x2.len = SetAt(u.len, f, 1)
      <3>1. 1 % UINT16_RANGE \in Nat
        BY Wrapped
      <3> HIDE DEF x1
      <3> QED
        BY <2>2, <3>1 DEF StructType, SetAt
    <2> HIDE DEF x2, v
    <2> QED
      BY <2>1, <2>3 DEF StructType
  <1> HIDE DEF v
  <1>3. /\ v.off[f] = k /\ v.len[f] = 1 % UINT16_RANGE
        /\ \A g \in Field \ {f} : v.off[g] = u.off[g] /\ v.len[g] = u.len[g]
    <2>1. k % UINT16_RANGE = k /\ 1 \in Nat
      BY Small
    <2>2. v.off[f] = k % UINT16_RANGE /\ \A g \in Field \ {f} : v.off[g] = u.off[g]
      <3>1. /\ SetAt(u.off, f, k)[f] = k % UINT16_RANGE
            /\ \A g \in Field \ {f} : SetAt(u.off, f, k)[g] = u.off[g]
        BY <1>1, SetAtField
      <3> QED
        BY <1>1, <3>1
    <2>3. v.len[f] = 1 % UINT16_RANGE /\ \A g \in Field \ {f} : v.len[g] = u.len[g]
      BY <1>1, <1>2, <2>1, SetAtField
    <2> QED
      BY <2>1, <2>2, <2>3
  <1>4. Says(v, f, q)
    <2>1. q[2] - q[1] = 1 /\ q[1] < q[2] /\ q[1] - 1 = k
      OBVIOUS
    <2>2. 1 < UINT16_RANGE => 1 % UINT16_RANGE = 1
      BY Small
    <2> QED
      BY <1>1, <1>3, <2>1, <2>2 DEF Says
  <1>5. \A g \in Field \ {f} : \A x : Says(v, g, x) <=> Says(u, g, x)
    BY <1>1, <1>3 DEF Says
  <1> QED
    BY <1>1, <1>2, <1>4, <1>5 DEF v

\* What the turn of the loop that accepts a character does
LEMMA UrlTurn ==
    ASSUME NEW c \in CallType, c.s \in UrlState, NEW ch, NEW s, s = parse_url_char(c.s, ch),
           s # "s_dead", NEW d, d = UrlStep(c, ch)
    PROVE  /\ d.pc = c.pc /\ d.s = s /\ d.p = c.p + 1
           /\ d.found_at <=> c.found_at \/ s = "s_req_server_with_at"
           /\ FieldOf(s) = "none" => d.u = c.u /\ d.old_uf = c.old_uf
           /\ FieldOf(s) # "none" =>
                 /\ FieldOf(s) \in Field /\ d.old_uf = FieldOf(s)
                 /\ d.u = IF FieldOf(s) = c.old_uf THEN Longer(c.u, FieldOf(s))
                          ELSE Begun(c.u, FieldOf(s), c.p)
  <1> DEFINE uf == FieldOf(s)
             at == c.found_at \/ s = "s_req_server_with_at"
             next == [c EXCEPT !.s = s, !.p = @ + 1,
                               !.found_at = @ \/ s = "s_req_server_with_at"]
             v == IF uf = c.old_uf THEN Longer(c.u, uf) ELSE Begun(c.u, uf, c.p)
  <1>1. s \in UrlState /\ (s = "s_dead" \/ Known(s)) /\ uf \in Field \cup {"none"}
    BY NextKnown, FieldType
  <1> DEFINE Kept(e, t, q, a) == /\ e \in CallType /\ e.pc = c.pc /\ e.s = t /\ e.p = q
                                 /\ e.found_at = a /\ e.u = c.u /\ e.old_uf = c.old_uf
  <1>2. \A t \in UrlState : \A q \in Nat : \A a \in BOOLEAN : \A e :
            e = [c EXCEPT !.s = t, !.p = q, !.found_at = a] => Kept(e, t, q, a)
    <2> SUFFICES ASSUME NEW t \in UrlState, NEW q \in Nat, NEW a \in BOOLEAN,
                        NEW e, e = [c EXCEPT !.s = t, !.p = q, !.found_at = a]
                 PROVE  Kept(e, t, q, a)
      OBVIOUS
    <2>1. e \in CallType
      BY DEF CallType
    <2>2. e.pc = c.pc /\ e.s = t /\ e.p = q /\ e.u = c.u /\ e.old_uf = c.old_uf
      BY DEF CallType
    <2>3. e.found_at = a
      BY DEF CallType
    <2> QED
      BY <2>1, <2>2, <2>3
  <1>3. /\ next \in CallType /\ next.pc = c.pc /\ next.s = s /\ next.p = c.p + 1
        /\ next.found_at = at /\ next.u = c.u /\ next.old_uf = c.old_uf
    <2>1. next = [c EXCEPT !.s = s, !.p = c.p + 1, !.found_at = at]
      BY Zenon DEF CallType
    <2>2. c.p + 1 \in Nat /\ at \in BOOLEAN
      BY DEF CallType
    <2>3. s \in UrlState
      BY <1>1
    <2>4. Kept(next, s, c.p + 1, at)
      <3> HIDE DEF next, at, Kept
      <3> QED
        BY <1>2, <2>1, <2>2, <2>3, Zenon
    <2> QED
      BY <2>4
  <1>4. CASE uf = "none"
    <2>1. s \in Delimiting
      BY <1>1, <1>4 DEF Known
    <2>2. d = next
      BY <2>1 DEF UrlStep, Delimiting
    <2> HIDE DEF next
    <2> QED
      BY <1>3, <1>4, <2>2
  <1>5. CASE uf # "none"
    <2>1. uf \in Field /\ s \notin Delimiting
      <3>1. s \in Delimiting => uf = "none"
        BY DEF Delimiting, FieldOf
      <3> QED
        BY <1>1, <1>5, <3>1
    <2>2. d = [next EXCEPT !.old_uf = uf, !.u = v]
      BY <1>5, <2>1 DEF UrlStep, Field
    <2> HIDE DEF next, v, uf
    <2>3. d.pc = next.pc /\ d.s = next.s /\ d.p = next.p /\ d.found_at = next.found_at
          /\ d.old_uf = uf /\ d.u = v
      BY <1>3, <2>2 DEF CallType
    <2> QED
      BY <1>3, <1>5, <2>1, <2>3 DEF v, uf
  <1> QED
    BY <1>4, <1>5

\* What the locals and the struct are when t has been read
ReadSoFar(c, t) ==
    /\ Stage(c.s, t) /\ Good(t) /\ c.p = Len(t) /\ c.u.port = 0
    /\ \A f \in Field : Says(c.u, f, Cut(t)[f])
    /\ c.old_uf \in c.u.field_set \cup {"UF_MAX"}
    /\ FieldOf(c.s) # "none" => c.old_uf = FieldOf(c.s)
    /\ c.found_at <=> Absolute(t) /\ At(t) < To(t)

\* An '@' is found in the authority when the state says so.
LEMMA AtFound ==
    ASSUME NEW t \in Seq(Char), NEW ch \in Char, NEW w, w = Append(t, ch),
           NEW s, Stage(s, t), NEW r, Stage(r, w)
    PROVE  (Absolute(w) /\ At(w) < To(w))
              <=> ((Absolute(t) /\ At(t) < To(t)) \/ r = "s_req_server_with_at")
  <1> DEFINE n == Len(t)
  <1>1. /\ n \in Nat /\ Len(w) = n + 1 /\ w[n + 1] = ch
        /\ MarksOf(t) /\ MarksOf(w) /\ MarksMove(t, ch, w)
    BY ReadOne
  <1>2. MarksOrdered(w, n + 1) /\ MarksOrdered(t, n)
    <2>1. n + 1 \in Nat
      BY <1>1
    <2> QED
      BY <1>1, <2>1, MarksInOrder
  <1>3. /\ FirstAt(t, {"@"}, From(t), At(t)) /\ FirstAt(w, {"@"}, From(w), At(w))
        /\ From(w) \in Nat /\ From(w) > 3 /\ To(w) \in Nat /\ From(t) \in Nat /\ To(t) \in Nat
    <2>1. FirstAt(t, {"@"}, From(t), At(t)) /\ FirstAt(w, {"@"}, From(w), At(w))
      BY <1>1 DEF MarksOf
    <2>2. From(w) \in Nat /\ From(w) > 3 /\ To(w) \in Nat
      BY <1>1, MarkTypes
    <2>3. From(t) \in Nat /\ To(t) \in Nat
      BY <1>1, MarkTypes
    <2> QED
      BY <2>1, <2>2, <2>3
  <1>4. /\ At(w) \in Nat /\ From(w) <= At(w) /\ At(t) \in Nat /\ From(t) <= At(t)
        /\ At(w) <= n + 1 => w[At(w)] = "@"
        /\ \A j \in From(w)..(At(w) - 1) : w[j] # "@"
    BY <1>1, <1>3 DEF FirstAt
  <1>5. CASE r = "s_req_server_with_at"
    <2>1. From(w) <= n + 1 /\ To(w) = n + 2 /\ w[n + 1] = "@" /\ Absolute(w)
      BY <1>1, <1>5 DEF Stage, SchemaStates, Server
    <2>2. At(w) <= n + 1
      BY <1>1, <1>3, <1>4, <2>1
    <2> QED
      BY <1>1, <1>4, <1>5, <2>1, <2>2
  <1>6. CASE r # "s_req_server_with_at"
    <2>1. CASE n = 0
      <3>1. ~Absolute(t)
        BY <2>1, EmptyText DEF Absolute
      <3>2. From(w) > n + 1 /\ To(w) = From(w)
        BY <1>2, <2>1 DEF MarksOrdered
      <3> QED
        BY <1>3, <1>4, <1>6, <3>1, <3>2
    <2>2. CASE n > 0
      <3>1. AllKeep(t, w, n)
        BY <2>2, MarksKeep
      <3>2. Keeps(At(t), At(w), n) /\ Keeps(To(t), To(w), n) /\ (Absolute(w) <=> Absolute(t))
        BY <3>1 DEF AllKeep
      <3>3. (From(t) > n => To(t) = From(t)) /\ (From(t) <= n + 1 => To(t) <= n + 1)
            /\ (From(w) > n + 1 => To(w) = From(w)) /\ (From(w) <= n + 2 => To(w) <= n + 2)
        BY <1>1, <1>2 DEF MarksOrdered
      <3>4. ASSUME Absolute(t), At(t) < To(t) PROVE At(w) < To(w)
        BY <1>1, <1>3, <1>4, <3>2, <3>3, <3>4 DEF Keeps
      <3>5. ASSUME Absolute(t), ~(At(t) < To(t)), At(w) < To(w) PROVE FALSE
        <4>1. At(w) = n + 1 /\ To(w) = n + 2
          BY <1>1, <1>3, <1>4, <3>2, <3>3, <3>5 DEF Keeps
        <4>2. From(w) <= n + 1 /\ ch = "@" /\ Absolute(w)
          BY <1>1, <1>4, <3>2, <3>5, <4>1
        <4>3. TargetFrom(w) = n + 2 /\ Colon(w) = From(w) - 3 /\ QueryMark(w) >= n + 2
              /\ FragmentMark(w) >= n + 2 /\ FragmentFrom(w) >= n + 2
          <5>1. Colon(w) = From(w) - 3 /\ TargetFrom(w) = n + 2
            <6>1. Colon(w) \in Nat /\ From(w) = Colon(w) + 3
              BY <1>1, MarkTypes
            <6>2. TargetFrom(w) = To(w)
              BY <1>1, <4>2 DEF MarksOf
            <6> QED
              BY <4>1, <6>1, <6>2
          <5>2. /\ QueryMark(w) \in Nat /\ TargetFrom(w) <= QueryMark(w)
                /\ FragmentMark(w) \in Nat /\ QueryMark(w) <= FragmentMark(w)
                /\ FragmentFrom(w) \in Nat /\ FragmentMark(w) <= FragmentFrom(w)
            BY <1>2 DEF MarksOrdered
          <5> QED
            BY <1>1, <5>1, <5>2
        <4>4. r = "s_req_server"
          <5>1. Colon(w) < n - 1 /\ Len(w) = n + 1 /\ From(w) \in Nat
            BY <1>1, <1>3, <4>2, <4>3
          <5>2. r \notin {"s_req_spaces_before_url", "s_req_schema", "s_req_schema_slash",
                          "s_req_schema_slash_slash", "s_req_server_start"}
            <6> DEFINE m == Len(w)
                       k == Colon(w)
            <6>1. /\ r = "s_req_spaces_before_url" <=> m = 0
                  /\ r = "s_req_schema" => k = m + 1
                  /\ r = "s_req_schema_slash" => k = m
                  /\ r = "s_req_schema_slash_slash" => k = m - 1
                  /\ r = "s_req_server_start" => k = m - 2
              BY DEF Stage
            <6>2. m = n + 1 /\ k < n - 1 /\ k \in Nat
              BY <1>2, <5>1 DEF MarksOrdered
            <6> HIDE DEF m, k
            <6> QED
              BY <1>1, <6>1, <6>2
          <5>3. r \notin TailStates
            <6> DEFINE m == Len(w)
            <6>1. /\ r = "s_req_path" => TargetFrom(w) <= m
                  /\ r = "s_req_query_string_start" => QueryMark(w) = m
                  /\ r = "s_req_query_string" => QueryMark(w) < m
                  /\ r = "s_req_fragment_start" => FragmentMark(w) <= m
                  /\ r = "s_req_fragment" => FragmentFrom(w) <= m
              BY DEF Stage
            <6>2. m = n + 1 /\ QueryMark(w) \in Nat /\ FragmentMark(w) \in Nat
                  /\ FragmentFrom(w) \in Nat
              BY <1>2, <5>1 DEF MarksOrdered
            <6> HIDE DEF m
            <6> QED
              BY <1>1, <4>3, <6>1, <6>2 DEF TailStates
          <5> QED
            BY <1>6, <5>2, <5>3 DEF Stage, UrlState, Server, TailStates
        <4>5. w[n + 1] # "@"
          BY <1>1, <4>4 DEF Stage
        <4> QED
          BY <1>1, <4>2, <4>5
      <3> QED
        BY <1>6, <3>2, <3>4, <3>5
    <2> QED
      BY <1>1, <2>1, <2>2
  <1> QED
    BY <1>5, <1>6

\* A turn of the first loop rejects a text that begins no URL; otherwise it reports the pieces
\* of the text read so far.
LEMMA ReadsOn ==
    ASSUME NEW c \in CallType, NEW t \in Seq(Char), NEW ch \in Char, NEW w, w = Append(t, ch),
           ReadSoFar(c, t), Len(w) <= UINT16_RANGE, NEW d, d = UrlStep(c, ch)
    PROVE  \/ d = Reject(c) /\ ~Good(w)
           \/ d.pc = c.pc /\ ReadSoFar(d, w)
  <1> DEFINE n == Len(t)
             r == parse_url_char(c.s, ch)
             uf == FieldOf(r)
  <1>1. n \in Nat /\ Len(w) = n + 1 /\ c.p = n /\ n < UINT16_RANGE /\ c.u \in StructType
    <2>1. n \in Nat /\ Len(w) = n + 1
      BY ReadOne
    <2>2. UINT16_RANGE \in Nat
      BY RangeAssumption
    <2> QED
      BY <2>1, <2>2 DEF ReadSoFar, CallType
  <1>2. Stage(c.s, t) /\ Good(t) /\ c.s \in UrlState
    BY DEF ReadSoFar, Stage
  <1>3. StepStage(c.s, t, ch, w)
    BY <1>2, StageSteps
  <1>4. CASE r = "s_dead"
    <2>1. d = Reject(c)
      BY <1>4 DEF UrlStep, Delimiting
    <2> QED
      BY <1>3, <1>4, <2>1 DEF StepStage
  <1>5. CASE r # "s_dead"
    <2>1. Stage(r, w) /\ Good(w)
      BY <1>3, <1>5 DEF StepStage
    <2>2. /\ d.pc = c.pc /\ d.s = r /\ d.p = n + 1
          /\ d.found_at <=> c.found_at \/ r = "s_req_server_with_at"
          /\ uf = "none" => d.u = c.u /\ d.old_uf = c.old_uf
          /\ uf # "none" => /\ uf \in Field /\ d.old_uf = uf
                            /\ d.u = IF uf = c.old_uf THEN Longer(c.u, uf) ELSE Begun(c.u, uf, n)
      BY <1>1, <1>2, <1>5, UrlTurn
    <2> HIDE DEF r
    <2>3. \A f \in Field : Taken(Cut(t)[f], Cut(w)[f], FieldOf(c.s) = f, uf = f, n)
      BY <1>2, <2>1, CutStep
    <2>4. \A f \in Field : Shaped(Cut(t)[f], FieldOf(c.s) = f, n)
      BY <1>2, StageShape
    <2>5. d.found_at <=> Absolute(w) /\ At(w) < To(w)
      <3>1. c.found_at <=> Absolute(t) /\ At(t) < To(t)
        BY DEF ReadSoFar
      <3> QED
        BY <1>2, <2>1, <2>2, <3>1, AtFound
    <2>6. \A f \in Field : Says(c.u, f, Cut(t)[f])
      BY DEF ReadSoFar
    <2>7. /\ d.u.port = 0 /\ \A f \in Field : Says(d.u, f, Cut(w)[f])
          /\ d.old_uf \in d.u.field_set \cup {"UF_MAX"}
          /\ uf # "none" => d.old_uf = uf
      <3> DEFINE v == c.u
      <3>0. v.port = 0 /\ c.old_uf \in v.field_set \cup {"UF_MAX"}
        BY DEF ReadSoFar
      <3>1. ASSUME NEW f \in Field, uf # f PROVE Says(v, f, Cut(w)[f])
        <4>1. Taken(Cut(t)[f], Cut(w)[f], FieldOf(c.s) = f, FALSE, n)
          BY <2>3, <3>1
        <4>2. Says(v, f, Cut(t)[f])
          BY <2>6
        <4> HIDE DEF v
        <4> QED
          BY <4>1, <4>2 DEF Taken, Says
      <3>2. CASE uf = "none"
        <4>1. "none" \notin Field
          BY DEF Field
        <4> QED
          BY <2>2, <3>0, <3>1, <3>2, <4>1
      <3>3. CASE uf # "none"
        <4>1. uf \in Field
          BY <2>2, <3>3
        <4>2. Taken(Cut(t)[uf], Cut(w)[uf], FieldOf(c.s) = uf, TRUE, n)
          BY <2>3, <4>1
        <4> DEFINE p == Cut(t)[uf]
                   q == Cut(w)[uf]
        <4>3. Says(v, uf, p) /\ p[1] \in Nat /\ p[2] \in Nat
          BY <2>4, <2>6, <4>1 DEF Shaped
        <4>4. CASE FieldOf(c.s) = uf
          <5>1. c.old_uf = uf
            BY <3>3, <4>4 DEF ReadSoFar
          <5>2. p[1] <= n /\ p[2] = n + 1 /\ q[1] = p[1] /\ q[2] = n + 2
            BY <4>2, <4>4 DEF Taken
          <5>3. p[1] < p[2] /\ q[2] = p[2] + 1
            BY <1>1, <4>3, <5>2
          <5>4. d.u = Longer(v, uf)
            BY <2>2, <3>3, <5>1
          <5> HIDE DEF p, q
          <5>5. /\ Says(d.u, uf, q) /\ d.u.port = v.port /\ d.u.field_set = v.field_set
                /\ \A g \in Field \ {uf} : \A x : Says(d.u, g, x) <=> Says(v, g, x)
            BY <1>1, <4>1, <4>3, <5>2, <5>3, <5>4, LongerSays
          <5>6. uf \in v.field_set
            BY <4>3, <5>3 DEF Says
          <5> HIDE DEF v, uf
          <5> QED
            BY <2>2, <3>0, <3>1, <3>3, <5>5, <5>6 DEF q
        <4>5. CASE FieldOf(c.s) # uf
          <5>1. ~(p[1] < p[2]) /\ q[1] = n + 1 /\ q[2] = n + 2
            BY <4>2, <4>5 DEF Taken
          <5>2. c.old_uf # uf
            <6>1. uf \notin v.field_set
              BY <4>3, <5>1 DEF Says
            <6>2. uf # "UF_MAX"
              BY <4>1 DEF Field
            <6> QED
              BY <3>0, <6>1, <6>2
          <5>3. d.u = Begun(v, uf, n)
            BY <2>2, <3>3, <5>2
          <5> HIDE DEF p, q
          <5>4. /\ Says(d.u, uf, q) /\ d.u.port = v.port /\ d.u.field_set = v.field_set \cup {uf}
                /\ \A g \in Field \ {uf} : \A x : Says(d.u, g, x) <=> Says(v, g, x)
            BY <1>1, <4>1, <5>1, <5>3, BegunSays
          <5> HIDE DEF v, uf
          <5> QED
            BY <2>2, <3>0, <3>1, <3>3, <5>4 DEF q
        <4> QED
          BY <4>4, <4>5
      <3> QED
        BY <3>2, <3>3
    <2> QED
      BY <1>1, <2>1, <2>2, <2>5, <2>7 DEF ReadSoFar
  <1> QED
    BY <1>4, <1>5

-----------------------------------------------------------------------------
(* The parts of an authority *)

\* Where the zone of an address in brackets begins, at its "%"
Zone(t) == Earlier(First(t, {"%"}, HostFrom(t) + 1), HostTo(t))
HostLo(t) == IF Bracketed(t) THEN HostFrom(t) + 1 ELSE HostFrom(t)

HostEnder(t) == IF Bracketed(t) THEN "]" ELSE ":"

\* The marks of an authority, and what stands between them
HostMarks(t) ==
    /\ From(t) \in Nat /\ From(t) > 3 /\ To(t) \in Nat /\ To(t) <= Len(t) + 1
    /\ HostFrom(t) \in Nat /\ From(t) <= HostFrom(t) /\ HostFrom(t) <= To(t)
    /\ HostTo(t) \in Nat /\ HostFrom(t) <= HostTo(t) /\ HostTo(t) <= To(t)
    /\ HostFrom(t) > From(t) => At(t) = HostFrom(t) - 1 /\ t[HostFrom(t) - 1] = "@"
    /\ HostFrom(t) > From(t) <=> At(t) < To(t)
    /\ \A j \in From(t)..(HostFrom(t) - 2) : t[j] # "@"
    /\ HostTo(t) < To(t) => t[HostTo(t)] = HostEnder(t)
    /\ \A j \in HostFrom(t)..(HostTo(t) - 1) : t[j] # HostEnder(t)
    /\ Bracketed(t) <=> HostFrom(t) < To(t) /\ t[HostFrom(t)] = "["
    /\ HostLo(t) = (IF Bracketed(t) THEN HostFrom(t) + 1 ELSE HostFrom(t))
    /\ Bracketed(t) => /\ HostFrom(t) < HostTo(t)
                       /\ Zone(t) \in Nat /\ HostFrom(t) < Zone(t) /\ Zone(t) <= HostTo(t)
                       /\ Zone(t) < HostTo(t) => t[Zone(t)] = "%"
                       /\ \A j \in (HostFrom(t) + 1)..(Zone(t) - 1) : t[j] # "%"
    /\ PortFrom(t) = IF Bracketed(t) THEN HostTo(t) + 2 ELSE HostTo(t) + 1

\* The first ch from i on, or j if that is earlier
EndsAt(t, ch, i, j, e) ==
    /\ e \in Nat /\ i <= e /\ e <= j
    /\ e < j => t[e] = ch
    /\ \A x \in i..(e - 1) : t[x] # ch

LEMMA EarlierAt ==
    ASSUME NEW t, Len(t) \in Nat, NEW ch, NEW i, NEW j, i \in Nat, j \in Nat,
           i <= j, j <= Len(t) + 1
    PROVE  EndsAt(t, ch, i, j, Earlier(First(t, {ch}, i), j))
  <1> DEFINE k == First(t, {ch}, i)
             e == Earlier(k, j)
  <1>1. FirstAt(t, {ch}, i, k)
    BY FirstFound
  <1> HIDE DEF k
  <1>2. /\ k \in Nat /\ i <= k /\ (k <= Len(t) => t[k] = ch)
        /\ \A x \in i..(k - 1) : t[x] # ch
    BY <1>1 DEF FirstAt
  <1>3. e = IF k < j THEN k ELSE j
    BY DEF Earlier
  <1> HIDE DEF e
  <1>4. e \in Nat /\ e <= k /\ i <= e /\ e <= j /\ (e < j => e = k /\ k <= Len(t))
    BY <1>2, <1>3
  <1>5. \A x \in i..(e - 1) : t[x] # ch
    <2>1. \A x \in i..(e - 1) : x \in i..(k - 1)
      BY <1>2, <1>4
    <2> QED
      BY <1>2, <2>1
  <1>6. EndsAt(t, ch, i, j, e)
    BY <1>2, <1>4, <1>5 DEF EndsAt
  <1> QED
    BY <1>6 DEF e, k

LEMMA HostMarksFound ==
    ASSUME NEW t \in Seq(Char), From(t) <= Len(t) + 1 PROVE HostMarks(t)
  <1> DEFINE n == Len(t)
             a == From(t)
             b == To(t)
             h == HostFrom(t)
             e == HostTo(t)
             z == Zone(t)
  <1>1. n \in Nat /\ a \in Nat /\ a > 3 /\ b \in Nat /\ a <= b /\ b <= n + 1
    <2>1. MarksOrdered(t, n) /\ n \in Nat
      BY MarksInOrder
    <2> QED
      BY <2>1 DEF MarksOrdered
  <1>2. FirstAt(t, {"@"}, a, At(t))
    BY <1>1, MarksFound DEF MarksOf
  <1>3. /\ At(t) \in Nat /\ a <= At(t) /\ (At(t) <= n => t[At(t)] = "@")
        /\ \A j \in a..(At(t) - 1) : t[j] # "@"
    BY <1>2 DEF FirstAt
  <1>4. h = IF At(t) < b THEN At(t) + 1 ELSE a
    BY DEF HostFrom, From, To
  <1>5. h \in Nat /\ a <= h /\ h <= b /\ (h > a <=> At(t) < b) /\ (h > a => At(t) = h - 1)
    BY <1>1, <1>3, <1>4
  <1>6. (h > a => t[h - 1] = "@") /\ \A j \in a..(h - 2) : t[j] # "@"
    BY <1>1, <1>3, <1>4, <1>5
  <1>7. Bracketed(t) <=> h < b /\ t[h] = "["
    BY DEF Bracketed, To
  <1> DEFINE ender == IF Bracketed(t) THEN "]" ELSE ":"
  <1>8. e = Earlier(First(t, {ender}, h), b)
    BY DEF HostTo, To
  <1> HIDE DEF ender, a, b, h, e, z
  <1>9. /\ e \in Nat /\ h <= e /\ e <= b /\ (e < b => t[e] = ender)
        /\ \A x \in h..(e - 1) : t[x] # ender
    <2>1. b <= Len(t) + 1 /\ Len(t) \in Nat /\ h \in Nat /\ b \in Nat /\ h <= b
      BY <1>1, <1>5
    <2>2. EndsAt(t, ender, h, b, e)
      BY <1>8, <2>1, EarlierAt
    <2> QED
      BY <2>2 DEF EndsAt
  <1>10. ASSUME Bracketed(t)
         PROVE  /\ h < e /\ z \in Nat /\ h < z /\ z <= e
                /\ z < e => t[z] = "%"
                /\ \A j \in (h + 1)..(z - 1) : t[j] # "%"
    <2>1. h < e
      <3>1. ender = "]"
        BY <1>10 DEF ender
      <3>2. h < b /\ t[h] = "["
        BY <1>7, <1>10
      <3> QED
        BY <1>5, <1>9, <3>1, <3>2
    <2> DEFINE i == h + 1
    <2>2. i \in Nat /\ i <= e /\ e <= Len(t) + 1 /\ Len(t) \in Nat
      BY <1>1, <1>5, <1>9, <2>1
    <2>3. z = Earlier(First(t, {"%"}, i), e)
      BY DEF Zone, z, e, h
    <2>4. e \in Nat
      BY <1>9
    <2> HIDE DEF i
    <2>5. z \in Nat /\ i <= z /\ z <= e /\ (z < e => t[z] = "%") /\ \A x \in i..(z - 1) : t[x] # "%"
      <3>1. EndsAt(t, "%", i, e, z)
        BY <2>2, <2>3, <2>4, EarlierAt
      <3> QED
        BY <3>1 DEF EndsAt
    <2> QED
      BY <1>5, <2>1, <2>5 DEF i
  <1>11. ender = HostEnder(t)
    BY DEF HostEnder, ender
  <1>12. PortFrom(t) = IF Bracketed(t) THEN e + 2 ELSE e + 1
    BY DEF PortFrom, e
  <1>13. HostLo(t) = IF Bracketed(t) THEN h + 1 ELSE h
    BY DEF HostLo, h
  <1> QED
    BY <1>1, <1>5, <1>6, <1>7, <1>9, <1>10, <1>11, <1>12, <1>13 DEF HostMarks, a, b, h, e, z

UserOK(t) == Of(t, <<From(t), HostFrom(t) - 1>>, UserinfoChar)

HostOK(t) ==
    IF ~Bracketed(t) THEN HostFrom(t) < HostTo(t) /\ Of(t, <<HostFrom(t), HostTo(t)>>, HostChar)
    ELSE /\ HostFrom(t) + 1 < HostTo(t) /\ HostTo(t) < To(t)
         /\ HostFrom(t) + 1 < Zone(t) /\ Of(t, <<HostFrom(t) + 1, Zone(t)>>, V6Char)
         /\ Zone(t) < HostTo(t) => /\ Zone(t) + 1 < HostTo(t)
                                   /\ Of(t, <<Zone(t) + 1, HostTo(t)>>, ZoneChar)

PortOK(t) ==
    \/ PortFrom(t) = To(t) + 1
    \/ /\ t[PortFrom(t) - 1] = ":" /\ PortFrom(t) < To(t)
       /\ Of(t, <<PortFrom(t), To(t)>>, Digit) /\ Number(t, PortFrom(t) - 1) < UINT16_RANGE

LEMMA UrlPieces ==
    ASSUME NEW t, Absolute(t)
    PROVE  /\ Pieces(t)["UF_SCHEMA"] = <<1, Colon(t)>>
           /\ Pieces(t)["UF_USERINFO"] = <<From(t), HostFrom(t) - 1>>
           /\ Pieces(t)["UF_HOST"] = <<HostLo(t), HostTo(t)>>
           /\ Pieces(t)["UF_PORT"] = <<PortFrom(t), To(t)>>
  <1>1. \A f \in Field : Pieces(t)[f] =
        CASE ~Absolute(t) /\ f \in {"UF_SCHEMA", "UF_USERINFO", "UF_HOST", "UF_PORT"} -> <<1, 1>>
          [] Absolute(t) /\ f = "UF_SCHEMA"   -> <<1, Colon(t)>>
          [] Absolute(t) /\ f = "UF_USERINFO" -> <<From(t), HostFrom(t) - 1>>
          [] Absolute(t) /\ f = "UF_HOST"     -> <<HostLo(t), HostTo(t)>>
          [] Absolute(t) /\ f = "UF_PORT"     -> <<PortFrom(t), To(t)>>
          [] f = "UF_PATH"                    -> <<TargetFrom(t), QueryMark(t)>>
          [] f = "UF_QUERY"                   -> <<QueryMark(t) + 1, FragmentMark(t)>>
          [] f = "UF_FRAGMENT"                -> <<FragmentFrom(t), Len(t) + 1>>
    BY DEF Pieces, From, To, HostLo
  <1> QED
    BY <1>1 DEF Field

LEMMA CutIsPiece ==
    ASSUME NEW t, NEW f \in Field,
           ~Absolute(t) \/ f \in {"UF_SCHEMA", "UF_PATH", "UF_QUERY", "UF_FRAGMENT"}
    PROVE  Pieces(t)[f] = Cut(t)[f]
  <1>1. ~Absolute(t) => Pieces(t)["UF_USERINFO"] = <<1, 1>> /\ Pieces(t)["UF_HOST"] = <<1, 1>>
                        /\ Pieces(t)["UF_PORT"] = <<1, 1>>
    BY DEF Pieces, Field
  <1>2. f \in {"UF_SCHEMA", "UF_PATH", "UF_QUERY", "UF_FRAGMENT"} => Cut(t)[f] = Pieces(t)[f]
    BY DEF Cut
  <1>3. CASE f \in {"UF_USERINFO", "UF_HOST", "UF_PORT"}
    BY <1>1, <1>3, CutPieces
  <1> QED
    BY <1>2, <1>3 DEF Field

LEMMA NameIs ==
    ASSUME NEW t \in Seq(Char), From(t) <= Len(t) + 1, Absolute(t)
    PROVE  /\ IsHostName(t, Pieces(t)["UF_HOST"]) <=> HostOK(t)
           /\ IsPort(t, Pieces(t)["UF_PORT"]) <=> PortOK(t)
  <1>1. HostMarks(t)
    BY HostMarksFound
  <1>2. /\ HostFrom(t) \in Nat /\ HostTo(t) \in Nat /\ To(t) \in Nat /\ PortFrom(t) \in Nat
        /\ Bracketed(t) => Zone(t) \in Nat
    BY <1>1 DEF HostMarks
  <1> DEFINE lo == HostLo(t)
             e == HostTo(t)
             x == Earlier(First(t, {"%"}, lo), e)
  <1>3. lo \in Nat /\ lo = (IF Bracketed(t) THEN HostFrom(t) + 1 ELSE HostFrom(t))
    BY <1>2 DEF HostLo
  <1>4. Bracketed(t) => x = Zone(t)
    BY <1>3 DEF Zone
  <1>5. \A i \in Nat, j \in Nat : (~Empty(<<i, j>>)) <=> i < j
    BY DEF Empty
  <1>6. IsHostName(t, <<lo, e>>) <=>
          /\ ~Empty(<<lo, e>>)
          /\ IF ~Bracketed(t) THEN Of(t, <<lo, e>>, HostChar)
             ELSE /\ HostTo(t) < To(t)
                  /\ ~Empty(<<lo, x>>) /\ Of(t, <<lo, x>>, V6Char)
                  /\ x < e => /\ ~Empty(<<x + 1, e>>)
                              /\ Of(t, <<x + 1, e>>, ZoneChar)
    BY DEF IsHostName, To
  <1>7. IsHostName(t, <<lo, e>>) <=> HostOK(t)
    <2> HIDE DEF lo, x
    <2>1. CASE ~Bracketed(t)
      BY <1>2, <1>3, <1>5, <1>6, <2>1 DEF HostOK
    <2>2. CASE Bracketed(t)
      <3>1. x = Zone(t) /\ lo = HostFrom(t) + 1 /\ Zone(t) \in Nat
        BY <1>2, <1>3, <1>4, <2>2
      <3>2. Zone(t) + 1 \in Nat
        BY <3>1
      <3> QED
        BY <1>2, <1>3, <1>5, <1>6, <2>2, <3>1, <3>2 DEF HostOK
    <2> QED
      BY <2>1, <2>2
  <1>8. IsPort(t, <<PortFrom(t), To(t)>>) <=> PortOK(t)
    BY <1>2, <1>5 DEF IsPort, PortOK, To
  <1> QED
    BY <1>7, <1>8, UrlPieces

LEMMA UrlIs ==
    ASSUME NEW t \in Seq(Char), Absolute(t)
    PROVE  /\ From(t) > Len(t) => ~IsUrl(t)
           /\ From(t) <= Len(t) =>
                (IsUrl(t) <=> /\ Of(t, <<1, Colon(t)>>, Alpha)
                              /\ t[From(t) - 2] = "/" /\ t[From(t) - 1] = "/"
                              /\ UserOK(t) /\ HostOK(t) /\ PortOK(t)
                              /\ Of(t, <<TargetFrom(t), Len(t) + 1>>, Char \ {"SP"}))
  <1>1. Len(t) \in Nat /\ From(t) \in Nat
    <2>1. Len(t) \in Nat /\ MarksOrdered(t, Len(t))
      BY MarksInOrder
    <2> QED
      BY <2>1 DEF MarksOrdered
  <1>2. CASE From(t) > Len(t)
    BY <1>1, <1>2 DEF IsUrl, From
  <1>3. CASE From(t) <= Len(t)
    <2>1. /\ IsHostName(t, Pieces(t)["UF_HOST"]) <=> HostOK(t)
          /\ IsPort(t, Pieces(t)["UF_PORT"]) <=> PortOK(t)
      <3>1. From(t) <= Len(t) + 1
        BY <1>1, <1>3
      <3> QED
        BY <3>1, NameIs
    <2>2. /\ Pieces(t)["UF_SCHEMA"] = <<1, Colon(t)>>
          /\ Pieces(t)["UF_USERINFO"] = <<From(t), HostFrom(t) - 1>>
      BY UrlPieces
    <2>3. IsUrl(t) <=> /\ Of(t, Pieces(t)["UF_SCHEMA"], Alpha)
                       /\ From(t) <= Len(t)
                       /\ t[From(t) - 2] = "/" /\ t[From(t) - 1] = "/"
                       /\ Of(t, Pieces(t)["UF_USERINFO"], UserinfoChar)
                       /\ IsHostName(t, Pieces(t)["UF_HOST"])
                       /\ IsPort(t, Pieces(t)["UF_PORT"])
                       /\ Of(t, <<TargetFrom(t), Len(t) + 1>>, Char \ {"SP"})
      BY DEF IsUrl, From
    <2>4. UserOK(t) <=> Of(t, Pieces(t)["UF_USERINFO"], UserinfoChar)
      BY <2>2 DEF UserOK
    <2>5. Of(t, Pieces(t)["UF_SCHEMA"], Alpha) <=> Of(t, <<1, Colon(t)>>, Alpha)
      BY <2>2
    <2> QED
      BY <1>1, <1>3, <2>1, <2>3, <2>4, <2>5
  <1> QED
    BY <1>1, <1>2, <1>3

\* What stands in the authority of a URL
LEMMA AuthorityChars ==
    ASSUME NEW t, Len(t) \in Nat, HostMarks(t), UserOK(t), HostOK(t), PortOK(t),
           NEW k \in From(t)..(To(t) - 1)
    PROVE  t[k] \in UserinfoChar \cup {"[", "]"} \/ (t[k] = "@" /\ k = HostFrom(t) - 1)
  <1> DEFINE a == From(t)
             b == To(t)
             h == HostFrom(t)
             e == HostTo(t)
             z == Zone(t)
             p == PortFrom(t)
             OK == UserinfoChar \cup {"[", "]"}
  <1>1. /\ a \in Nat /\ b \in Nat /\ h \in Nat /\ e \in Nat /\ a <= h /\ h <= e /\ e <= b
        /\ h > a => t[h - 1] = "@"
        /\ e < b => t[e] = HostEnder(t)
        /\ Bracketed(t) => t[h] = "[" /\ h < e /\ z \in Nat /\ h < z /\ z <= e
                           /\ (z < e => t[z] = "%")
        /\ p = IF Bracketed(t) THEN e + 2 ELSE e + 1
    BY DEF HostMarks
  <1>2. /\ UserinfoChar \subseteq OK /\ HostChar \subseteq OK /\ V6Char \subseteq OK
        /\ ZoneChar \subseteq OK /\ Digit \subseteq OK /\ {":", "%", "[", "]"} \subseteq OK
    BY DEF UserinfoChar, HostChar, V6Char, ZoneChar, Alpha
  <1>3. /\ \A x \in a..(h - 2) : t[x] \in UserinfoChar
    <2>1. \A x \in a..((h - 1) - 1) : t[x] \in UserinfoChar
      BY PieceOf DEF UserOK
    <2>2. (h - 1) - 1 = h - 2
      BY <1>1
    <2> QED
      BY <2>1, <2>2
  <1>4. k \in Nat /\ a <= k /\ k < b
    BY <1>1
  <1>5. CASE k < h
    <2>1. k \in a..(h - 2) \/ (k = h - 1 /\ h > a)
      <3>1. a \in Nat /\ h \in Nat
        BY <1>1
      <3> HIDE DEF a, h
      <3> QED
        BY <1>4, <1>5, <3>1
    <2>2. CASE k \in a..(h - 2)
      BY <1>3, <2>2
    <2>3. CASE k = h - 1 /\ h > a
      BY <1>1, <2>3
    <2> QED
      BY <2>1, <2>2, <2>3
  <1>6. ASSUME k >= h, k < e PROVE t[k] \in OK
    <2>1. CASE ~Bracketed(t)
      <3>1. \A x \in h..(e - 1) : t[x] \in HostChar
        BY <2>1, PieceOf DEF HostOK
      <3>2. h \in Nat /\ e \in Nat
        BY <1>1
      <3> HIDE DEF OK, h, e
      <3>3. k \in h..(e - 1)
        BY <1>4, <1>6, <3>2
      <3> QED
        BY <1>2, <3>1, <3>3
    <2>2. CASE Bracketed(t)
      <3>1. \A x \in (h + 1)..(z - 1) : t[x] \in V6Char
        BY <2>2, PieceOf DEF HostOK
      <3>2. z < e => \A x \in (z + 1)..(e - 1) : t[x] \in ZoneChar
        BY <2>2, PieceOf DEF HostOK
      <3>3. k = h \/ k \in (h + 1)..(z - 1) \/ k = z \/ k \in (z + 1)..(e - 1)
        <4>1. h \in Nat /\ z \in Nat /\ e \in Nat
          BY <1>1, <2>2
        <4> HIDE DEF h, z, e
        <4> QED
          BY <1>4, <1>6, <4>1
      <3>4. k = h => t[k] = "["
        BY <1>1, <2>2
      <3>5. k = z => t[k] = "%"
        BY <1>1, <1>6, <2>2
      <3>6. k \in (z + 1)..(e - 1) => z < e
        BY <1>1, <2>2
      <3> HIDE DEF OK, a, b, h, e, z, p
      <3>7. CASE k = h \/ k = z
        BY <1>2, <3>4, <3>5, <3>7
      <3>8. CASE k \in (h + 1)..(z - 1)
        BY <1>2, <3>1, <3>8
      <3>9. CASE k \in (z + 1)..(e - 1)
        BY <1>2, <3>2, <3>6, <3>9
      <3> QED
        BY <3>3, <3>7, <3>8, <3>9
    <2> QED
      BY <2>1, <2>2
  <1>7. ASSUME k >= e PROVE t[k] \in OK
    <2>1. k = e => t[k] \in {":", "]"}
      BY <1>1, <1>4 DEF HostEnder
    <2>2. CASE p = b + 1
      <3>1. k = e
        BY <1>1, <1>4, <1>7, <2>2
      <3> QED
        BY <1>2, <2>1, <3>1
    <2>3. CASE p # b + 1
      <3>1. t[p - 1] = ":" /\ \A x \in p..(b - 1) : t[x] \in Digit
        BY <2>3, PieceOf DEF PortOK
      <3>2. k = e \/ k = p - 1 \/ k \in p..(b - 1)
        BY <1>1, <1>4, <1>7
      <3> QED
        BY <1>2, <2>1, <3>1, <3>2
    <2> QED
      BY <2>2, <2>3
  <1> QED
    BY <1>1, <1>4, <1>5, <1>6, <1>7

\* A URL begins like one.
LEMMA UrlIsGood ==
    ASSUME NEW t \in Seq(Char), IsUrl(t) PROVE Good(t)
  <1>1. Len(t) \in Nat /\ MarksOrdered(t, Len(t))
    BY MarksInOrder
  <1>2. Of(t, <<TargetFrom(t), Len(t) + 1>>, Char \ {"SP"})
    BY DEF IsUrl
  <1>3. ~Absolute(t) /\ Len(t) > 0 => t[1] \in {"/", "*"}
    BY DEF IsUrl
  <1>4. ASSUME Absolute(t)
        PROVE  /\ Of(t, <<1, Colon(t)>>, Alpha)
               /\ t[Colon(t) + 1] = "/" /\ t[Colon(t) + 2] = "/"
               /\ Of(t, <<From(t), To(t)>>, AuthorityChar)
               /\ ~Doubled(t, From(t), To(t))
    <2>1. From(t) <= Len(t) /\ From(t) = Colon(t) + 3 /\ Colon(t) \in Nat
      <3>1. From(t) = Colon(t) + 3 /\ Colon(t) \in Nat /\ From(t) \in Nat
        BY <1>1 DEF MarksOrdered
      <3>2. ~(From(t) > Len(t))
        BY <1>4, UrlIs
      <3> QED
        BY <1>1, <3>1, <3>2
    <2>2. /\ Of(t, <<1, Colon(t)>>, Alpha)
          /\ t[From(t) - 2] = "/" /\ t[From(t) - 1] = "/"
          /\ UserOK(t) /\ HostOK(t) /\ PortOK(t)
      BY <1>4, <2>1, UrlIs
    <2>3. t[Colon(t) + 1] = "/" /\ t[Colon(t) + 2] = "/"
      BY <2>1, <2>2
    <2>4. HostMarks(t)
      <3>1. From(t) <= Len(t) + 1
        BY <1>1, <2>1
      <3> QED
        BY <3>1, HostMarksFound
    <2>5. \A k \in From(t)..(To(t) - 1) :
             t[k] \in UserinfoChar \cup {"[", "]"} \/ (t[k] = "@" /\ k = HostFrom(t) - 1)
      BY <1>1, <2>2, <2>4, AuthorityChars
    <2>6. Of(t, <<From(t), To(t)>>, AuthorityChar)
      BY <2>5, PieceOf DEF AuthorityChar
    <2>7. ~Doubled(t, From(t), To(t))
      <3> SUFFICES ASSUME NEW k \in From(t)..(To(t) - 2), t[k] = "@", t[k + 1] = "@" PROVE FALSE
        BY DEF Doubled
      <3>1. From(t) \in Nat /\ To(t) \in Nat /\ HostFrom(t) \in Nat
        BY <2>4 DEF HostMarks
      <3>2. k \in From(t)..(To(t) - 1) /\ k + 1 \in From(t)..(To(t) - 1)
        BY <3>1
      <3>3. "@" \notin UserinfoChar \cup {"[", "]"}
        BY DEF UserinfoChar, Alpha, Digit
      <3>4. k = HostFrom(t) - 1 /\ k + 1 = HostFrom(t) - 1
        BY <2>5, <3>2, <3>3
      <3> QED
        BY <3>1, <3>4
    <2> QED
      BY <2>2, <2>3, <2>6, <2>7
  <1> QED
    BY <1>2, <1>3, <1>4 DEF Good

\* What is left to look at once the first loop has read the text
LEMMA GoodIsUrl ==
    ASSUME NEW t \in Seq(Char), Good(t)
    PROVE  /\ ~Absolute(t) => IsUrl(t)
           /\ Absolute(t) /\ From(t) <= Len(t) => (IsUrl(t) <=> UserOK(t) /\ HostOK(t) /\ PortOK(t))
  <1>1. Len(t) \in Nat /\ MarksOrdered(t, Len(t))
    BY MarksInOrder
  <1>2. ASSUME ~Absolute(t) PROVE IsUrl(t)
    <2>1. t # <<>> => Len(t) > 0
      BY <1>1, EmptyText
    <2> QED
      BY <1>2, <2>1 DEF Good, IsUrl
  <1>3. ASSUME Absolute(t), From(t) <= Len(t)
        PROVE  IsUrl(t) <=> UserOK(t) /\ HostOK(t) /\ PortOK(t)
    <2>1. From(t) = Colon(t) + 3 /\ Colon(t) \in Nat
      BY <1>1 DEF MarksOrdered
    <2>2. Colon(t) + 1 <= Len(t) /\ Colon(t) + 2 <= Len(t) /\ From(t) - 2 = Colon(t) + 1
          /\ From(t) - 1 = Colon(t) + 2
      BY <1>1, <1>3, <2>1
    <2>3. Of(t, <<1, Colon(t)>>, Alpha) /\ t[From(t) - 2] = "/" /\ t[From(t) - 1] = "/"
          /\ Of(t, <<TargetFrom(t), Len(t) + 1>>, Char \ {"SP"})
      BY <1>3, <2>2 DEF Good
    <2> QED
      BY <1>3, <2>3, UrlIs
  <1> QED
    BY <1>2, <1>3

-----------------------------------------------------------------------------
(* What the second loop knows of the authority it has read *)

UserStates == {"s_http_userinfo_start", "s_http_userinfo"}
NameStates == {"s_http_host", "s_http_host_v6", "s_http_host_v6_zone_start",
               "s_http_host_v6_zone"}

\* Where each state stands between the marks of the authority, x being read next
HostStage(s, t, x) ==
    LET h == HostFrom(t)
        z == Zone(t)
    IN
    /\ s \in HostState \ {"s_http_host_dead"} /\ x \in Nat /\ x <= To(t)
    /\ s = "s_http_userinfo_start" => x = From(t) /\ x < h
    /\ s = "s_http_userinfo" => From(t) < x /\ x < h /\ Of(t, <<From(t), x>>, UserinfoChar)
    /\ s \notin UserStates => UserOK(t)
    /\ s = "s_http_host_start" => x = h
    /\ s = "s_http_host" => /\ ~Bracketed(t) /\ h < x /\ x <= HostTo(t)
                            /\ Of(t, <<h, x>>, HostChar)
    /\ s \in V6 => Bracketed(t)
    /\ s = "s_http_host_v6_start" => x = h + 1
    /\ s = "s_http_host_v6" => h + 1 < x /\ x <= z /\ Of(t, <<h + 1, x>>, V6Char)
    /\ s \in {"s_http_host_v6_zone_start", "s_http_host_v6_zone"} =>
          h + 1 < z /\ Of(t, <<h + 1, z>>, V6Char) /\ x <= HostTo(t)
    /\ s = "s_http_host_v6_zone_start" => x = z + 1
    /\ s = "s_http_host_v6_zone" => z + 1 < x /\ Of(t, <<z + 1, x>>, ZoneChar)
    /\ s = "s_http_host_v6_end" => x = HostTo(t) + 1 /\ HostOK(t)
    /\ s \in {"s_http_host_port_start", "s_http_host_port"} =>
          t[PortFrom(t) - 1] = ":" /\ HostOK(t)
    /\ s = "s_http_host_port_start" => x = PortFrom(t)
    /\ s = "s_http_host_port" => PortFrom(t) < x /\ Of(t, <<PortFrom(t), x>>, Digit)

AllOK(t) == UserOK(t) /\ HostOK(t) /\ PortOK(t)

\* A turn from s to r at x: a character that cannot follow spoils the URL, another belongs
\* to the piece that it lies in.
HostTurns(s, r, t, x) ==
    /\ r = "s_http_host_dead" => ~AllOK(t)
    /\ r # "s_http_host_dead" =>
          /\ HostStage(r, t, x + 1)
          /\ r = "s_http_userinfo" <=> x < HostFrom(t) - 1
          /\ r \in NameStates <=> HostLo(t) <= x /\ x < HostTo(t)
          /\ r = "s_http_host_port" <=> PortFrom(t) <= x
          /\ r = "s_http_userinfo" => (r # s <=> x = From(t))
          /\ r \in {"s_http_host", "s_http_host_v6"} => (r # s <=> x = HostLo(t))
          /\ r \in {"s_http_host_v6_zone_start", "s_http_host_v6_zone"} => x > HostLo(t)
          /\ r = "s_http_host_port" => (r # s <=> x = PortFrom(t))

LEMMA OfMore ==
    ASSUME NEW t, NEW i, NEW x, i \in Nat, x \in Nat, NEW cs, t[x] \in cs, Of(t, <<i, x>>, cs)
    PROVE  Of(t, <<i, x + 1>>, cs)
  <1>1. \A k \in i..(x - 1) : t[k] \in cs
    BY PieceOf
  <1>2. \A k \in i..((x + 1) - 1) : k \in i..(x - 1) \/ k = x
    OBVIOUS
  <1> QED
    BY <1>1, <1>2, PieceOf

LEMMA OfNone ==
    ASSUME NEW t, NEW i, i \in Nat, NEW cs PROVE Of(t, <<i, i>>, cs)
  BY PieceOf

LEMMA OfEach ==
    ASSUME NEW t, NEW i, NEW j, NEW k, i \in Nat, j \in Nat, k \in Nat, i <= k, k < j,
           NEW cs, Of(t, <<i, j>>, cs)
    PROVE  t[k] \in cs
  BY PieceOf

LEMMA HostChars ==
    /\ "@" \notin UserinfoChar /\ "[" \notin HostChar /\ ":" \notin HostChar
    /\ "]" \notin V6Char /\ "%" \notin V6Char /\ "]" \notin ZoneChar
  BY DEF UserinfoChar, HostChar, V6Char, ZoneChar, Alpha, Digit

\* In the user information
LEMMA UserTurn ==
    ASSUME NEW t, HostMarks(t), NEW x, NEW s, HostStage(s, t, x), x < To(t), s \in UserStates,
           NEW r, r = http_parse_host_char(s, t[x])
    PROVE  HostTurns(s, r, t, x)
  <1> DEFINE a == From(t)
             h == HostFrom(t)
  <1>1. /\ a \in Nat /\ h \in Nat /\ a <= h /\ h <= To(t) /\ To(t) \in Nat
        /\ h > a => t[h - 1] = "@"
        /\ \A j \in a..(h - 2) : t[j] # "@"
        /\ HostLo(t) \in Nat /\ h <= HostLo(t) /\ PortFrom(t) \in Nat /\ h < PortFrom(t)
    BY DEF HostMarks
  <1>2. /\ x \in Nat /\ a <= x /\ x < h /\ Of(t, <<a, x>>, UserinfoChar)
        /\ s = "s_http_userinfo_start" => x = a
        /\ s = "s_http_userinfo" => a < x
    <2>1. CASE s = "s_http_userinfo_start"
      BY <1>1, <2>1, OfNone DEF HostStage
    <2>2. CASE s = "s_http_userinfo"
      BY <1>1, <2>2 DEF HostStage
    <2> QED
      BY <2>1, <2>2 DEF UserStates
  <1>3. r = IF t[x] = "@" THEN "s_http_host_start"
            ELSE IF t[x] \in UserinfoChar THEN "s_http_userinfo" ELSE "s_http_host_dead"
    BY HostChars DEF http_parse_host_char, UserStates
  <1>4. t[x] = "@" <=> x = h - 1
    BY <1>1, <1>2
  <1> DEFINE y == x + 1
  <1>5. y \in Nat /\ y <= To(t) /\ a < y
    BY <1>1, <1>2
  <1> HIDE DEF y
  <1>6. CASE t[x] = "@"
    <2>1. y = h /\ x = h - 1 /\ r = "s_http_host_start"
      BY <1>1, <1>2, <1>3, <1>4, <1>6 DEF y
    <2>2. UserOK(t)
      BY <1>2, <2>1 DEF UserOK
    <2>3. HostStage(r, t, y)
      BY <1>5, <2>1, <2>2 DEF HostStage, HostState, UserStates, V6
    <2> QED
      BY <1>1, <1>2, <2>1, <2>3 DEF HostTurns, NameStates, y
  <1>7. CASE t[x] # "@" /\ t[x] \in UserinfoChar
    <2>1. y < h /\ x < h - 1 /\ r = "s_http_userinfo"
      BY <1>1, <1>2, <1>3, <1>4, <1>7 DEF y
    <2>2. Of(t, <<a, y>>, UserinfoChar)
      BY <1>1, <1>2, <1>7, OfMore DEF y
    <2>3. HostStage(r, t, y)
      BY <1>5, <2>1, <2>2 DEF HostStage, HostState, UserStates, V6
    <2>4. r # s <=> x = a
      BY <1>2, <2>1 DEF UserStates
    <2> QED
      BY <1>1, <1>2, <2>1, <2>3, <2>4 DEF HostTurns, NameStates, y
  <1>8. CASE t[x] # "@" /\ t[x] \notin UserinfoChar
    <2>1. x < h - 1 /\ h - 1 \in Nat
      BY <1>1, <1>2, <1>4, <1>8
    <2>2. ~UserOK(t)
      BY <1>1, <1>2, <1>8, <2>1, OfEach DEF UserOK
    <2> QED
      BY <1>3, <1>8, <2>2 DEF HostTurns, AllOK
  <1> QED
    BY <1>6, <1>7, <1>8

\* At the beginning of the host
LEMMA StartTurn ==
    ASSUME NEW t, HostMarks(t), NEW x, NEW s, HostStage(s, t, x), x < To(t),
           s = "s_http_host_start", NEW r, r = http_parse_host_char(s, t[x])
    PROVE  HostTurns(s, r, t, x)
  <1> DEFINE h == HostFrom(t)
             e == HostTo(t)
             p == PortFrom(t)
             lo == HostLo(t)
             br == Bracketed(t)
  <1>1. /\ h \in Nat /\ To(t) \in Nat /\ e \in Nat /\ h <= e /\ e <= To(t) /\ p \in Nat /\ e < p
        /\ e < To(t) => t[e] = HostEnder(t)
        /\ br <=> h < To(t) /\ t[h] = "["
        /\ lo = IF br THEN h + 1 ELSE h
    BY DEF HostMarks
  <1>2. x = h /\ UserOK(t)
    BY DEF HostStage, UserStates
  <1>3. r = IF t[x] = "[" THEN "s_http_host_v6_start"
            ELSE IF t[x] \in HostChar THEN "s_http_host" ELSE "s_http_host_dead"
    BY HostChars DEF http_parse_host_char
  <1> DEFINE y == x + 1
  <1>4. y \in Nat /\ y <= To(t) /\ y = h + 1
    BY <1>1, <1>2
  <1> HIDE DEF y
  <1>5. CASE t[x] = "["
    <2>1. br /\ r = "s_http_host_v6_start" /\ lo > x
      BY <1>1, <1>2, <1>3, <1>5
    <2>2. HostStage(r, t, y)
      BY <1>2, <1>4, <2>1 DEF HostStage, HostState, UserStates, V6
    <2> QED
      BY <1>1, <1>2, <2>1, <2>2 DEF HostTurns, NameStates, y
  <1>6. CASE t[x] # "[" /\ t[x] \in HostChar
    <2>1. ~br /\ r = "s_http_host" /\ lo = x
      BY <1>1, <1>2, <1>3, <1>6
    <2>2. x < e
      <3>1. t[x] # HostEnder(t)
        BY <1>6, <2>1, HostChars DEF HostEnder
      <3> QED
        BY <1>1, <1>2, <3>1
    <2>3. Of(t, <<h, y>>, HostChar)
      BY <1>1, <1>2, <1>6, OfNone, OfMore DEF y
    <2>4. HostStage(r, t, y)
      BY <1>1, <1>2, <1>4, <2>1, <2>2, <2>3 DEF HostStage, HostState, UserStates, V6
    <2> QED
      BY <1>1, <1>2, <2>1, <2>2, <2>4 DEF HostTurns, NameStates, y
  <1>7. CASE t[x] # "[" /\ t[x] \notin HostChar
    <2>1. ~br
      BY <1>1, <1>2, <1>7
    <2>2. ~HostOK(t)
      BY <1>1, <1>2, <1>7, <2>1, OfEach DEF HostOK
    <2> QED
      BY <1>3, <1>7, <2>2 DEF HostTurns, AllOK
  <1> QED
    BY <1>5, <1>6, <1>7

\* In a host without brackets
LEMMA NameTurn ==
    ASSUME NEW t, HostMarks(t), NEW x, NEW s, HostStage(s, t, x), x < To(t),
           s = "s_http_host", NEW r, r = http_parse_host_char(s, t[x])
    PROVE  HostTurns(s, r, t, x)
  <1> DEFINE h == HostFrom(t)
             e == HostTo(t)
             p == PortFrom(t)
             lo == HostLo(t)
  <1>1. /\ h \in Nat /\ To(t) \in Nat /\ e \in Nat /\ h <= e /\ e <= To(t)
        /\ e < To(t) => t[e] = HostEnder(t)
        /\ \A j \in h..(e - 1) : t[j] # HostEnder(t)
        /\ ~Bracketed(t) => lo = h /\ p = e + 1
    BY DEF HostMarks
  <1>2. ~Bracketed(t) /\ x \in Nat /\ h < x /\ x <= e /\ Of(t, <<h, x>>, HostChar) /\ UserOK(t)
    BY DEF HostStage, UserStates
  <1>3. lo = h /\ p = e + 1 /\ HostEnder(t) = ":" /\ p - 1 = e
    BY <1>1, <1>2 DEF HostEnder
  <1>4. r = IF t[x] = ":" THEN "s_http_host_port_start"
            ELSE IF t[x] \in HostChar THEN "s_http_host" ELSE "s_http_host_dead"
    BY HostChars DEF http_parse_host_char
  <1>5. t[x] = ":" <=> x = e
    BY <1>1, <1>2, <1>3
  <1> DEFINE y == x + 1
  <1>6. y \in Nat /\ y <= To(t)
    BY <1>1, <1>2
  <1> HIDE DEF y
  <1>7. CASE t[x] = ":"
    <2>1. x = e /\ y = p /\ r = "s_http_host_port_start" /\ t[p - 1] = ":"
      BY <1>3, <1>4, <1>5, <1>7 DEF y
    <2>2. HostOK(t)
      BY <1>2, <2>1 DEF HostOK
    <2>3. HostStage(r, t, y)
      BY <1>2, <1>6, <2>1, <2>2 DEF HostStage, HostState, UserStates, V6
    <2> QED
      BY <1>1, <1>2, <1>3, <2>1, <2>3 DEF HostTurns, NameStates, y
  <1>8. CASE t[x] # ":" /\ t[x] \in HostChar
    <2>1. x < e /\ y <= e /\ h < y /\ r = "s_http_host"
      BY <1>1, <1>2, <1>4, <1>5, <1>8 DEF y
    <2>2. Of(t, <<h, y>>, HostChar)
      BY <1>1, <1>2, <1>8, OfMore DEF y
    <2>3. HostStage(r, t, y)
      BY <1>2, <1>6, <2>1, <2>2 DEF HostStage, HostState, UserStates, V6
    <2> QED
      BY <1>1, <1>2, <1>3, <2>1, <2>3 DEF HostTurns, NameStates, y
  <1>9. CASE t[x] # ":" /\ t[x] \notin HostChar
    <2>1. x < e
      BY <1>1, <1>2, <1>5, <1>9
    <2>2. ~HostOK(t)
      BY <1>1, <1>2, <1>9, <2>1, OfEach DEF HostOK
    <2> QED
      BY <1>4, <1>9, <2>2 DEF HostTurns, AllOK
  <1> QED
    BY <1>7, <1>8, <1>9

\* In an address in brackets, before its zone
LEMMA V6Turn ==
    ASSUME NEW t, HostMarks(t), NEW x, NEW s, HostStage(s, t, x), x < To(t),
           s \in {"s_http_host_v6_start", "s_http_host_v6"},
           NEW r, r = http_parse_host_char(s, t[x])
    PROVE  HostTurns(s, r, t, x)
  <1> DEFINE h == HostFrom(t)
             e == HostTo(t)
             z == Zone(t)
             p == PortFrom(t)
             lo == HostLo(t)
  <1>1. Bracketed(t) /\ UserOK(t) /\ x \in Nat
    BY DEF HostStage, UserStates, V6
  <1>2. /\ h \in Nat /\ To(t) \in Nat /\ e \in Nat /\ h < e /\ e <= To(t)
        /\ e < To(t) => t[e] = "]"
        /\ \A j \in h..(e - 1) : t[j] # "]"
        /\ lo = h + 1 /\ p = e + 2
        /\ z \in Nat /\ h < z /\ z <= e /\ (z < e => t[z] = "%")
        /\ \A j \in (h + 1)..(z - 1) : t[j] # "%"
    BY <1>1 DEF HostMarks, HostEnder
  <1>3. /\ h + 1 <= x /\ Of(t, <<h + 1, x>>, V6Char) /\ x <= z
        /\ s = "s_http_host_v6_start" => x = h + 1
        /\ s = "s_http_host_v6" => h + 1 < x
    <2>1. CASE s = "s_http_host_v6_start"
      <3>1. x = h + 1 /\ h + 1 \in Nat
        BY <1>2, <2>1 DEF HostStage
      <3> QED
        BY <1>2, <2>1, <3>1, OfNone
    <2>2. CASE s = "s_http_host_v6"
      BY <1>2, <2>2 DEF HostStage
    <2> QED
      BY <2>1, <2>2
  <1>4. /\ t[x] = "]" <=> x = e
        /\ t[x] = "%" => x = z
        /\ x = z /\ x # e => t[x] = "%"
    BY <1>1, <1>2, <1>3
  <1>5. r = IF t[x] = "]" /\ s = "s_http_host_v6" THEN "s_http_host_v6_end"
            ELSE IF t[x] = "%" /\ s = "s_http_host_v6" THEN "s_http_host_v6_zone_start"
            ELSE IF t[x] \in V6Char THEN "s_http_host_v6" ELSE "s_http_host_dead"
    BY HostChars DEF http_parse_host_char
  <1> DEFINE y == x + 1
  <1>6. y \in Nat /\ y <= To(t)
    BY <1>1, <1>2
  <1> HIDE DEF y
  <1>7. CASE t[x] = "]" /\ s = "s_http_host_v6"
    <2>1. x = e /\ z = e /\ y = e + 1 /\ r = "s_http_host_v6_end" /\ h + 1 < e /\ e < To(t)
      BY <1>1, <1>2, <1>3, <1>4, <1>5, <1>7 DEF y
    <2>2. HostOK(t)
      BY <1>1, <1>2, <1>3, <2>1 DEF HostOK
    <2>3. HostStage(r, t, y)
      BY <1>1, <1>6, <2>1, <2>2 DEF HostStage, HostState, UserStates, V6
    <2> QED
      BY <1>1, <1>2, <2>1, <2>3 DEF HostTurns, NameStates, y
  <1>8. CASE t[x] = "%" /\ s = "s_http_host_v6"
    <2>1. x = z /\ z < e /\ y = z + 1 /\ r = "s_http_host_v6_zone_start" /\ h + 1 < z /\ y <= e
      BY <1>1, <1>2, <1>3, <1>4, <1>5, <1>8 DEF y
    <2>2. Of(t, <<h + 1, z>>, V6Char)
      BY <1>3, <2>1
    <2>3. HostStage(r, t, y)
      BY <1>1, <1>6, <2>1, <2>2 DEF HostStage, HostState, UserStates, V6
    <2> QED
      BY <1>1, <1>2, <2>1, <2>3 DEF HostTurns, NameStates, y
  <1>9. CASE t[x] \in V6Char
    <2>1. t[x] # "]" /\ t[x] # "%"
      BY <1>9, HostChars
    <2>2. x < z /\ y <= z /\ h + 1 < y /\ r = "s_http_host_v6"
      BY <1>1, <1>2, <1>3, <1>4, <1>5, <1>9, <2>1 DEF y
    <2>3. Of(t, <<h + 1, y>>, V6Char)
      <3>1. h + 1 \in Nat
        BY <1>2
      <3> QED
        BY <1>1, <1>3, <1>9, <3>1, OfMore DEF y
    <2>4. HostStage(r, t, y)
      BY <1>1, <1>6, <2>2, <2>3 DEF HostStage, HostState, UserStates, V6
    <2>5. r # s <=> x = lo
      BY <1>2, <1>3, <2>2
    <2> QED
      BY <1>1, <1>2, <1>3, <2>2, <2>4, <2>5 DEF HostTurns, NameStates, y
  <1>10. CASE /\ t[x] \notin V6Char
              /\ ~(t[x] = "]" /\ s = "s_http_host_v6") /\ ~(t[x] = "%" /\ s = "s_http_host_v6")
    <2>1. r = "s_http_host_dead"
      BY <1>5, <1>10
    <2>2. ~HostOK(t)
      <3> SUFFICES ASSUME HostOK(t) PROVE FALSE
        OBVIOUS
      <3>1. h + 1 < z /\ Of(t, <<h + 1, z>>, V6Char)
        BY <1>1 DEF HostOK
      <3>2. x < z
        BY <1>1, <1>2, <1>3, <1>4, <1>10, <3>1
      <3>3. h + 1 \in Nat
        BY <1>2
      <3> QED
        BY <1>1, <1>2, <1>3, <1>10, <3>1, <3>2, <3>3, OfEach
    <2> QED
      BY <2>1, <2>2 DEF HostTurns, AllOK
  <1> QED
    BY <1>7, <1>8, <1>9, <1>10

\* In the zone of an address
LEMMA ZoneTurn ==
    ASSUME NEW t, HostMarks(t), NEW x, NEW s, HostStage(s, t, x), x < To(t),
           s \in {"s_http_host_v6_zone_start", "s_http_host_v6_zone"},
           NEW r, r = http_parse_host_char(s, t[x])
    PROVE  HostTurns(s, r, t, x)
  <1> DEFINE h == HostFrom(t)
             e == HostTo(t)
             z == Zone(t)
             p == PortFrom(t)
             lo == HostLo(t)
  <1>1. Bracketed(t) /\ UserOK(t) /\ x \in Nat
    BY DEF HostStage, UserStates, V6
  <1>2. /\ h \in Nat /\ To(t) \in Nat /\ e \in Nat /\ h < e /\ e <= To(t)
        /\ e < To(t) => t[e] = "]"
        /\ \A j \in h..(e - 1) : t[j] # "]"
        /\ lo = h + 1 /\ p = e + 2
        /\ z \in Nat /\ h < z /\ z <= e
    BY <1>1 DEF HostMarks, HostEnder
  <1>3. /\ z + 1 <= x /\ x <= e /\ Of(t, <<z + 1, x>>, ZoneChar)
        /\ h + 1 < z /\ Of(t, <<h + 1, z>>, V6Char)
        /\ s = "s_http_host_v6_zone_start" => x = z + 1
        /\ s = "s_http_host_v6_zone" => z + 1 < x
    <2>1. CASE s = "s_http_host_v6_zone_start"
      <3>1. x = z + 1 /\ z + 1 \in Nat
        BY <1>2, <2>1 DEF HostStage
      <3>2. Of(t, <<z + 1, x>>, ZoneChar)
        BY <3>1, OfNone
      <3> QED
        BY <1>2, <2>1, <3>1, <3>2 DEF HostStage
    <2>2. CASE s = "s_http_host_v6_zone"
      BY <1>2, <2>2 DEF HostStage
    <2> QED
      BY <2>1, <2>2
  <1>4. t[x] = "]" <=> x = e
    BY <1>1, <1>2, <1>3
  <1>5. r = IF t[x] = "]" /\ s = "s_http_host_v6_zone" THEN "s_http_host_v6_end"
            ELSE IF t[x] \in ZoneChar THEN "s_http_host_v6_zone" ELSE "s_http_host_dead"
    BY HostChars DEF http_parse_host_char
  <1> DEFINE y == x + 1
  <1>6. y \in Nat /\ y <= To(t)
    BY <1>1, <1>2
  <1> HIDE DEF y
  <1>7. CASE t[x] = "]" /\ s = "s_http_host_v6_zone"
    <2>1. x = e /\ y = e + 1 /\ r = "s_http_host_v6_end" /\ z + 1 < e /\ e < To(t) /\ h + 1 < e
      BY <1>1, <1>2, <1>3, <1>4, <1>5, <1>7 DEF y
    <2>2. HostOK(t)
      BY <1>1, <1>2, <1>3, <2>1 DEF HostOK
    <2>3. HostStage(r, t, y)
      BY <1>1, <1>6, <2>1, <2>2 DEF HostStage, HostState, UserStates, V6
    <2> QED
      BY <1>1, <1>2, <2>1, <2>3 DEF HostTurns, NameStates, y
  <1>8. CASE t[x] \in ZoneChar
    <2>1. t[x] # "]"
      BY <1>8, HostChars
    <2>2. x < e /\ y <= e /\ z + 1 < y /\ r = "s_http_host_v6_zone"
      BY <1>1, <1>2, <1>3, <1>4, <1>5, <1>8, <2>1 DEF y
    <2>3. Of(t, <<z + 1, y>>, ZoneChar)
      <3>1. z + 1 \in Nat
        BY <1>2
      <3> QED
        BY <1>1, <1>3, <1>8, <3>1, OfMore DEF y
    <2>4. HostStage(r, t, y)
      BY <1>1, <1>3, <1>6, <2>2, <2>3 DEF HostStage, HostState, UserStates, V6
    <2> QED
      BY <1>1, <1>2, <1>3, <2>2, <2>4 DEF HostTurns, NameStates, y
  <1>9. CASE t[x] \notin ZoneChar /\ ~(t[x] = "]" /\ s = "s_http_host_v6_zone")
    <2>1. r = "s_http_host_dead"
      BY <1>5, <1>9
    <2>2. ~HostOK(t)
      <3> SUFFICES ASSUME HostOK(t) PROVE FALSE
        OBVIOUS
      <3>1. z < e
        BY <1>1, <1>2, <1>3
      <3>2. z + 1 < e /\ Of(t, <<z + 1, e>>, ZoneChar)
        BY <1>1, <3>1 DEF HostOK
      <3>3. x < e
        BY <1>1, <1>2, <1>3, <1>4, <1>9, <3>2
      <3>4. z + 1 \in Nat
        BY <1>2
      <3> QED
        BY <1>1, <1>2, <1>3, <1>9, <3>2, <3>3, <3>4, OfEach
    <2> QED
      BY <2>1, <2>2 DEF HostTurns, AllOK
  <1> QED
    BY <1>7, <1>8, <1>9

\* Behind the address
LEMMA EndTurn ==
    ASSUME NEW t, HostMarks(t), NEW x, NEW s, HostStage(s, t, x), x < To(t),
           s = "s_http_host_v6_end", NEW r, r = http_parse_host_char(s, t[x])
    PROVE  HostTurns(s, r, t, x)
  <1> DEFINE h == HostFrom(t)
             e == HostTo(t)
             p == PortFrom(t)
  <1>1. Bracketed(t) /\ UserOK(t) /\ x \in Nat /\ x = e + 1 /\ HostOK(t)
    BY DEF HostStage, UserStates, V6
  <1>2. /\ h \in Nat /\ To(t) \in Nat /\ e \in Nat /\ h < e /\ p = e + 2
    BY <1>1 DEF HostMarks
  <1>3. r = IF t[x] = ":" THEN "s_http_host_port_start" ELSE "s_http_host_dead"
    BY DEF http_parse_host_char
  <1> DEFINE y == x + 1
  <1>4. y \in Nat /\ y <= To(t) /\ y = p /\ p - 1 = x
    BY <1>1, <1>2
  <1> HIDE DEF y
  <1>5. CASE t[x] = ":"
    <2>1. r = "s_http_host_port_start"
      BY <1>3, <1>5
    <2>2. HostStage(r, t, y)
      BY <1>1, <1>4, <1>5, <2>1 DEF HostStage, HostState, UserStates, V6
    <2> QED
      BY <1>1, <1>2, <2>1, <2>2 DEF HostTurns, NameStates, y
  <1>6. CASE t[x] # ":"
    <2>1. ~PortOK(t)
      BY <1>1, <1>2, <1>4, <1>6 DEF PortOK
    <2> QED
      BY <1>3, <1>6, <2>1 DEF HostTurns, AllOK
  <1> QED
    BY <1>5, <1>6

\* In the port
LEMMA PortTurn ==
    ASSUME NEW t, HostMarks(t), NEW x, NEW s, HostStage(s, t, x), x < To(t),
           s \in {"s_http_host_port_start", "s_http_host_port"},
           NEW r, r = http_parse_host_char(s, t[x])
    PROVE  HostTurns(s, r, t, x)
  <1> DEFINE h == HostFrom(t)
             e == HostTo(t)
             p == PortFrom(t)
  <1>1. UserOK(t) /\ x \in Nat /\ t[p - 1] = ":" /\ HostOK(t)
    BY DEF HostStage, UserStates
  <1>2. /\ h \in Nat /\ To(t) \in Nat /\ e \in Nat /\ h <= e /\ p \in Nat /\ e < p
    BY DEF HostMarks
  <1>3. /\ p <= x /\ Of(t, <<p, x>>, Digit)
        /\ s = "s_http_host_port_start" => x = p
        /\ s = "s_http_host_port" => p < x
    <2>1. CASE s = "s_http_host_port_start"
      BY <1>2, <2>1, OfNone DEF HostStage
    <2>2. CASE s = "s_http_host_port"
      BY <1>2, <2>2 DEF HostStage
    <2> QED
      BY <2>1, <2>2
  <1>4. r = IF t[x] \in Digit THEN "s_http_host_port" ELSE "s_http_host_dead"
    BY DEF http_parse_host_char
  <1> DEFINE y == x + 1
  <1>5. y \in Nat /\ y <= To(t) /\ p < y
    BY <1>1, <1>2, <1>3
  <1> HIDE DEF y
  <1>6. CASE t[x] \in Digit
    <2>1. r = "s_http_host_port"
      BY <1>4, <1>6
    <2>2. Of(t, <<p, y>>, Digit)
      BY <1>1, <1>2, <1>3, <1>6, OfMore DEF y
    <2>3. HostStage(r, t, y)
      BY <1>1, <1>5, <2>1, <2>2 DEF HostStage, HostState, UserStates, V6
    <2>4. r # s <=> x = p
      BY <1>2, <1>3, <2>1
    <2>5. HostFrom(t) - 1 < x /\ e < x
      BY <1>1, <1>2, <1>3
    <2> QED
      BY <1>1, <1>2, <1>3, <2>1, <2>3, <2>4, <2>5 DEF HostTurns, NameStates, y
  <1>7. CASE t[x] \notin Digit
    <2>1. ~PortOK(t)
      BY <1>1, <1>2, <1>3, <1>7, OfEach DEF PortOK
    <2> QED
      BY <1>4, <1>7, <2>1 DEF HostTurns, AllOK
  <1> QED
    BY <1>6, <1>7

LEMMA HostTurn ==
    ASSUME NEW t, HostMarks(t), NEW x, NEW s, HostStage(s, t, x), x < To(t),
           NEW r, r = http_parse_host_char(s, t[x])
    PROVE  HostTurns(s, r, t, x)
  <1>1. s \in HostState \ {"s_http_host_dead"}
    BY DEF HostStage
  <1>2. CASE s \in UserStates
    BY <1>2, UserTurn
  <1>3. CASE s \in {"s_http_host_v6_start", "s_http_host_v6"}
    BY <1>3, V6Turn
  <1>4. CASE s \in {"s_http_host_v6_zone_start", "s_http_host_v6_zone"}
    BY <1>4, ZoneTurn
  <1>5. CASE s \in {"s_http_host_port_start", "s_http_host_port"}
    BY <1>5, PortTurn
  <1>6. CASE s \in {"s_http_host_start", "s_http_host", "s_http_host_v6_end"}
    BY <1>6, StartTurn, NameTurn, EndTurn
  <1> QED
    BY <1>1, <1>2, <1>3, <1>4, <1>5, <1>6 DEF HostState, UserStates

\* Whether the authority may end in s
HostLeft(s, t) ==
    /\ s \in {"s_http_host", "s_http_host_v6_end"} =>
          UserOK(t) /\ HostOK(t) /\ PortFrom(t) = To(t) + 1
    /\ s = "s_http_host_port" =>
          /\ UserOK(t) /\ HostOK(t) /\ t[PortFrom(t) - 1] = ":" /\ PortFrom(t) < To(t)
          /\ Of(t, <<PortFrom(t), To(t)>>, Digit)
    /\ s \notin {"s_http_host", "s_http_host_v6_end", "s_http_host_port"} => ~AllOK(t)

LEMMA HostEnds ==
    ASSUME NEW t, HostMarks(t), NEW s, HostStage(s, t, To(t)) PROVE HostLeft(s, t)
  <1> DEFINE x == To(t)
             h == HostFrom(t)
             e == HostTo(t)
             z == Zone(t)
             p == PortFrom(t)
             br == Bracketed(t)
  <1>1. /\ h \in Nat /\ x \in Nat /\ e \in Nat /\ h <= e /\ e <= x
        /\ e < x => t[e] = HostEnder(t)
        /\ br => h < x /\ z \in Nat /\ z <= e
        /\ p = IF br THEN e + 2 ELSE e + 1
    BY DEF HostMarks
  <1>2. s \in HostState \ {"s_http_host_dead"}
    BY DEF HostStage
  <1>3. CASE s \in UserStates
    BY <1>1, <1>3 DEF HostStage, UserStates
  <1>4. CASE s = "s_http_host_start"
    <2>1. h = x /\ ~br /\ e = x
      BY <1>1, <1>4 DEF HostStage, Bracketed, To
    <2> QED
      BY <1>1, <1>4, <2>1 DEF HostLeft, AllOK, HostOK
  <1>5. CASE s = "s_http_host"
    <2>1. ~br /\ h < x /\ x <= e /\ Of(t, <<h, x>>, HostChar) /\ UserOK(t)
      BY <1>5 DEF HostStage, UserStates
    <2>2. x = e /\ p = x + 1
      BY <1>1, <2>1
    <2> QED
      BY <1>5, <2>1, <2>2 DEF HostLeft, HostOK
  <1>6. CASE s \in {"s_http_host_v6_start", "s_http_host_v6", "s_http_host_v6_zone_start",
                    "s_http_host_v6_zone"}
    <2>1. br
      BY <1>6 DEF HostStage, V6
    <2>2. s # "s_http_host_v6_start" => x <= e
      <3>1. s = "s_http_host_v6" => x <= z
        BY DEF HostStage
      <3>2. s \in {"s_http_host_v6_zone_start", "s_http_host_v6_zone"} => x <= e
        BY DEF HostStage
      <3> QED
        BY <1>1, <1>6, <2>1, <3>1, <3>2
    <2>3. s = "s_http_host_v6_start" => x = h + 1
      BY DEF HostStage
    <2>4. ~HostOK(t)
      BY <1>1, <1>6, <2>1, <2>2, <2>3 DEF HostOK
    <2> QED
      BY <1>6, <2>4 DEF HostLeft, AllOK
  <1>7. CASE s = "s_http_host_v6_end"
    <2>1. br /\ x = e + 1 /\ HostOK(t) /\ UserOK(t)
      BY <1>7 DEF HostStage, V6, UserStates
    <2>2. p = x + 1
      BY <1>1, <2>1
    <2> QED
      BY <1>7, <2>1, <2>2 DEF HostLeft
  <1>8. CASE s = "s_http_host_port_start"
    <2>1. x = p
      BY <1>8 DEF HostStage
    <2>2. ~PortOK(t)
      BY <1>1, <2>1 DEF PortOK
    <2> QED
      BY <1>8, <2>2 DEF HostLeft, AllOK
  <1>9. CASE s = "s_http_host_port"
    BY <1>9 DEF HostStage, UserStates, HostLeft
  <1> QED
    BY <1>2, <1>3, <1>4, <1>5, <1>6, <1>7, <1>8, <1>9 DEF HostState, UserStates

-----------------------------------------------------------------------------
(* What the second loop reports *)

\* v is u but for field f
Apart(u, v, f) ==
    /\ v.port = u.port
    /\ \A g \in Field \ {f} : /\ g \in v.field_set <=> g \in u.field_set
                              /\ v.off[g] = u.off[g] /\ v.len[g] = u.len[g]

LEMMA ApartSays ==
    ASSUME NEW u, NEW v, NEW f, Apart(u, v, f), NEW g \in Field, g # f, NEW p
    PROVE  Says(v, g, p) <=> Says(u, g, p)
  BY DEF Apart, Says

LEMMA LongerApart ==
    ASSUME NEW u \in StructType, NEW f \in Field
    PROVE  Apart(u, Longer(u, f), f) /\ Longer(u, f).len[f] = (u.len[f] + 1) % UINT16_RANGE
           /\ Longer(u, f).off[f] = u.off[f] /\ Longer(u, f).field_set = u.field_set
  <1> DEFINE v == Longer(u, f)
  <1>1. /\ v.field_set = u.field_set /\ v.off = u.off /\ v.len = SetAt(u.len, f, u.len[f] + 1)
        /\ u.len \in [Field -> Nat]
    BY LongerKeeps, OffsNat
  <1>2. v.port = u.port
    BY DEF Longer, StructType
  <1> HIDE DEF v
  <1>3. u.len[f] + 1 \in Nat
    BY <1>1
  <1>4. v.len[f] = (u.len[f] + 1) % UINT16_RANGE /\ \A g \in Field \ {f} : v.len[g] = u.len[g]
    BY <1>1, <1>3, SetAtField
  <1> QED
    BY <1>1, <1>2, <1>4 DEF Apart, v

LEMMA MovedApart ==
    ASSUME NEW u \in StructType, NEW f \in Field, NEW k \in Nat, k < UINT16_RANGE
    PROVE  /\ Moved(u, f, k) \in StructType /\ Apart(u, Moved(u, f, k), f)
           /\ Moved(u, f, k).off[f] = k /\ Moved(u, f, k).len = u.len
           /\ Moved(u, f, k).field_set = u.field_set
  <1> DEFINE v == Moved(u, f, k)
  <1>1. /\ v.field_set = u.field_set /\ v.len = u.len /\ v.off = SetAt(u.off, f, k)
        /\ u.off \in [Field -> Nat] /\ v \in StructType
    BY MovedKeeps, OffsNat, StructTypes
  <1>2. v.port = u.port
    BY DEF Moved, StructType
  <1> HIDE DEF v
  <1>3. v.off[f] = k /\ \A g \in Field \ {f} : v.off[g] = u.off[g]
    <2>1. k % UINT16_RANGE = k
      BY Small
    <2> QED
      BY <1>1, <2>1, SetAtField
  <1> QED
    BY <1>1, <1>2, <1>3 DEF Apart, v

LEMMA ClearedApart ==
    ASSUME NEW u \in StructType, NEW f \in Field
    PROVE  /\ Cleared(u, f) \in StructType /\ Apart(u, Cleared(u, f), f)
           /\ Cleared(u, f).off = u.off /\ Cleared(u, f).len[f] = 0
           /\ Cleared(u, f).field_set = u.field_set \cup {f}
  <1> DEFINE v == Cleared(u, f)
             x == [u EXCEPT !.len[f] = 0]
  <1>1. x \in StructType /\ x.len = [u.len EXCEPT ![f] = 0] /\ x.off = u.off
        /\ x.field_set = u.field_set /\ x.port = u.port /\ u.len \in [Field -> Nat]
    BY DEF StructType
  <1>2. v = [x EXCEPT !.field_set = @ \cup {f}]
    BY DEF Cleared
  <1> HIDE DEF v, x
  <1>3. v \in StructType /\ v.len = x.len /\ v.off = x.off /\ v.port = x.port
        /\ v.field_set = x.field_set \cup {f}
    BY <1>1, <1>2 DEF StructType
  <1>4. v.len[f] = 0 /\ \A g \in Field \ {f} : v.len[g] = u.len[g]
    BY <1>1, <1>3
  <1> QED
    BY <1>1, <1>3, <1>4 DEF Apart, v

\* The first character of a field that is empty
LEMMA FirstSays ==
    ASSUME NEW u \in StructType, NEW f \in u.field_set, u.len[f] = 0, NEW k \in Nat,
           u.off[f] = k, NEW q, q[1] = k + 1, q[2] = k + 2
    PROVE  Says(Longer(u, f), f, q) /\ Apart(u, Longer(u, f), f)
           /\ Longer(u, f).field_set = u.field_set
  <1>1. f \in Field
    BY DEF StructType
  <1> DEFINE v == Longer(u, f)
  <1>2. /\ Apart(u, v, f) /\ v.len[f] = (0 + 1) % UINT16_RANGE
        /\ v.off[f] = k /\ v.field_set = u.field_set
    BY <1>1, LongerApart
  <1> HIDE DEF v
  <1>3. q[2] - q[1] = 1 /\ q[1] < q[2] /\ q[1] - 1 = k /\ 0 + 1 = 1
    OBVIOUS
  <1>4. 1 < UINT16_RANGE => 1 % UINT16_RANGE = 1
    BY Small
  <1>5. Says(v, f, q)
    BY <1>2, <1>3, <1>4 DEF Says
  <1> QED
    BY <1>2, <1>5 DEF v

LEMMA ApartTwice ==
    ASSUME NEW u, NEW v, NEW w, NEW f, Apart(u, v, f), Apart(v, w, f) PROVE Apart(u, w, f)
  BY DEF Apart

\* A host that begins at offset k, or goes on, and the two fields that are made where they begin
LEMMA HostFieldMoved ==
    ASSUME NEW u \in StructType, NEW f \in u.field_set, u.len[f] = 0, NEW k \in Nat,
           k < UINT16_RANGE, NEW q, q[1] = k + 1, q[2] = k + 2,
           NEW v, v = Longer(Moved(u, f, k), f)
    PROVE  Says(v, f, q) /\ Apart(u, v, f) /\ v.field_set = u.field_set
  <1>1. f \in Field
    BY DEF StructType
  <1> DEFINE m == Moved(u, f, k)
  <1>2. /\ m \in StructType /\ Apart(u, m, f) /\ m.off[f] = k /\ m.len = u.len
        /\ m.field_set = u.field_set
    BY <1>1, MovedApart
  <1> HIDE DEF m
  <1>3. v = Longer(m, f) /\ f \in m.field_set /\ m.len[f] = 0
    BY <1>2 DEF m
  <1>4. Says(v, f, q) /\ Apart(m, v, f) /\ v.field_set = m.field_set
    BY <1>2, <1>3, FirstSays
  <1> QED
    BY <1>2, <1>4, ApartTwice

LEMMA HostFieldMade ==
    ASSUME NEW u \in StructType, NEW f \in Field, NEW k \in Nat,
           k < UINT16_RANGE, NEW q, q[1] = k + 1, q[2] = k + 2,
           NEW v, v = Longer(Cleared(Moved(u, f, k), f), f)
    PROVE  Says(v, f, q) /\ Apart(u, v, f)
  <1> DEFINE m == Moved(u, f, k)
             x == Cleared(m, f)
  <1>1. m \in StructType /\ Apart(u, m, f) /\ m.off[f] = k
    BY MovedApart
  <1> HIDE DEF m
  <1>2. /\ x \in StructType /\ Apart(m, x, f) /\ x.off = m.off /\ x.len[f] = 0
        /\ x.field_set = m.field_set \cup {f}
    BY <1>1, ClearedApart
  <1> HIDE DEF x
  <1>3. v = Longer(x, f) /\ f \in x.field_set /\ x.off[f] = k
    BY <1>1, <1>2 DEF m, x
  <1>4. Says(v, f, q) /\ Apart(x, v, f)
    BY <1>2, <1>3, FirstSays
  <1>5. Apart(u, x, f)
    BY <1>1, <1>2, ApartTwice
  <1> QED
    BY <1>4, <1>5, ApartTwice

LEMMA HostFieldLonger ==
    ASSUME NEW u \in StructType, NEW f \in Field, NEW p, NEW q, p[1] \in Nat, p[2] \in Nat,
           p[1] < p[2], q[1] = p[1], q[2] = p[2] + 1, Says(u, f, p), NEW v, v = Longer(u, f)
    PROVE  Says(v, f, q) /\ Apart(u, v, f) /\ v.field_set = u.field_set
  BY LongerSays, LongerApart

\* What a turn of the second loop does
LEMMA HostGoes ==
    ASSUME NEW c \in CallType, NEW ch, NEW r, r = http_parse_host_char(c.s, ch),
           NEW d, d = HostStep(c, ch)
    PROVE  /\ r = "s_http_host_dead" => d = Reject(c)
           /\ r # "s_http_host_dead" => /\ d.pc = c.pc /\ d.s = r /\ d.p = c.p + 1
                                        /\ d.buflen = c.buflen /\ d.u = HostField(c, r)
  <1> DEFINE v == HostField(c, r)
             q == c.p + 1
  <1>1. CASE r = "s_http_host_dead"
    BY <1>1 DEF HostStep
  <1>2. CASE r # "s_http_host_dead"
    <2>1. d = [c EXCEPT !.s = r, !.p = q, !.u = v]
      BY <1>2, Zenon DEF HostStep, CallType
    <2> HIDE DEF v, q
    <2>2. d.pc = c.pc /\ d.s = r /\ d.p = q /\ d.u = v /\ d.buflen = c.buflen
      BY <2>1 DEF CallType
    <2> QED
      BY <1>2, <2>2 DEF v, q
  <1> QED
    BY <1>1, <1>2

LEMMA HostFieldIs ==
    ASSUME NEW c, NEW r
    PROVE  LET u == c.u
               fresh == r # c.s
               k == c.p
               Made(f) == Longer(Cleared(Moved(u, f, k), f), f)
           IN  /\ r = "s_http_userinfo" =>
                     HostField(c, r) = IF fresh THEN Made("UF_USERINFO")
                                       ELSE Longer(u, "UF_USERINFO")
               /\ r \in {"s_http_host", "s_http_host_v6"} =>
                     HostField(c, r) = IF fresh THEN Longer(Moved(u, "UF_HOST", k), "UF_HOST")
                                       ELSE Longer(u, "UF_HOST")
               /\ r \in {"s_http_host_v6_zone_start", "s_http_host_v6_zone"} =>
                     HostField(c, r) = Longer(u, "UF_HOST")
               /\ r = "s_http_host_port" =>
                     HostField(c, r) = IF fresh THEN Made("UF_PORT") ELSE Longer(u, "UF_PORT")
               /\ r \notin NameStates \cup {"s_http_userinfo", "s_http_host_port"} =>
                     HostField(c, r) = u
  BY DEF HostField, NameStates

-----------------------------------------------------------------------------
(* What the fields of the authority are before the character at x *)

UserSpan(t, x) == <<From(t), Earlier(x, HostFrom(t) - 1)>>
HostSpan(t, x) == <<HostLo(t), Earlier(x, HostTo(t))>>
PortSpan(t, x) == <<PortFrom(t), x>>

Tells(u, t, x) ==
    /\ u.port = 0
    /\ Says(u, "UF_USERINFO", UserSpan(t, x)) /\ Says(u, "UF_PORT", PortSpan(t, x))
    /\ "UF_HOST" \in u.field_set
    /\ x > HostLo(t) => Says(u, "UF_HOST", HostSpan(t, x))
    /\ x <= HostLo(t) => u.len["UF_HOST"] = 0

Elsewhere == {"UF_SCHEMA", "UF_PATH", "UF_QUERY", "UF_FRAGMENT"}

\* v tells what u does of the other fields
Leaves(u, v) == \A g \in Elsewhere : \A p : Says(u, g, p) => Says(v, g, p)

LEMMA ApartLeaves ==
    ASSUME NEW u, NEW v, NEW f \in {"UF_USERINFO", "UF_HOST", "UF_PORT"}, Apart(u, v, f)
    PROVE  Leaves(u, v)
  <1> SUFFICES ASSUME NEW g \in Elsewhere, NEW p, Says(u, g, p) PROVE Says(v, g, p)
    BY DEF Leaves
  <1>1. g \in Field /\ g # f
    BY DEF Elsewhere, Field
  <1> QED
    BY <1>1, ApartSays

LEMMA SaysSame ==
    ASSUME NEW u, NEW v, NEW f, Apart(u, v, f), NEW g \in Field, g # f, NEW p, NEW q,
           Says(u, g, p), p[1] < p[2] <=> q[1] < q[2], p[1] < p[2] => p[1] = q[1] /\ p[2] = q[2]
    PROVE  Says(v, g, q)
  BY DEF Apart, Says

\* What is between the marks of an authority
LEMMA MarksInAuthority ==
    ASSUME NEW t, HostMarks(t)
    PROVE  /\ From(t) \in Nat /\ From(t) > 3 /\ HostFrom(t) \in Nat /\ From(t) <= HostFrom(t)
           /\ HostTo(t) \in Nat /\ HostFrom(t) <= HostLo(t) /\ HostLo(t) <= HostTo(t)
           /\ HostLo(t) \in Nat /\ HostTo(t) < PortFrom(t) /\ PortFrom(t) \in Nat
           /\ HostTo(t) <= To(t) /\ To(t) \in Nat /\ To(t) <= Len(t) + 1
  <1> DEFINE a == From(t)
             b == To(t)
             h == HostFrom(t)
             e == HostTo(t)
             lo == HostLo(t)
             p == PortFrom(t)
             br == Bracketed(t)
  <1>1. /\ a \in Nat /\ a > 3 /\ b \in Nat /\ b <= Len(t) + 1
        /\ h \in Nat /\ a <= h /\ e \in Nat /\ h <= e /\ e <= b
        /\ lo = (IF br THEN h + 1 ELSE h) /\ (br => h < e)
    BY DEF HostMarks
  <1>2. p = IF br THEN e + 2 ELSE e + 1
    BY DEF PortFrom
  <1> HIDE DEF a, b, h, e, lo, p, br
  <1>3. /\ a \in Nat /\ a > 3 /\ h \in Nat /\ a <= h /\ e \in Nat /\ h <= lo /\ lo <= e
        /\ lo \in Nat /\ e < p /\ p \in Nat /\ e <= b /\ b \in Nat /\ b <= Len(t) + 1
    BY <1>1, <1>2
  <1> QED
    BY <1>3 DEF a, b, h, e, lo, p

LEMMA Spans ==
    ASSUME NEW t, HostMarks(t), NEW x, x \in Nat
    PROVE  /\ UserSpan(t, x)[1] = From(t)
           /\ UserSpan(t, x)[2] = IF x < HostFrom(t) - 1 THEN x ELSE HostFrom(t) - 1
           /\ HostSpan(t, x)[1] = HostLo(t)
           /\ HostSpan(t, x)[2] = IF x < HostTo(t) THEN x ELSE HostTo(t)
           /\ PortSpan(t, x)[1] = PortFrom(t) /\ PortSpan(t, x)[2] = x
  BY DEF UserSpan, HostSpan, PortSpan, Earlier

\* A character of the user information
LEMMA UserTells ==
    ASSUME NEW t, HostMarks(t), NEW x, x \in Nat, From(t) <= x, x < HostFrom(t) - 1,
           x - 1 < UINT16_RANGE, NEW u \in StructType, Tells(u, t, x), NEW v,
           v = IF x = From(t)
               THEN Longer(Cleared(Moved(u, "UF_USERINFO", x - 1), "UF_USERINFO"), "UF_USERINFO")
               ELSE Longer(u, "UF_USERINFO")
    PROVE  Tells(v, t, x + 1) /\ Leaves(u, v)
  <1> DEFINE f == "UF_USERINFO"
             k == x - 1
             y == x + 1
             p == UserSpan(t, x)
             q == UserSpan(t, y)
             a == From(t)
             h == HostFrom(t)
             lo == HostLo(t)
             e == HostTo(t)
             b == PortFrom(t)
  <1>1. f \in Field /\ "UF_HOST" \in Field /\ "UF_PORT" \in Field
    BY DEF Field
  <1>2. a \in Nat /\ a > 3 /\ h \in Nat /\ h <= lo /\ lo \in Nat /\ lo <= e /\ e \in Nat /\ e < b /\ b \in Nat
    BY MarksInAuthority
  <1>3. k \in Nat /\ y \in Nat /\ x = k + 1 /\ y = k + 2 /\ y = x + 1
    BY <1>2
  <1>4. /\ p[1] = a /\ p[2] = x /\ q[1] = a
        /\ PortSpan(t, x)[1] = b /\ PortSpan(t, x)[2] = x
        /\ PortSpan(t, y)[1] = b /\ PortSpan(t, y)[2] = y
    BY <1>3, Spans
  <1>5. q[2] = y
    <2>1. q[2] = IF y < h - 1 THEN y ELSE h - 1
      BY <1>3, Spans
    <2> HIDE DEF q, y, h
    <2>2. x < h - 1 /\ h \in Nat
      BY <1>2 DEF h
    <2> QED
      BY <1>3, <2>1, <2>2
  <1>6. Tells(u, t, x)
    OBVIOUS
  <1>7. Says(v, f, q) /\ Apart(u, v, f)
    <2>1. CASE x = a
      <3>1. v = Longer(Cleared(Moved(u, f, k), f), f)
        BY <2>1
      <3>2. q[1] = k + 1 /\ q[2] = k + 2
        BY <2>1, <1>3, <1>4, <1>5
      <3>3. k \in Nat /\ k < UINT16_RANGE
        BY <1>3
      <3> HIDE DEF f, k, q
      <3> QED
        BY <1>1, <3>1, <3>2, <3>3, HostFieldMade
    <2>2. CASE x # a
      <3>1. v = Longer(u, f) /\ Says(u, f, p)
        BY <2>2 DEF Tells
      <3>2. p[1] \in Nat /\ p[2] \in Nat /\ p[1] < p[2] /\ q[1] = p[1] /\ q[2] = p[2] + 1
        BY <2>2, <1>2, <1>3, <1>4, <1>5
      <3> HIDE DEF f, p, q
      <3> QED
        BY <1>1, <3>1, <3>2, HostFieldLonger
    <2> QED
      BY <2>1, <2>2
  <1>8. Says(v, "UF_PORT", PortSpan(t, y))
    <2> DEFINE c == PortSpan(t, x)
               d == PortSpan(t, y)
    <2>1. ~(c[1] < c[2]) /\ ~(d[1] < d[2])
      BY <1>2, <1>3, <1>4
    <2>2. Says(u, "UF_PORT", c) /\ "UF_PORT" # f
      BY <1>6 DEF Tells
    <2> HIDE DEF c, d, f
    <2>3. Says(v, "UF_PORT", d)
      BY <1>1, <1>7, <2>1, <2>2, SaysSame
    <2> QED
      BY <2>3 DEF d
  <1>9. /\ v.port = 0 /\ "UF_HOST" \in v.field_set /\ v.len["UF_HOST"] = 0
    <2>1. u.port = 0 /\ "UF_HOST" \in u.field_set /\ u.len["UF_HOST"] = 0
      BY <1>2, <1>6 DEF Tells
    <2>2. "UF_HOST" \in Field \ {f}
      BY <1>1
    <2> HIDE DEF f
    <2> QED
      BY <1>7, <2>1, <2>2 DEF Apart
  <1>10. y <= lo
    BY <1>2, <1>3
  <1>11. Leaves(u, v)
    BY <1>7, ApartLeaves
  <1>12. Tells(v, t, y)
    <2> HIDE DEF y, f, q
    <2>1. Says(v, "UF_USERINFO", UserSpan(t, y))
      BY <1>7 DEF f, q
    <2>2. y \in Nat /\ HostLo(t) \in Nat /\ y <= HostLo(t)
      BY <1>2, <1>3, <1>10
    <2>3. ~(y > HostLo(t))
      BY <2>2
    <2> QED
      BY <1>8, <1>9, <2>1, <2>3 DEF Tells
  <1> QED
    BY <1>11, <1>12

\* A character of the host
LEMMA NameTells ==
    ASSUME NEW t, HostMarks(t), NEW x, x \in Nat, HostLo(t) <= x, x < HostTo(t),
           x - 1 < UINT16_RANGE, NEW u \in StructType, Tells(u, t, x), NEW v,
           v = IF x = HostLo(t) THEN Longer(Moved(u, "UF_HOST", x - 1), "UF_HOST")
               ELSE Longer(u, "UF_HOST")
    PROVE  Tells(v, t, x + 1) /\ Leaves(u, v)
  <1> DEFINE f == "UF_HOST"
             k == x - 1
             y == x + 1
             p == HostSpan(t, x)
             q == HostSpan(t, y)
             a == From(t)
             h == HostFrom(t)
             lo == HostLo(t)
             e == HostTo(t)
             b == PortFrom(t)
  <1>1. f \in Field /\ "UF_USERINFO" \in Field /\ "UF_PORT" \in Field
    BY DEF Field
  <1>2. a \in Nat /\ a > 3 /\ h \in Nat /\ a <= h /\ h <= lo /\ lo \in Nat /\ e \in Nat /\ e < b /\ b \in Nat
    BY MarksInAuthority
  <1>3. k \in Nat /\ y \in Nat /\ x = k + 1 /\ y = k + 2 /\ y = x + 1
    BY <1>2
  <1>4. /\ q[1] = lo /\ p[1] = lo
        /\ p[2] = (IF x < e THEN x ELSE e) /\ q[2] = (IF y < e THEN y ELSE e)
        /\ PortSpan(t, x)[1] = b /\ PortSpan(t, x)[2] = x
        /\ PortSpan(t, y)[1] = b /\ PortSpan(t, y)[2] = y
        /\ UserSpan(t, x)[1] = a /\ UserSpan(t, x)[2] = (IF x < h - 1 THEN x ELSE h - 1)
        /\ UserSpan(t, y)[1] = a /\ UserSpan(t, y)[2] = (IF y < h - 1 THEN y ELSE h - 1)
    BY <1>3, Spans
  <1>5. p[2] = x /\ q[2] = y
    <2> HIDE DEF p, q, y, e
    <2>1. x < e /\ e \in Nat
      BY <1>2 DEF e
    <2> QED
      BY <1>3, <1>4, <2>1
  <1>6. Tells(u, t, x) /\ f \in u.field_set
    BY DEF Tells
  <1>7. Says(v, f, q) /\ Apart(u, v, f) /\ v.field_set = u.field_set
    <2>1. CASE x = lo
      <3>1. v = Longer(Moved(u, f, k), f)
        BY <2>1
      <3>2. q[1] = k + 1 /\ q[2] = k + 2
        BY <2>1, <1>3, <1>4, <1>5
      <3>3. k \in Nat /\ k < UINT16_RANGE
        BY <1>3
      <3>4. u.len[f] = 0
        BY <2>1, <1>2, <1>6 DEF Tells
      <3> HIDE DEF f, k, q
      <3> QED
        BY <1>6, <3>1, <3>2, <3>3, <3>4, HostFieldMoved
    <2>2. CASE x # lo
      <3>1. v = Longer(u, f) /\ Says(u, f, p)
        BY <2>2, <1>2 DEF Tells
      <3>2. p[1] \in Nat /\ p[2] \in Nat /\ p[1] < p[2] /\ q[1] = p[1] /\ q[2] = p[2] + 1
        BY <2>2, <1>2, <1>3, <1>4, <1>5
      <3> HIDE DEF f, p, q
      <3> QED
        BY <1>1, <3>1, <3>2, HostFieldLonger
    <2> QED
      BY <2>1, <2>2
  <1>8. Says(v, "UF_PORT", PortSpan(t, y))
    <2> DEFINE c == PortSpan(t, x)
               d == PortSpan(t, y)
    <2>1. ~(c[1] < c[2]) /\ ~(d[1] < d[2])
      BY <1>2, <1>3, <1>4
    <2>2. Says(u, "UF_PORT", c) /\ "UF_PORT" # f
      BY <1>6 DEF Tells
    <2> HIDE DEF c, d, f
    <2>3. Says(v, "UF_PORT", d)
      BY <1>1, <1>7, <2>1, <2>2, SaysSame
    <2> QED
      BY <2>3 DEF d
  <1>9. Says(v, "UF_USERINFO", UserSpan(t, y))
    <2> DEFINE c == UserSpan(t, x)
               d == UserSpan(t, y)
    <2>1. c[1] = a /\ d[1] = a /\ c[2] = h - 1 /\ d[2] = h - 1
      <3> HIDE DEF c, d, y, h
      <3>1. h <= x /\ h \in Nat /\ y = x + 1
        BY <1>2, <1>3 DEF h
      <3>2. ~(x < h - 1) /\ ~(y < h - 1)
        BY <3>1
      <3> QED
        BY <1>4, <3>2 DEF c, d, y, h
    <2>2. Says(u, "UF_USERINFO", c) /\ "UF_USERINFO" # f
      BY <1>6 DEF Tells
    <2> HIDE DEF c, d, f
    <2>3. Says(v, "UF_USERINFO", d)
      BY <1>1, <1>7, <2>1, <2>2, SaysSame
    <2> QED
      BY <2>3 DEF d
  <1>10. v.port = 0
    BY <1>6, <1>7 DEF Apart, Tells
  <1>11. Leaves(u, v)
    BY <1>7, ApartLeaves
  <1>12. Tells(v, t, y)
    <2> HIDE DEF y, f, q
    <2>1. Says(v, "UF_HOST", HostSpan(t, y)) /\ "UF_HOST" \in v.field_set
      BY <1>6, <1>7 DEF f, q
    <2>2. ~(y <= HostLo(t))
      BY <1>2, <1>3
    <2> QED
      BY <1>8, <1>9, <1>10, <2>1, <2>2 DEF Tells
  <1> QED
    BY <1>11, <1>12

\* A digit of the port
LEMMA PortTells ==
    ASSUME NEW t, HostMarks(t), NEW x, x \in Nat, PortFrom(t) <= x,
           x - 1 < UINT16_RANGE, NEW u \in StructType, Tells(u, t, x), NEW v,
           v = IF x = PortFrom(t)
               THEN Longer(Cleared(Moved(u, "UF_PORT", x - 1), "UF_PORT"), "UF_PORT")
               ELSE Longer(u, "UF_PORT")
    PROVE  Tells(v, t, x + 1) /\ Leaves(u, v)
  <1> DEFINE f == "UF_PORT"
             k == x - 1
             y == x + 1
             p == PortSpan(t, x)
             q == PortSpan(t, y)
             a == From(t)
             h == HostFrom(t)
             lo == HostLo(t)
             e == HostTo(t)
             b == PortFrom(t)
  <1>1. f \in Field /\ "UF_USERINFO" \in Field /\ "UF_HOST" \in Field
    BY DEF Field
  <1>2. a \in Nat /\ a > 3 /\ h \in Nat /\ a <= h /\ h <= lo /\ lo \in Nat /\ lo <= e /\ e \in Nat /\ e < b /\ b \in Nat
    BY MarksInAuthority
  <1>3. k \in Nat /\ y \in Nat /\ x = k + 1 /\ y = k + 2 /\ y = x + 1
    BY <1>2
  <1>4. /\ p[1] = b /\ p[2] = x /\ q[1] = b /\ q[2] = y
        /\ HostSpan(t, x)[1] = lo /\ HostSpan(t, x)[2] = (IF x < e THEN x ELSE e)
        /\ HostSpan(t, y)[1] = lo /\ HostSpan(t, y)[2] = (IF y < e THEN y ELSE e)
        /\ UserSpan(t, x)[1] = a /\ UserSpan(t, x)[2] = (IF x < h - 1 THEN x ELSE h - 1)
        /\ UserSpan(t, y)[1] = a /\ UserSpan(t, y)[2] = (IF y < h - 1 THEN y ELSE h - 1)
    BY <1>3, Spans
  <1>5. h <= x /\ e < x /\ lo < x /\ ~(x < h - 1) /\ ~(y < h - 1) /\ ~(x < e) /\ ~(y < e)
    BY <1>2, <1>3
  <1>6. Tells(u, t, x)
    BY DEF Tells
  <1>7. Says(v, f, q) /\ Apart(u, v, f)
    <2>1. CASE x = b
      <3>1. v = Longer(Cleared(Moved(u, f, k), f), f)
        BY <2>1
      <3>2. q[1] = k + 1 /\ q[2] = k + 2
        BY <2>1, <1>3, <1>4
      <3>3. k \in Nat /\ k < UINT16_RANGE
        BY <1>3
      <3> HIDE DEF f, k, q
      <3> QED
        BY <1>1, <3>1, <3>2, <3>3, HostFieldMade
    <2>2. CASE x # b
      <3>1. v = Longer(u, f) /\ Says(u, f, p)
        BY <2>2, <1>6 DEF Tells
      <3>2. p[1] \in Nat /\ p[2] \in Nat /\ p[1] < p[2] /\ q[1] = p[1] /\ q[2] = p[2] + 1
        BY <2>2, <1>2, <1>3, <1>4
      <3> HIDE DEF f, p, q
      <3> QED
        BY <1>1, <3>1, <3>2, HostFieldLonger
    <2> QED
      BY <2>1, <2>2
  <1>8. Says(v, "UF_USERINFO", UserSpan(t, y))
    <2> DEFINE c == UserSpan(t, x)
               d == UserSpan(t, y)
    <2>1. c[1] = d[1] /\ c[2] = d[2]
      BY <1>4, <1>5
    <2>2. Says(u, "UF_USERINFO", c) /\ "UF_USERINFO" # f
      BY <1>6 DEF Tells
    <2> HIDE DEF c, d, f
    <2>3. Says(v, "UF_USERINFO", d)
      BY <1>1, <1>7, <2>1, <2>2, SaysSame
    <2> QED
      BY <2>3 DEF d
  <1>9. Says(v, "UF_HOST", HostSpan(t, y))
    <2> DEFINE c == HostSpan(t, x)
               d == HostSpan(t, y)
    <2>1. c[1] = d[1] /\ c[2] = d[2]
      BY <1>4, <1>5
    <2>2. Says(u, "UF_HOST", c) /\ "UF_HOST" # f
      BY <1>5, <1>6 DEF Tells
    <2> HIDE DEF c, d, f
    <2>3. Says(v, "UF_HOST", d)
      BY <1>1, <1>7, <2>1, <2>2, SaysSame
    <2> QED
      BY <2>3 DEF d
  <1>10. v.port = 0 /\ "UF_HOST" \in v.field_set
    <2>1. u.port = 0 /\ "UF_HOST" \in u.field_set
      BY <1>6 DEF Tells
    <2>2. "UF_HOST" \in Field \ {f}
      BY <1>1
    <2> HIDE DEF f
    <2> QED
      BY <1>7, <2>1, <2>2 DEF Apart
  <1>11. Leaves(u, v)
    BY <1>7, ApartLeaves
  <1>12. Tells(v, t, y)
    <2> HIDE DEF y, f, q
    <2>1. Says(v, "UF_PORT", PortSpan(t, y))
      BY <1>7 DEF f, q
    <2>2. ~(y <= HostLo(t))
      BY <1>2, <1>3, <1>5
    <2> QED
      BY <1>8, <1>9, <1>10, <2>1, <2>2 DEF Tells
  <1> QED
    BY <1>11, <1>12

\* A delimiter
LEMMA DelimiterTells ==
    ASSUME NEW t, HostMarks(t), NEW x, x \in Nat, ~(x < HostFrom(t) - 1),
           ~(HostLo(t) <= x /\ x < HostTo(t)), ~(PortFrom(t) <= x), x # HostLo(t),
           NEW u, Tells(u, t, x)
    PROVE  Tells(u, t, x + 1)
  <1> DEFINE y == x + 1
             a == From(t)
             h == HostFrom(t)
             lo == HostLo(t)
             e == HostTo(t)
             b == PortFrom(t)
             p == UserSpan(t, x)
             q == UserSpan(t, y)
             hp == HostSpan(t, x)
             hq == HostSpan(t, y)
             pp == PortSpan(t, x)
             pq == PortSpan(t, y)
  <1>1. /\ a \in Nat /\ h \in Nat /\ lo \in Nat /\ e \in Nat /\ b \in Nat /\ y \in Nat /\ y = x + 1
        /\ h <= lo /\ lo <= e /\ e < b
    BY MarksInAuthority
  <1>2. /\ p[1] = a /\ p[2] = (IF x < h - 1 THEN x ELSE h - 1)
        /\ q[1] = a /\ q[2] = (IF y < h - 1 THEN y ELSE h - 1)
        /\ hp[1] = lo /\ hp[2] = (IF x < e THEN x ELSE e)
        /\ hq[1] = lo /\ hq[2] = (IF y < e THEN y ELSE e)
        /\ pp[1] = b /\ pp[2] = x /\ pq[1] = b /\ pq[2] = y
    BY <1>1, Spans
  <1>3. ~(x < h - 1) /\ ~(lo <= x /\ x < e) /\ ~(b <= x) /\ x # lo
    OBVIOUS
  <1> HIDE DEF y, a, h, lo, e, b, p, q, hp, hq, pp, pq
  <1>4. ~(y < h - 1) /\ y <= b
    BY <1>1, <1>3
  <1>5. /\ p[1] = q[1] /\ p[2] = q[2] /\ ~(pp[1] < pp[2]) /\ ~(pq[1] < pq[2])
        /\ x <= lo \/ (hp[1] = hq[1] /\ hp[2] = hq[2])
    BY <1>1, <1>2, <1>3, <1>4
  <1>6. /\ u.port = 0 /\ Says(u, "UF_USERINFO", p) /\ Says(u, "UF_PORT", pp)
        /\ "UF_HOST" \in u.field_set
        /\ x > lo => Says(u, "UF_HOST", hp)
        /\ x <= lo => u.len["UF_HOST"] = 0
    BY DEF Tells, p, pp, hp, lo
  <1>7. Says(u, "UF_USERINFO", q) /\ Says(u, "UF_PORT", pq)
    BY <1>5, <1>6 DEF Says
  <1>8. /\ y > lo => Says(u, "UF_HOST", hq)
        /\ y <= lo => u.len["UF_HOST"] = 0
    <2>1. CASE x < lo
      <3>1. y <= lo /\ x <= lo
        BY <2>1, <1>1
      <3> QED
        BY <3>1, <1>1, <1>6
    <2>2. CASE x > lo
      <3>1. hp[1] = hq[1] /\ hp[2] = hq[2] /\ ~(y <= lo)
        BY <2>2, <1>1, <1>5
      <3> QED
        BY <3>1, <2>2, <1>6 DEF Says
    <2> QED
      BY <2>1, <2>2, <1>1, <1>3
  <1>9. Tells(u, t, y)
    BY <1>6, <1>7, <1>8 DEF Tells, q, pq, hq, lo
  <1> QED
    BY <1>9 DEF y

\* Whatever the turn, it tells what has been read.
LEMMA FieldTurn ==
    ASSUME NEW t, HostMarks(t), NEW x, x \in Nat, From(t) <= x, x < To(t),
           x - 1 < UINT16_RANGE, NEW c \in CallType, c.p = x - 1, Tells(c.u, t, x),
           HostStage(c.s, t, x), NEW r, r # "s_http_host_dead", HostTurns(c.s, r, t, x)
    PROVE  Tells(HostField(c, r), t, x + 1) /\ Leaves(c.u, HostField(c, r))
  <1> DEFINE v == HostField(c, r)
             u == c.u
             s == c.s
             h == HostFrom(t)
             lo == HostLo(t)
             e == HostTo(t)
             b == PortFrom(t)
             ui == r = "s_http_userinfo"
             hn == r \in NameStates
             pt == r = "s_http_host_port"
             y == x + 1
  <1>1. /\ HostStage(r, t, y)
        /\ ui <=> x < h - 1
        /\ hn <=> lo <= x /\ x < e
        /\ pt <=> b <= x
        /\ ui => (r # s <=> x = From(t))
        /\ r \in {"s_http_host", "s_http_host_v6"} => (r # s <=> x = lo)
        /\ r \in {"s_http_host_v6_zone_start", "s_http_host_v6_zone"} => x > lo
        /\ pt => (r # s <=> x = b)
    BY DEF HostTurns
  <1>2. u \in StructType /\ Tells(u, t, x)
    BY DEF CallType
  <1>3. /\ h \in Nat /\ lo \in Nat /\ e \in Nat /\ b \in Nat /\ h <= lo /\ lo <= e /\ e < b
        /\ lo = (IF Bracketed(t) THEN h + 1 ELSE h)
    BY MarksInAuthority DEF HostLo
  <1>4. CASE ui
    <2>1. v = IF x = From(t)
              THEN Longer(Cleared(Moved(u, "UF_USERINFO", x - 1), "UF_USERINFO"), "UF_USERINFO")
              ELSE Longer(u, "UF_USERINFO")
      BY <1>1, <1>4, HostFieldIs
    <2>2. x < h - 1
      BY <1>1, <1>4
    <2> HIDE DEF v, u
    <2>3. Tells(v, t, x + 1) /\ Leaves(u, v)
      BY <1>2, <2>1, <2>2, UserTells DEF h
    <2> QED
      BY <2>3 DEF v, u
  <1>5. CASE hn
    <2>1. v = IF x = lo THEN Longer(Moved(u, "UF_HOST", x - 1), "UF_HOST")
              ELSE Longer(u, "UF_HOST")
      <3>1. CASE r \in {"s_http_host", "s_http_host_v6"}
        BY <3>1, <1>1, HostFieldIs
      <3>2. CASE r \in {"s_http_host_v6_zone_start", "s_http_host_v6_zone"}
        <4>1. v = Longer(u, "UF_HOST")
          BY <3>2, HostFieldIs
        <4>2. x # lo
          BY <3>2, <1>1, <1>3
        <4> QED
          BY <4>1, <4>2
      <3> QED
        BY <1>5, <3>1, <3>2 DEF NameStates
    <2>2. lo <= x /\ x < e
      BY <1>1, <1>5
    <2> HIDE DEF v, u
    <2>3. Tells(v, t, x + 1) /\ Leaves(u, v)
      BY <1>2, <2>1, <2>2, NameTells DEF lo, e
    <2> QED
      BY <2>3 DEF v, u
  <1>6. CASE pt
    <2>1. v = IF x = b
              THEN Longer(Cleared(Moved(u, "UF_PORT", x - 1), "UF_PORT"), "UF_PORT")
              ELSE Longer(u, "UF_PORT")
      BY <1>1, <1>6, HostFieldIs
    <2>2. b <= x
      BY <1>1, <1>6
    <2> HIDE DEF v, u
    <2>3. Tells(v, t, x + 1) /\ Leaves(u, v)
      BY <1>2, <2>1, <2>2, PortTells DEF b
    <2> QED
      BY <2>3 DEF v, u
  <1>7. CASE ~ui /\ ~hn /\ ~pt
    <2>1. v = u
      BY <1>7, HostFieldIs
    <2>2. ~(x < h - 1) /\ ~(lo <= x /\ x < e) /\ ~(b <= x)
      BY <1>1, <1>7
    <2>3. r \in {"s_http_userinfo_start", "s_http_host_start", "s_http_host_v6_start",
                 "s_http_host_v6_end", "s_http_host_port_start"}
      <3>1. r \in HostState
        BY <1>1 DEF HostStage
      <3> QED
        BY <3>1, <1>7 DEF HostState, NameStates
    <2>4. /\ r = "s_http_userinfo_start" => y = From(t)
          /\ r = "s_http_host_start" => y = h
          /\ r = "s_http_host_v6_start" => y = h + 1 /\ Bracketed(t)
          /\ r = "s_http_host_v6_end" => HostOK(t)
          /\ r = "s_http_host_port_start" => HostOK(t)
      BY <1>1 DEF HostStage, V6
    <2>5. HostOK(t) => lo < e
      BY <1>3 DEF HostOK
    <2>6. x # lo
      <3>1. r # "s_http_userinfo_start"
        BY <2>4, MarksInAuthority
      <3> HIDE DEF h, lo, e, b
      <3>2. CASE r = "s_http_host_start"
        BY <3>2, <2>4, <1>3
      <3>3. CASE r = "s_http_host_v6_start"
        BY <3>3, <2>4, <1>3
      <3>4. CASE r \in {"s_http_host_v6_end", "s_http_host_port_start"}
        BY <3>4, <2>2, <2>4, <2>5, <1>3
      <3> QED
        BY <2>3, <3>1, <3>2, <3>3, <3>4
    <2> HIDE DEF u, v
    <2>7. Tells(u, t, x + 1)
      BY <1>2, <2>2, <2>6, DelimiterTells DEF h, lo, e, b
    <2>8. Leaves(u, v)
      BY <2>1 DEF Leaves
    <2> QED
      BY <2>1, <2>7, <2>8 DEF u, v
  <1> QED
    BY <1>4, <1>5, <1>6, <1>7

-----------------------------------------------------------------------------
(* The turns and the ends of the second loop *)

\* What the second loop knows of the URL t
HostSoFar(c, t) ==
    /\ Absolute(t) /\ Good(t) /\ HostMarks(t) /\ From(t) <= Len(t)
    /\ c.buflen = To(t) - 1 /\ From(t) <= c.p + 1
    /\ HostStage(c.s, t, c.p + 1) /\ Tells(c.u, t, c.p + 1)
    /\ \A g \in Elsewhere : Says(c.u, g, Pieces(t)[g])

\* A turn rejects what is no URL; otherwise it reports what it has read of the authority.
LEMMA HostsOn ==
    ASSUME NEW c \in CallType, NEW t \in Seq(Char), Len(t) <= UINT16_RANGE, HostSoFar(c, t),
           c.p < c.buflen, NEW d, d = HostStep(c, t[c.p + 1])
    PROVE  \/ d = Reject(c) /\ ~IsUrl(t)
           \/ d.pc = c.pc /\ HostSoFar(d, t)
  <1> DEFINE x == c.p + 1
             r == http_parse_host_char(c.s, t[x])
  <1>1. c.p \in Nat /\ UINT16_RANGE \in Nat /\ Len(t) \in Nat
    BY RangeAssumption DEF CallType
  <1>2. /\ Absolute(t) /\ Good(t) /\ HostMarks(t) /\ From(t) <= Len(t)
        /\ c.buflen = To(t) - 1 /\ From(t) <= x
        /\ HostStage(c.s, t, x) /\ Tells(c.u, t, x)
        /\ \A g \in Elsewhere : Says(c.u, g, Pieces(t)[g])
    BY DEF HostSoFar
  <1>3. To(t) \in Nat /\ To(t) <= Len(t) + 1 /\ From(t) \in Nat
    BY <1>2, MarksInAuthority
  <1>4. x \in Nat /\ x < To(t) /\ x - 1 < UINT16_RANGE /\ c.p = x - 1
    BY <1>1, <1>2, <1>3
  <1>5. HostTurns(c.s, r, t, x)
    <2> HIDE DEF x
    <2> QED
      BY <1>2, <1>4, HostTurn
  <1>6. /\ r = "s_http_host_dead" => d = Reject(c)
        /\ r # "s_http_host_dead" => /\ d.pc = c.pc /\ d.s = r /\ d.p = c.p + 1
                                     /\ d.buflen = c.buflen /\ d.u = HostField(c, r)
    BY HostGoes
  <1>7. CASE r = "s_http_host_dead"
    <2>1. ~AllOK(t)
      BY <1>5, <1>7 DEF HostTurns
    <2>2. ~IsUrl(t)
      BY <1>2, <2>1, GoodIsUrl DEF AllOK
    <2> QED
      BY <1>6, <1>7, <2>2
  <1>8. CASE r # "s_http_host_dead"
    <2> HIDE DEF r, x
    <2>1. Tells(HostField(c, r), t, x + 1) /\ Leaves(c.u, HostField(c, r))
      BY <1>2, <1>4, <1>5, <1>8, FieldTurn
    <2>2. HostStage(r, t, x + 1)
      BY <1>5, <1>8 DEF HostTurns
    <2>3. d.p = x
      BY <1>6, <1>8 DEF x
    <2>4. From(t) <= x + 1
      BY <1>2, <1>3, <1>4
    <2>5. \A g \in Elsewhere : Says(d.u, g, Pieces(t)[g])
      BY <1>2, <1>6, <1>8, <2>1 DEF Leaves
    <2>6. HostSoFar(d, t)
      BY <1>2, <1>6, <1>8, <2>1, <2>2, <2>3, <2>4, <2>5 DEF HostSoFar
    <2> QED
      BY <1>6, <1>8, <2>6
  <1> QED
    BY <1>7, <1>8

\* What a call that has returned owes to its caller
Splits(c, t) == Fits(t) => AsWritten(t, c.ret, c.u)

LEMMA Rejected ==
    ASSUME NEW c \in CallType, NEW t, ~IsUrl(t) PROVE Splits(Reject(c), t)
  <1>1. Reject(c).ret = 1
    BY DEF Reject, CallType
  <1> QED
    BY <1>1 DEF Splits, AsWritten

LEMMA Accepted ==
    ASSUME NEW t, NEW d, IsUrl(t), d.ret = 0, d.u.field_set \subseteq Field,
           \A f \in Field : Says(d.u, f, Pieces(t)[f]),
           \A f \in Field : Pieces(t)[f][1] \in Int /\ Pieces(t)[f][2] \in Int,
           d.u.port = IF "UF_PORT" \in d.u.field_set THEN Number(t, d.u.off["UF_PORT"]) ELSE 0
    PROVE  Splits(d, t)
  <1> SUFFICES ASSUME Fits(t) PROVE AsWritten(t, d.ret, d.u)
    BY DEF Splits
  <1>1. \A f \in Field : Pieces(t)[f][2] - Pieces(t)[f][1] < UINT16_RANGE
    BY DEF Fits
  <1>2. \A f \in Field : f \in d.u.field_set <=> ~Empty(Pieces(t)[f])
    BY DEF Says, Empty
  <1>3. d.u.field_set = {f \in Field : ~Empty(Pieces(t)[f])}
    BY <1>2
  <1>4. ASSUME NEW f \in d.u.field_set
        PROVE  /\ d.u.off[f] = Pieces(t)[f][1] - 1
               /\ d.u.len[f] = Pieces(t)[f][2] - Pieces(t)[f][1]
    <2>1. f \in Field
      OBVIOUS
    <2>2. Says(d.u, f, Pieces(t)[f]) /\ Pieces(t)[f][2] - Pieces(t)[f][1] < UINT16_RANGE
      BY <2>1, <1>1
    <2> QED
      BY <2>2 DEF Says
  <1> QED
    BY <1>3, <1>4 DEF AsWritten

LEMMA PieceTypes ==
    ASSUME NEW t \in Seq(Char), ~Absolute(t) \/ From(t) <= Len(t), NEW f \in Field
    PROVE  Pieces(t)[f][1] \in Int /\ Pieces(t)[f][2] \in Int
  <1> DEFINE n == Len(t)
  <1>1. n \in Nat
    OBVIOUS
  <1>2. MarksOrdered(t, n)
    BY <1>1, MarksInOrder
  <1>3. /\ Colon(t) \in Int /\ TargetFrom(t) \in Int /\ QueryMark(t) \in Int
        /\ FragmentMark(t) \in Int /\ FragmentFrom(t) \in Int /\ From(t) \in Int /\ To(t) \in Int
    <2> HIDE DEF n
    <2>1. TargetFrom(t) \in Int
      BY <1>2 DEF MarksOrdered
    <2> QED
      BY <1>2, <2>1 DEF MarksOrdered
  <1>4. CASE ~Absolute(t) \/ f \in Elsewhere
    <2>1. Pieces(t)[f] = Cut(t)[f]
      BY <1>4, CutIsPiece DEF Elsewhere
    <2>2. Cut(t)[f] \in {<<1, 1>>, <<From(t), To(t)>>, <<1, Colon(t)>>,
             <<TargetFrom(t), QueryMark(t)>>, <<QueryMark(t) + 1, FragmentMark(t)>>,
             <<FragmentFrom(t), Len(t) + 1>>}
      BY CutPieces DEF Field
    <2> QED
      BY <1>1, <1>3, <2>1, <2>2
  <1>5. CASE Absolute(t) /\ f \notin Elsewhere
    <2>1. HostMarks(t)
      <3>1. From(t) <= Len(t) + 1
        BY <1>3, <1>5
      <3> QED
        BY <3>1, HostMarksFound
    <2>2. /\ From(t) \in Int /\ HostFrom(t) - 1 \in Int /\ HostLo(t) \in Int /\ HostTo(t) \in Int
          /\ PortFrom(t) \in Int /\ To(t) \in Int
      BY <2>1, MarksInAuthority
    <2>3. Pieces(t)[f] \in {<<From(t), HostFrom(t) - 1>>, <<HostLo(t), HostTo(t)>>,
                            <<PortFrom(t), To(t)>>}
      BY <1>5, UrlPieces DEF Field, Elsewhere
    <2> QED
      BY <2>2, <2>3
  <1> QED
    BY <1>4, <1>5

-----------------------------------------------------------------------------
(* The end of the first loop *)

LEMMA SchemaNotEmpty ==
    ASSUME NEW t \in Seq(Char), Absolute(t) PROVE Colon(t) > 1
  <1>1. Len(t) \in Nat /\ t # <<>> /\ t[1] \in Alpha
    BY DEF Absolute
  <1>2. Len(t) > 0
    BY <1>1
  <1>3. FirstAt(t, {":"}, 1, Colon(t))
    BY <1>1, MarksFound DEF MarksOf
  <1>4. ":" \notin Alpha
    BY DEF Alpha
  <1> QED
    BY <1>1, <1>2, <1>3, <1>4 DEF FirstAt

LEMMA CutHasNone ==
    ASSUME NEW t, NEW f \in {"UF_SCHEMA", "UF_HOST"}, Cut(t)[f][1] < Cut(t)[f][2]
    PROVE  Absolute(t)
  <1> SUFFICES ASSUME ~Absolute(t) PROVE FALSE
    OBVIOUS
  <1>1. Cut(t)["UF_SCHEMA"] = <<1, 1>> /\ Cut(t)["UF_HOST"] = <<1, 1>>
    BY CutPieces
  <1>2. Cut(t)[f] = <<1, 1>>
    BY <1>1
  <1> QED
    BY <1>2

\* Entering the second loop
LEMMA HostBegins ==
    ASSUME NEW c \in CallType, NEW t \in Seq(Char), Len(t) <= UINT16_RANGE, ReadSoFar(c, t),
           "UF_HOST" \in c.u.field_set, NEW d, d = HostStart(c)
    PROVE  HostSoFar(d, t)
  <1> DEFINE n == Len(t)
             a == From(t)
             b == To(t)
             h == HostFrom(t)
             lo == HostLo(t)
             e == HostTo(t)
             p == PortFrom(t)
             u == c.u
             v == [u EXCEPT !.len["UF_HOST"] = 0]
             s == IF c.found_at THEN "s_http_userinfo_start" ELSE "s_http_host_start"
  <1>1. n \in Nat /\ UINT16_RANGE \in Nat /\ u \in StructType
    BY RangeAssumption DEF CallType
  <1>2. /\ Good(t) /\ u.port = 0 /\ (c.found_at <=> Absolute(t) /\ At(t) < b)
        /\ \A f \in Field : Says(u, f, Cut(t)[f])
    BY DEF ReadSoFar
  <1>3. "UF_HOST" \in Field /\ "UF_USERINFO" \in Field /\ "UF_PORT" \in Field
    BY DEF Field
  <1>4. Absolute(t) /\ Cut(t)["UF_HOST"] = <<a, b>> /\ a < b
    <2>1. Says(u, "UF_HOST", Cut(t)["UF_HOST"])
      BY <1>2, <1>3
    <2>2. Cut(t)["UF_HOST"][1] < Cut(t)["UF_HOST"][2]
      BY <2>1 DEF Says
    <2>3. Absolute(t)
      BY <2>2, CutHasNone, <1>3
    <2>4. Cut(t)["UF_HOST"] = <<a, b>>
      BY <2>3, CutPieces
    <2> HIDE DEF a, b
    <2> QED
      BY <2>2, <2>3, <2>4
  <1>5. MarksOrdered(t, n)
    BY <1>1, MarksInOrder
  <1>6. a \in Nat /\ b \in Nat /\ a <= n /\ b <= n + 1
    <2> HIDE DEF n
    <2>1. /\ a \in Nat /\ b \in Nat /\ (a > n => b = a) /\ (a <= n + 1 => b <= n + 1)
      BY <1>5 DEF MarksOrdered
    <2> HIDE DEF a, b
    <2> QED
      BY <1>1, <1>4, <2>1
  <1>7. HostMarks(t)
    <2>1. a <= Len(t) + 1
      BY <1>6
    <2> QED
      BY <2>1, HostMarksFound
  <1>8. /\ a > 3 /\ h \in Nat /\ a <= h /\ h <= lo /\ lo \in Nat /\ lo <= e /\ e \in Nat
        /\ e < p /\ p \in Nat /\ h <= b
        /\ h > a <=> At(t) < b
    BY <1>7, MarksInAuthority DEF HostMarks
  <1>9. u.off["UF_HOST"] = a - 1 /\ u.len["UF_HOST"] = b - a
    <2>1. b - a < UINT16_RANGE
      <3> HIDE DEF a, b
      <3> QED
        BY <1>1, <1>6, <1>8
    <2>2. Says(u, "UF_HOST", <<a, b>>)
      BY <1>2, <1>3, <1>4
    <2> HIDE DEF a, b, u
    <2> QED
      BY <1>4, <2>1, <2>2 DEF Says
  <1>10. v.port = 0 /\ v.field_set = u.field_set /\ v.off = u.off /\ v.len["UF_HOST"] = 0
         /\ \A g \in Field \ {"UF_HOST"} : v.len[g] = u.len[g]
    BY <1>1, <1>2, <1>3 DEF StructType
  <1>11. d.s = s /\ d.p = a - 1 /\ d.buflen = b - 1 /\ d.u = v
    <2> DEFINE o == u.off["UF_HOST"]
               l == u.off["UF_HOST"] + u.len["UF_HOST"]
    <2>1. d = [c EXCEPT !.pc = "host", !.s = s, !.p = o, !.buflen = l, !.u = v]
      BY Zenon DEF HostStart
    <2> HIDE DEF o, l, s, v
    <2>2. d.s = s /\ d.p = o /\ d.buflen = l /\ d.u = v
      BY <2>1 DEF CallType
    <2>3. o = a - 1 /\ l = b - 1
      BY <1>6, <1>9 DEF o, l
    <2> QED
      BY <2>2, <2>3
  <1>12. \A g \in Field \ {"UF_HOST"} : \A q : Says(u, g, q) => Says(v, g, q)
    <2> HIDE DEF u, v
    <2> QED
      BY <1>10 DEF Says
  <1>13. Tells(v, t, a)
    <2> DEFINE uq == UserSpan(t, a)
               pq == PortSpan(t, a)
    <2>1. ~(uq[1] < uq[2]) /\ ~(pq[1] < pq[2])
      <3>1. /\ uq[1] = a /\ uq[2] = IF a < h - 1 THEN a ELSE h - 1
            /\ pq[1] = p /\ pq[2] = a
        BY <1>6, <1>7, Spans
      <3> HIDE DEF uq, pq, a, h, p, lo, e
      <3> QED
        BY <3>1, <1>6, <1>8
    <2>2. "UF_USERINFO" \notin u.field_set /\ "UF_PORT" \notin u.field_set
      <3>1. Says(u, "UF_USERINFO", <<1, 1>>) /\ Says(u, "UF_PORT", <<1, 1>>)
        BY <1>2, <1>3, CutPieces
      <3> HIDE DEF u
      <3> QED
        BY <3>1 DEF Says
    <2> HIDE DEF uq, pq, u, v
    <2>3. Says(v, "UF_USERINFO", uq) /\ Says(v, "UF_PORT", pq)
      BY <1>10, <2>1, <2>2 DEF Says
    <2>4. "UF_HOST" \in v.field_set
      BY <1>10 DEF u
    <2>5. ~(a > HostLo(t))
      BY <1>6, <1>8
    <2> HIDE DEF a
    <2> QED
      BY <1>10, <2>3, <2>4, <2>5 DEF Tells, uq, pq
  <1>14. HostStage(s, t, a)
    <2>1. CASE c.found_at
      <3>1. s = "s_http_userinfo_start" /\ a < h /\ a <= b
        BY <2>1, <1>2, <1>4, <1>6, <1>8
      <3> HIDE DEF s
      <3> QED
        BY <3>1, <1>6 DEF HostStage, HostState, UserStates, V6
    <2>2. CASE ~c.found_at
      <3>1. s = "s_http_host_start" /\ a = h /\ a <= b
        BY <2>2, <1>2, <1>4, <1>6, <1>8
      <3>2. UserOK(t)
        BY <3>1, <1>6 DEF UserOK, Of
      <3> HIDE DEF s
      <3> QED
        BY <3>1, <3>2, <1>6 DEF HostStage, HostState, UserStates, V6
    <2> QED
      BY <2>1, <2>2
  <1>15. \A g \in Elsewhere : Says(v, g, Pieces(t)[g])
    <2> SUFFICES ASSUME NEW g \in Elsewhere PROVE Says(v, g, Pieces(t)[g])
      OBVIOUS
    <2>1. g \in Field \ {"UF_HOST"} /\ Pieces(t)[g] = Cut(t)[g]
      BY CutIsPiece DEF Elsewhere, Field
    <2> HIDE DEF u, v
    <2> QED
      BY <2>1, <1>2, <1>12
  <1>16. d.p + 1 = a
    BY <1>6, <1>11
  <1> QED
    BY <1>2, <1>4, <1>6, <1>7, <1>11, <1>13, <1>14, <1>15, <1>16 DEF HostSoFar

\* An authority that is empty, or not begun
LEMMA NoAuthority ==
    ASSUME NEW t \in Seq(Char), Good(t), Absolute(t), ~(From(t) < To(t)) PROVE ~IsUrl(t)
  <1> DEFINE n == Len(t)
  <1>1. n \in Nat
    OBVIOUS
  <1>2. MarksOrdered(t, n)
    BY <1>1, MarksInOrder
  <1>3. From(t) \in Nat /\ To(t) \in Nat /\ From(t) = To(t)
    <2> HIDE DEF n
    <2>1. From(t) \in Nat /\ To(t) \in Nat /\ From(t) <= To(t)
      BY <1>2 DEF MarksOrdered
    <2> QED
      BY <2>1
  <1>4. CASE From(t) > n
    BY <1>4, UrlIs
  <1>5. CASE From(t) <= n
    <2>1. HostMarks(t)
      <3>1. From(t) <= Len(t) + 1
        BY <1>1, <1>3, <1>5
      <3> QED
        BY <3>1, HostMarksFound
    <2>2. HostFrom(t) = To(t) /\ HostTo(t) = To(t) /\ ~Bracketed(t)
      BY <2>1, <1>3 DEF HostMarks
    <2>3. ~HostOK(t)
      BY <2>2, <1>3 DEF HostOK
    <2> QED
      BY <2>3, <1>5, GoodIsUrl
  <1> QED
    BY <1>1, <1>3, <1>4, <1>5

\* The first loop ends in the second one, or the call returns.
LEMMA UrlEnds ==
    ASSUME NEW c \in CallType, NEW t \in Seq(Char), Len(t) <= UINT16_RANGE, ReadSoFar(c, t),
           NEW d, d = UrlEnd(c, t)
    PROVE  (d.pc = "host" /\ HostSoFar(d, t)) \/ (d.pc = "done" /\ Splits(d, t))
  <1>1. /\ Good(t) /\ c.u.port = 0 /\ \A f \in Field : Says(c.u, f, Cut(t)[f])
    BY DEF ReadSoFar
  <1>2. "UF_HOST" \in Field /\ "UF_SCHEMA" \in Field /\ "UF_PORT" \in Field
        /\ c.u.field_set \subseteq Field
    BY DEF Field, CallType, StructType
  <1>3. CASE "UF_HOST" \in c.u.field_set
    <2>1. d = HostStart(c)
      BY <1>3 DEF UrlEnd
    <2> QED
      BY <2>1, <1>3, HostBegins, HostStartType
  <1>4. CASE "UF_HOST" \notin c.u.field_set /\ "UF_SCHEMA" \in c.u.field_set
    <2>1. d = Reject(c)
      BY <1>4 DEF UrlEnd
    <2>2. Says(c.u, "UF_SCHEMA", Cut(t)["UF_SCHEMA"]) /\ Says(c.u, "UF_HOST", Cut(t)["UF_HOST"])
      BY <1>1, <1>2
    <2>3. Absolute(t)
      <3>1. Cut(t)["UF_SCHEMA"][1] < Cut(t)["UF_SCHEMA"][2]
        BY <2>2, <1>4 DEF Says
      <3> QED
        BY <3>1, CutHasNone
    <2>4. ~(From(t) < To(t))
      <3>1. Cut(t)["UF_HOST"] = <<From(t), To(t)>>
        BY <2>3, CutPieces
      <3> QED
        BY <3>1, <2>2, <1>4 DEF Says
    <2>5. ~IsUrl(t)
      BY <2>3, <2>4, <1>1, NoAuthority
    <2>6. Splits(d, t)
      BY <2>1, <2>5, Rejected
    <2> QED
      BY <2>1, <2>6, Returns
  <1>5. CASE "UF_HOST" \notin c.u.field_set /\ "UF_SCHEMA" \notin c.u.field_set
    <2>1. ~Absolute(t)
      <3> SUFFICES ASSUME Absolute(t) PROVE FALSE
        OBVIOUS
      <3>1. Cut(t)["UF_SCHEMA"] = <<1, Colon(t)>> /\ Colon(t) > 1
        BY CutPieces, SchemaNotEmpty
      <3>2. Says(c.u, "UF_SCHEMA", Cut(t)["UF_SCHEMA"])
        BY <1>1, <1>2
      <3> QED
        BY <1>5, <3>1, <3>2 DEF Says
    <2>2. \A f \in Field : Says(c.u, f, Pieces(t)[f])
      BY <2>1, <1>1, CutIsPiece
    <2>3. "UF_PORT" \notin c.u.field_set
      <3>1. Says(c.u, "UF_PORT", <<1, 1>>)
        BY <1>1, <1>2, CutPieces
      <3> QED
        BY <3>1 DEF Says
    <2>4. d = Accept(c)
      BY <1>5, <2>3 DEF UrlEnd, Port
    <2>5. d.ret = 0 /\ d.u = c.u /\ d.pc = "done"
      BY <2>4, Returns DEF Accept, CallType
    <2>6. IsUrl(t)
      BY <2>1, <1>1, GoodIsUrl
    <2>7. \A f \in Field : Pieces(t)[f][1] \in Int /\ Pieces(t)[f][2] \in Int
      BY <2>1, PieceTypes
    <2>8. Splits(d, t)
      BY <1>1, <1>2, <2>2, <2>3, <2>5, <2>6, <2>7, Accepted
    <2> QED
      BY <2>5, <2>8
  <1> QED
    BY <1>3, <1>4, <1>5

\* All of the authority has been read: its fields are the pieces of the grammar.
LEMMA AllTold ==
    ASSUME NEW c \in CallType, NEW t \in Seq(Char), HostSoFar(c, t), c.p = c.buflen, HostOK(t)
    PROVE  \A f \in Field : Says(c.u, f, Pieces(t)[f])
  <1> DEFINE x == c.p + 1
             a == From(t)
             b == To(t)
             h == HostFrom(t)
             lo == HostLo(t)
             e == HostTo(t)
             p == PortFrom(t)
             us == UserSpan(t, b)
             hs == HostSpan(t, b)
             ps == PortSpan(t, b)
  <1>1. /\ Absolute(t) /\ HostMarks(t) /\ c.buflen = b - 1 /\ Tells(c.u, t, x)
        /\ \A g \in Elsewhere : Says(c.u, g, Pieces(t)[g])
    BY DEF HostSoFar
  <1>2. /\ a \in Nat /\ h \in Nat /\ a <= h /\ h <= lo /\ lo \in Nat /\ lo <= e /\ e \in Nat
        /\ e < p /\ p \in Nat /\ e <= b /\ b \in Nat
    BY <1>1, MarksInAuthority
  <1>3. c.p \in Nat /\ x = b
    BY <1>1, <1>2 DEF CallType
  <1>4. lo < e
    BY <1>2 DEF HostOK, HostLo
  <1>5. /\ us[1] = a /\ us[2] = (IF b < h - 1 THEN b ELSE h - 1)
        /\ hs[1] = lo /\ hs[2] = (IF b < e THEN b ELSE e)
        /\ ps[1] = p /\ ps[2] = b
    BY <1>1, <1>2, Spans
  <1>6. us[2] = h - 1 /\ hs[2] = e /\ b > lo
    <2> HIDE DEF us, hs, a, b, h, lo, e, p
    <2>1. ~(b < h - 1) /\ (b < e => b = e) /\ b > lo
      BY <1>2, <1>4
    <2> QED
      BY <1>5, <2>1
  <1>7. Tells(c.u, t, b)
    BY <1>1, <1>3
  <1>8. /\ Says(c.u, "UF_USERINFO", us) /\ Says(c.u, "UF_HOST", hs) /\ Says(c.u, "UF_PORT", ps)
    BY <1>6, <1>7 DEF Tells
  <1>9. /\ us = <<a, h - 1>> /\ hs = <<lo, e>> /\ ps = <<p, b>>
    BY <1>5, <1>6 DEF UserSpan, HostSpan, PortSpan
  <1>10. /\ Pieces(t)["UF_USERINFO"] = us /\ Pieces(t)["UF_HOST"] = hs /\ Pieces(t)["UF_PORT"] = ps
    BY <1>1, <1>9, UrlPieces
  <1> HIDE DEF us, hs, ps
  <1>11. Field = Elsewhere \cup {"UF_USERINFO", "UF_HOST", "UF_PORT"}
    BY DEF Field, Elsewhere
  <1> QED
    BY <1>1, <1>8, <1>10, <1>11

\* The port that is read again
LEMMA PortValue ==
    ASSUME NEW c \in CallType, NEW t, "UF_PORT" \in c.u.field_set, NEW d, d = Port(c, t)
    PROVE  LET v == Number(t, c.u.off["UF_PORT"])
           IN  /\ v > UINT16_RANGE - 1 => d = Reject(c)
               /\ ~(v > UINT16_RANGE - 1) =>
                     /\ d.ret = 0 /\ d.u.field_set = c.u.field_set /\ d.u.off = c.u.off
                     /\ d.u.len = c.u.len /\ d.u.port = v
  <1> DEFINE v == Number(t, c.u.off["UF_PORT"])
             e == [c EXCEPT !.u.port = v]
  <1>1. /\ v > UINT16_RANGE - 1 => d = Reject(c)
        /\ ~(v > UINT16_RANGE - 1) => d = Accept(e)
    BY DEF Port
  <1>2. \A q : LET x == [c EXCEPT !.u.port = q]
               IN  /\ Accept(x).ret = 0 /\ Accept(x).u.field_set = c.u.field_set
                   /\ Accept(x).u.off = c.u.off /\ Accept(x).u.len = c.u.len
                   /\ Accept(x).u.port = q
    BY DEF Accept, CallType, StructType
  <1> HIDE DEF v
  <1> QED
    BY <1>1, <1>2 DEF v

\* The second loop ends in what the grammar says.
LEMMA HostsEnd ==
    ASSUME NEW c \in CallType, NEW t \in Seq(Char), HostSoFar(c, t), c.p = c.buflen,
           NEW d, d = HostEnd(c, t)
    PROVE  Splits(d, t)
  <1> DEFINE s == c.s
             b == To(t)
             p == PortFrom(t)
  <1>1. /\ Absolute(t) /\ Good(t) /\ HostMarks(t) /\ From(t) <= Len(t) /\ c.buflen = b - 1
        /\ HostStage(s, t, c.p + 1) /\ c.u.port = 0
    BY DEF HostSoFar, Tells
  <1>2. b \in Nat /\ p \in Nat /\ p > 3 /\ c.p + 1 = b
    BY <1>1, MarksInAuthority DEF CallType
  <1>3. HostLeft(s, t)
    BY <1>1, <1>2, HostEnds
  <1>4. IsUrl(t) <=> UserOK(t) /\ HostOK(t) /\ PortOK(t)
    BY <1>1, GoodIsUrl
  <1>5. \A f \in Field : Pieces(t)[f][1] \in Int /\ Pieces(t)[f][2] \in Int
    BY <1>1, PieceTypes
  <1>6. "UF_PORT" \in Field /\ Pieces(t)["UF_PORT"] = <<p, b>> /\ c.u.field_set \subseteq Field
    BY <1>1, UrlPieces DEF Field, CallType, StructType
  <1>7. CASE s \notin {"s_http_host", "s_http_host_v6_end", "s_http_host_port"}
    <2>1. d = Reject(c)
      BY <1>7 DEF HostEnd
    <2>2. ~IsUrl(t)
      BY <1>3, <1>4, <1>7 DEF HostLeft, AllOK
    <2> QED
      BY <2>1, <2>2, Rejected
  <1>8. CASE s \in {"s_http_host", "s_http_host_v6_end"}
    <2>1. UserOK(t) /\ HostOK(t) /\ p = b + 1
      BY <1>3, <1>8 DEF HostLeft
    <2>2. IsUrl(t)
      BY <1>4, <2>1 DEF PortOK
    <2>3. \A f \in Field : Says(c.u, f, Pieces(t)[f])
      BY <2>1, AllTold
    <2>4. "UF_PORT" \notin c.u.field_set
      <3>1. Says(c.u, "UF_PORT", <<p, b>>)
        BY <1>6, <2>3
      <3> HIDE DEF p, b
      <3>2. ~(p < b)
        BY <1>2, <2>1
      <3> QED
        BY <3>1, <3>2 DEF Says
    <2>5. d = Accept(c)
      BY <1>8, <2>4 DEF HostEnd, Port
    <2>6. d.ret = 0 /\ d.u = c.u
      BY <2>5, Returns DEF Accept, CallType
    <2> QED
      BY <1>1, <1>5, <1>6, <2>2, <2>3, <2>4, <2>6, Accepted
  <1>9. CASE s = "s_http_host_port"
    <2>1. /\ UserOK(t) /\ HostOK(t) /\ t[p - 1] = ":" /\ p < b /\ Of(t, <<p, b>>, Digit)
      BY <1>3, <1>9 DEF HostLeft
    <2>2. \A f \in Field : Says(c.u, f, Pieces(t)[f])
      BY <2>1, AllTold
    <2>3. "UF_PORT" \in c.u.field_set /\ c.u.off["UF_PORT"] = p - 1
      <3>1. Says(c.u, "UF_PORT", <<p, b>>)
        BY <1>6, <2>2
      <3> HIDE DEF p, b
      <3> QED
        BY <3>1, <2>1 DEF Says
    <2> DEFINE v == Number(t, p - 1)
    <2>4. d = Port(c, t)
      BY <1>9 DEF HostEnd
    <2>5. /\ v > UINT16_RANGE - 1 => d = Reject(c)
          /\ ~(v > UINT16_RANGE - 1) =>
                /\ d.ret = 0 /\ d.u.field_set = c.u.field_set /\ d.u.off = c.u.off
                /\ d.u.len = c.u.len /\ d.u.port = v
      BY <2>3, <2>4, PortValue
    <2>6. v \in Nat /\ UINT16_RANGE \in Nat
      <3>1. p - 1 \in 0..Len(t)
        <4>1. b <= Len(t) + 1 /\ Len(t) \in Nat
          BY <1>1, MarksInAuthority
        <4> HIDE DEF b, p
        <4> QED
          BY <4>1, <1>2, <2>1
      <3>2. Len(t) \in Nat
        OBVIOUS
      <3> HIDE DEF p
      <3> QED
        BY <3>1, <3>2, NumberType, RangeAssumption
    <2>7. PortOK(t) <=> v < UINT16_RANGE
      <3>1. p # b + 1
        <4> HIDE DEF p, b
        <4> QED
          BY <1>2, <2>1
      <3> HIDE DEF v
      <3> QED
        BY <2>1, <3>1 DEF PortOK, v
    <2> HIDE DEF v
    <2>8. CASE v > UINT16_RANGE - 1
      <3>1. ~IsUrl(t)
        BY <1>4, <2>6, <2>7, <2>8
      <3> QED
        BY <2>5, <2>8, <3>1, Rejected
    <2>9. CASE ~(v > UINT16_RANGE - 1)
      <3>1. IsUrl(t)
        BY <1>4, <2>1, <2>6, <2>7, <2>9
      <3>2. \A f \in Field : Says(d.u, f, Pieces(t)[f])
        BY <2>2, <2>5, <2>9 DEF Says
      <3>3. d.u.port = IF "UF_PORT" \in d.u.field_set THEN Number(t, d.u.off["UF_PORT"]) ELSE 0
        BY <2>3, <2>5, <2>9 DEF v
      <3> QED
        BY <1>5, <1>6, <2>5, <2>9, <3>1, <3>2, <3>3, Accepted
    <2> QED
      BY <2>8, <2>9
  <1> QED
    BY <1>7, <1>8, <1>9

-----------------------------------------------------------------------------
(* The specification splits a URL as the grammar does *)

\* What the two loops know of the URL, if it fits into 16 bits, and what has come of it
LoopInv(c, t) ==
    /\ c.pc = "url" => ReadSoFar(c, t)
    /\ c.pc = "host" => HostSoFar(c, t)
    /\ c.pc = "done" => Splits(c, t)

SplitInv == parse \in CallType /\ (Len(url) <= UINT16_RANGE => LoopInv(parse, url))

LEMMA ReadsNothing ==
    ASSUME NEW m \in Nat, NEW c, c = Start(Garbage(m)), NEW t, t = <<>>
    PROVE  c \in CallType /\ LoopInv(c, t)
  <1> DEFINE u == [field_set |-> {}, port |-> 0, off |-> [f \in Field |-> m],
                   len |-> [f \in Field |-> m]]
  <1>1. c.u = u
    BY DEF Start, Garbage
  <1>2. u \in StructType
    BY DEF StructType
  <1>3. /\ c.pc = "url" /\ c.p = 0 /\ c.s = "s_req_spaces_before_url" /\ c.old_uf = "UF_MAX"
        /\ c.found_at = FALSE
    BY DEF Start
  <1>4. c \in CallType
    <2> HIDE DEF u
    <2>1. c = [pc |-> "url", p |-> 0, s |-> "s_req_spaces_before_url", old_uf |-> "UF_MAX",
               found_at |-> FALSE, buflen |-> 0, ret |-> 0, u |-> u]
      BY <1>1 DEF Start
    <2> QED
      BY <2>1, <1>2 DEF CallType, UrlState
  <1>5. u.field_set = {} /\ u.port = 0
    OBVIOUS
  <1> HIDE DEF u
  <1>6. t \in Seq(Char) /\ Len(t) = 0 /\ ~Absolute(t)
    BY DEF Absolute
  <1>7. Stage(c.s, t)
    BY <1>3, <1>6 DEF Stage, UrlState, SchemaStates, Server
  <1>8. TargetFrom(t) = 1
    BY <1>6 DEF TargetFrom
  <1>9. Good(t)
    BY <1>6, <1>8 DEF Good, Of
  <1>10. \A f \in Field : ~(Cut(t)[f][1] < Cut(t)[f][2])
    <2> DEFINE n == Len(t)
    <2>1. n = 0 /\ n \in Nat
      BY <1>6
    <2>2. MarksOrdered(t, n)
      BY <2>1, MarksInOrder
    <2> HIDE DEF n
    <2>3. /\ QueryMark(t) = 1 /\ FragmentMark(t) = 1 /\ FragmentFrom(t) = 1
      BY <1>8, <2>1, <2>2 DEF MarksOrdered
    <2>4. Len(t) + 1 = 1 /\ QueryMark(t) + 1 = 2
      BY <1>6, <2>3
    <2>5. /\ Cut(t)["UF_USERINFO"] = <<1, 1>> /\ Cut(t)["UF_PORT"] = <<1, 1>>
          /\ Cut(t)["UF_HOST"] = <<1, 1>> /\ Cut(t)["UF_SCHEMA"] = <<1, 1>>
      BY <1>6, CutPieces
    <2>6. /\ Cut(t)["UF_PATH"] = <<1, 1>> /\ Cut(t)["UF_QUERY"] = <<2, 1>>
          /\ Cut(t)["UF_FRAGMENT"] = <<1, 1>>
      BY <1>8, <2>3, <2>4, CutPieces
    <2> QED
      BY <2>5, <2>6 DEF Field
  <1>11. \A f \in Field : Says(u, f, Cut(t)[f])
    BY <1>5, <1>10 DEF Says
  <1>12. FieldOf(c.s) = "none"
    BY <1>3 DEF FieldOf
  <1>13. ReadSoFar(c, t)
    BY <1>1, <1>3, <1>5, <1>6, <1>7, <1>9, <1>11, <1>12 DEF ReadSoFar
  <1> QED
    BY <1>3, <1>4, <1>13 DEF LoopInv

LEMMA InitSplit == UInit => SplitInv
  <1> SUFFICES ASSUME UInit PROVE SplitInv
    OBVIOUS
  <1>1. PICK m \in Memory : parse = Start(Garbage(m))
    BY DEF UInit
  <1>2. m \in Nat /\ url = <<>>
    BY MemoryAssumption, RangeAssumption DEF UInit
  <1> QED
    BY <1>1, <1>2, ReadsNothing DEF SplitInv

LEMMA NextSplit == IInv /\ SplitInv /\ [UNext]_uvars => SplitInv'
  <1> SUFFICES ASSUME IInv, SplitInv, [UNext]_uvars PROVE SplitInv'
    OBVIOUS
  <1>1. /\ url \in Seq(Char) /\ ParseInv(parse, Len(url)) /\ Len(url) \in Nat
        /\ UINT16_RANGE \in Nat
    BY RangeAssumption DEF IInv
  <1>2. parse \in CallType /\ (Len(url) <= UINT16_RANGE => LoopInv(parse, url))
    BY DEF SplitInv
  <1>3. InText(parse.u, Len(url))
    BY <1>1 DEF ParseInv
  <1>4. CASE ReadUrl
    <2>1. PICK ch \in Offered[parse.s] :
             url' = Append(url, ch) /\ parse' = UrlStep(parse, ch)
      BY <1>4 DEF ReadUrl
    <2>2. parse.s \in UrlState /\ parse.pc = "url"
      BY <1>1, <1>4 DEF ParseInv, UrlInv, ReadUrl
    <2>3. ch \in Char
      BY <2>1, <2>2, OfferedAssumption
    <2>4. url' \in Seq(Char) /\ Len(url') = Len(url) + 1
      BY <1>1, <2>1, <2>3
    <2>5. parse' \in CallType
      BY <1>2, <2>1, UrlStepType
    <2>6. ASSUME Len(url') <= UINT16_RANGE PROVE LoopInv(parse', url')
      <3>1. ReadSoFar(parse, url)
        <4>1. Len(url) <= UINT16_RANGE
          BY <1>1, <2>4, <2>6
        <4> QED
          BY <4>1, <1>2, <2>2 DEF LoopInv
      <3>2. \/ parse' = Reject(parse) /\ ~Good(url')
            \/ parse'.pc = parse.pc /\ ReadSoFar(parse', url')
        BY <1>1, <1>2, <2>1, <2>3, <2>6, <3>1, ReadsOn
      <3>3. CASE parse' = Reject(parse) /\ ~Good(url')
        <4>1. ~IsUrl(url')
          BY <2>4, <3>3, UrlIsGood
        <4>2. Splits(parse', url') /\ parse'.pc = "done"
          BY <1>2, <3>3, <4>1, Rejected, Returns
        <4> QED
          BY <4>2 DEF LoopInv
      <3>4. CASE parse'.pc = parse.pc /\ ReadSoFar(parse', url')
        BY <2>2, <3>4 DEF LoopInv
      <3> QED
        BY <3>2, <3>3, <3>4
    <2> QED
      BY <2>5, <2>6 DEF SplitInv
  <1>5. CASE EndUrl
    <2>1. parse.pc = "url" /\ parse' = UrlEnd(parse, url) /\ url' = url
      BY <1>5 DEF EndUrl
    <2>2. parse' \in CallType
      <3>1. Port(parse, url) \in CallType
        BY <1>1, <1>2, <1>3, PortType
      <3> QED
        BY <1>2, <2>1, <3>1, HostStartType, Returns DEF UrlEnd
    <2>3. ASSUME Len(url) <= UINT16_RANGE PROVE LoopInv(parse', url)
      <3>1. ReadSoFar(parse, url)
        BY <1>2, <2>1, <2>3 DEF LoopInv
      <3>2. \/ parse'.pc = "host" /\ HostSoFar(parse', url)
            \/ parse'.pc = "done" /\ Splits(parse', url)
        BY <1>1, <1>2, <2>1, <2>3, <3>1, UrlEnds
      <3> QED
        BY <3>2 DEF LoopInv
    <2> QED
      BY <2>1, <2>2, <2>3 DEF SplitInv
  <1>6. CASE ReadHost
    <2>1. /\ parse.pc = "host" /\ parse.p < parse.buflen
          /\ parse' = HostStep(parse, url[parse.p + 1]) /\ url' = url
      BY <1>6 DEF ReadHost
    <2>2. parse' \in CallType
      BY <1>2, <2>1, HostStepType
    <2>3. ASSUME Len(url) <= UINT16_RANGE PROVE LoopInv(parse', url)
      <3>1. HostSoFar(parse, url)
        BY <1>2, <2>1, <2>3 DEF LoopInv
      <3>2. \/ parse' = Reject(parse) /\ ~IsUrl(url)
            \/ parse'.pc = parse.pc /\ HostSoFar(parse', url)
        BY <1>1, <1>2, <2>1, <2>3, <3>1, HostsOn
      <3>3. CASE parse' = Reject(parse) /\ ~IsUrl(url)
        <4>1. Splits(parse', url) /\ parse'.pc = "done"
          BY <1>2, <3>3, Rejected, Returns
        <4> QED
          BY <4>1 DEF LoopInv
      <3>4. CASE parse'.pc = parse.pc /\ HostSoFar(parse', url)
        BY <2>1, <3>4 DEF LoopInv
      <3> QED
        BY <3>2, <3>3, <3>4
    <2> QED
      BY <2>1, <2>2, <2>3 DEF SplitInv
  <1>7. CASE EndHost
    <2>1. /\ parse.pc = "host" /\ parse.p = parse.buflen
          /\ parse' = HostEnd(parse, url) /\ url' = url
      BY <1>7 DEF EndHost
    <2>2. parse' \in CallType /\ parse'.pc = "done"
      <3>1. Port(parse, url) \in CallType /\ Port(parse, url).pc = "done"
        BY <1>1, <1>2, <1>3, PortType, PortReturns
      <3> QED
        BY <1>2, <2>1, <3>1, Returns DEF HostEnd
    <2>3. ASSUME Len(url) <= UINT16_RANGE PROVE LoopInv(parse', url)
      <3>1. HostSoFar(parse, url)
        BY <1>2, <2>1, <2>3 DEF LoopInv
      <3>2. Splits(parse', url)
        BY <1>1, <1>2, <2>1, <3>1, HostsEnd
      <3> QED
        BY <2>2, <3>2 DEF LoopInv
    <2> QED
      BY <2>1, <2>2, <2>3 DEF SplitInv
  <1>8. CASE Returned \/ UNCHANGED uvars
    BY <1>2, <1>8 DEF Returned, uvars, SplitInv
  <1> QED
    BY <1>4, <1>5, <1>6, <1>7, <1>8 DEF UNext

\* http_parser_parse_url returns 0 exactly for the URLs of the grammar and reports their
\* pieces and their port, for every URL whose pieces fit into 16 bits, although it reads
\* the authority twice, the second time over what the first loop has called the host.
THEOREM SplitsAsWritten == USpec => []SplitAsWritten
  <1>1. SplitInv => SplitAsWritten
    BY DEF SplitInv, LoopInv, Splits, Fits, SplitAsWritten
  <1> QED
    BY <1>1, InitSplit, NextSplit, UrlInvariance, PTL DEF USpec
=============================================================================
