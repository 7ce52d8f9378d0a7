------------------------- MODULE RequestBuilderProofs -------------------------
(***************************************************************************)
(* What holds of the headers of a request for any number of calls, of      *)
(* URLs and of places, whichever mallocs fail.                             *)
(*                                                                         *)
(* The properties speak of the text of the last build and of the headers   *)
(* that were added successfully; what connects the two is the arrays in    *)
(* between.  The invariant says that they begin with the headers added     *)
(* and that what a failed call left behind them lies in the one place the  *)
(* next header will take.                                                  *)
(***************************************************************************)
EXTENDS RequestBuilder, UrlStepsProofs, FiniteSetTheorems

IsSequence(s) == \E S : s \in Seq(S)

\* n elements, or one more that a failed call has left
Holds(array, n) == IsSequence(array) /\ Len(array) \in {n, n + 1}

Arrays(b) ==
    /\ b \in [life : {b.life}, method : {b.method}, parsed_url : {b.parsed_url},
              header_fields : {b.header_fields}, header_values : {b.header_values},
              headers_count : Nat]
    /\ b.headers_count <= MAX_HEADERS_COUNT
    /\ Holds(b.header_fields, b.headers_count)
    /\ Holds(b.header_values, b.headers_count)

\* The arrays begin with the headers a, and count no more
Match(b, a) ==
    /\ IsSequence(a)
    /\ b.headers_count = Len(a)
    /\ \A i \in 1..Len(a) : /\ b.header_fields[i] = a[i].field
                            /\ b.header_values[i] = a[i].value

\* The request r carries headers of a
Carries(r, a) ==
    r # NoRequest =>
        /\ Len(r.headers) \in Nat /\ Len(r.headers) <= Len(a)
        /\ \A i \in 1..Len(r.headers) :
              r.headers[i] = [field |-> a[i].field, value |-> a[i].value]

IInv ==
    /\ Arrays(rb) /\ IsSequence(asked)
    /\ rb.life = "ready" => Match(rb, asked)
    /\ Carries(request, asked)
    /\ SlotsCounted

-----------------------------------------------------------------------------
(* Sequences *)

LEMMA EmptySequence == IsSequence(<<>>) /\ Len(<<>>) = 0
  <1>1. <<>> \in Seq({})
    OBVIOUS
  <1> QED
    BY <1>1 DEF IsSequence

\* An element more at the end leaves the others where they are.
LEMMA AppendOne ==
    ASSUME NEW s, IsSequence(s), NEW e
    PROVE  /\ IsSequence(Append(s, e)) /\ Len(s) \in Nat
           /\ Len(Append(s, e)) = Len(s) + 1
           /\ Append(s, e)[Len(s) + 1] = e
           /\ \A i \in 1..Len(s) : Append(s, e)[i] = s[i]
  <1>1. PICK S : s \in Seq(S)
    BY DEF IsSequence
  <1>2. s \in Seq(S \cup {e})
    BY <1>1
  <1>3. Append(s, e) \in Seq(S \cup {e})
    BY <1>2
  <1> QED
    BY <1>2, <1>3 DEF IsSequence

\* Put writes the place after the first n and leaves these alone.
LEMMA PutHolds ==
    ASSUME NEW n \in Nat, NEW s, Holds(s, n), NEW e
    PROVE  /\ IsSequence(Put(s, n + 1, e)) /\ Len(Put(s, n + 1, e)) = n + 1
           /\ Put(s, n + 1, e)[n + 1] = e
           /\ \A i \in 1..n : Put(s, n + 1, e)[i] = s[i]
  <1>1. CASE Len(s) = n
    BY <1>1, AppendOne DEF Put, Holds
  <1>2. CASE Len(s) = n + 1
    <2>1. PICK S : s \in Seq(S)
      BY DEF Holds, IsSequence
    <2>2. s \in Seq(S \cup {e})
      BY <2>1
    <2>3. Put(s, n + 1, e) = [s EXCEPT ![n + 1] = e]
      BY <1>2 DEF Put
    <2>4. n + 1 \in 1..Len(s)
      BY <1>2
    <2> DEFINE t == Put(s, n + 1, e)
    <2>5. /\ t \in Seq(S \cup {e}) /\ Len(t) = Len(s) /\ t[n + 1] = e
          /\ \A j \in 1..Len(s) : j # n + 1 => t[j] = s[j]
      BY <2>2, <2>3, <2>4
    <2> HIDE DEF t
    <2>6. \A i \in 1..n : t[i] = s[i]
      BY <1>2, <2>5
    <2>7. IsSequence(t) /\ Len(t) = n + 1 /\ t[n + 1] = e
      BY <1>2, <2>5 DEF IsSequence
    <2> QED
      BY <2>6, <2>7 DEF t
  <1> QED
    BY <1>1, <1>2 DEF Holds

-----------------------------------------------------------------------------
(* Headers *)

\* A header that is added is the last of the arrays; one that is not, for lack of memory,
\* leaves what was there.
LEMMA WithHeaderInv ==
    ASSUME NEW b, NEW a, Arrays(b), Match(b, a), b.headers_count < MAX_HEADERS_COUNT,
           NEW failed \in {"none", "field", "value"}, NEW h,
           NEW w, w = WithHeader(b, h.field, h.value, failed)
    PROVE  /\ Arrays(w) /\ w.life = b.life
           /\ failed = "none" => Match(w, Append(a, h))
           /\ failed # "none" => Match(w, a)
  <1> DEFINE i == b.headers_count + 1
             fields == Put(b.header_fields, i, IF failed = "field" THEN NullPtr ELSE h.field)
             values == IF failed = "field" THEN b.header_values
                       ELSE Put(b.header_values, i, IF failed = "value" THEN NullPtr ELSE h.value)
             count == IF failed = "none" THEN i ELSE b.headers_count
  <1>1. /\ b.headers_count \in Nat /\ i \in Nat /\ i <= MAX_HEADERS_COUNT
        /\ Holds(b.header_fields, b.headers_count) /\ Holds(b.header_values, b.headers_count)
    BY BuilderAssumption DEF Arrays
  <1>2. /\ w.life = b.life /\ w.header_fields = fields
        /\ w.header_values = values /\ w.headers_count = count
        /\ w \in [life : {w.life}, method : {w.method}, parsed_url : {w.parsed_url},
                  header_fields : {fields}, header_values : {values}, headers_count : {count}]
    BY DEF WithHeader, Arrays
  <1>3. /\ IsSequence(fields) /\ Len(fields) = i
        /\ \A j \in 1..b.headers_count : fields[j] = b.header_fields[j]
        /\ failed = "none" => fields[i] = h.field
    BY <1>1, PutHolds
  <1>4. /\ IsSequence(values) /\ Len(values) \in {b.headers_count, i}
        /\ \A j \in 1..b.headers_count : values[j] = b.header_values[j]
        /\ failed = "none" => Len(values) = i /\ values[i] = h.value
    <2>1. CASE failed = "field"
      BY <1>1, <2>1 DEF Holds
    <2>2. CASE failed # "field"
      BY <1>1, <2>2, PutHolds
    <2> QED
      BY <2>1, <2>2
  <1> HIDE DEF fields, values
  <1>5. Arrays(w)
    <2>1. Holds(fields, count) /\ Holds(values, count)
      BY <1>1, <1>3, <1>4 DEF Holds
    <2>2. count \in Nat /\ count <= MAX_HEADERS_COUNT
      BY <1>1, BuilderAssumption
    <2> QED
      BY <1>2, <2>1, <2>2 DEF Arrays
  <1>6. CASE failed = "none"
    <2>1. /\ IsSequence(Append(a, h)) /\ Len(Append(a, h)) = i /\ Append(a, h)[i] = h
          /\ \A j \in 1..b.headers_count : Append(a, h)[j] = a[j]
      BY AppendOne DEF Match
    <2>2. \A j \in 1..i : j = i \/ j \in 1..b.headers_count
      BY <1>1
    <2>3. \A j \in 1..i : fields[j] = Append(a, h)[j].field /\ values[j] = Append(a, h)[j].value
      BY <1>3, <1>4, <1>6, <2>1, <2>2 DEF Match
    <2> QED
      BY <1>2, <1>5, <1>6, <2>1, <2>3 DEF Match
  <1>7. CASE failed # "none"
    BY <1>2, <1>3, <1>4, <1>5, <1>7 DEF Match
  <1> QED
    BY <1>6, <1>7

\* The calls that add a header leave the text of the last build as it was.
LEMMA CarriesMore ==
    ASSUME NEW r, NEW a, IsSequence(a), Carries(r, a), NEW h
    PROVE  Carries(r, Append(a, h))
  <1>1. Len(a) \in Nat /\ Len(Append(a, h)) = Len(a) + 1
        /\ \A i \in 1..Len(a) : Append(a, h)[i] = a[i]
    BY AppendOne
  <1> QED
    BY <1>1 DEF Carries

\* What build writes carries the headers the arrays match.
LEMMA TextCarries ==
    ASSUME NEW b, NEW a, Match(b, a), NEW url, NEW size
    PROVE  Carries(Text(b, url, size), a)
  <1> DEFINE hs == Text(b, url, size).headers
  <1>1. hs = [i \in 1..b.headers_count |->
                 [field |-> b.header_fields[i], value |-> b.header_values[i]]]
    BY DEF Text
  <1>2. b.headers_count = Len(a) /\ Len(a) \in Nat
    BY AppendOne DEF Match
  <1>3. Len(hs) = Len(a)
    BY <1>1, <1>2
  <1>4. \A i \in 1..Len(a) : hs[i] = [field |-> a[i].field, value |-> a[i].value]
    BY <1>1, <1>2 DEF Match
  <1> HIDE DEF hs
  <1>5. Len(hs) \in Nat /\ Len(hs) <= Len(a)
        /\ \A i \in 1..Len(hs) : hs[i] = [field |-> a[i].field, value |-> a[i].value]
    BY <1>2, <1>3, <1>4
  <1> QED
    BY <1>5 DEF Carries, hs

-----------------------------------------------------------------------------
(* The calls *)

LEMMA FailingNone == Failing \subseteq {"none", "field", "value"}
  BY DEF Failing

\* The arrays are full only of headers that were added.
LEMMA FullCounted ==
    ASSUME IInv, rb.life = "ready", Full
    PROVE  Len(asked) = MAX_HEADERS_COUNT
  BY BuilderAssumption DEF IInv, Arrays, Match, Full

LEMMA NewInv == Arrays([NewBuilder EXCEPT !.life = "ready"]) /\ Arrays(NewBuilder)
  BY EmptySequence, BuilderAssumption DEF Arrays, NewBuilder, Holds

LEMMA SetHeaderInv ==
    ASSUME IInv, fault = "none", NEW field, NEW value,
           request_builder_set_header(field, value)
    PROVE  IInv'
  <1>1. rb.life = "ready" /\ Arrays(rb) /\ Match(rb, asked) /\ UNCHANGED request
    BY DEF IInv, request_builder_set_header
  <1>2. CASE Full
    BY <1>1, <1>2, FullCounted
       DEF IInv, request_builder_set_header, SlotsCounted, Carries
  <1>3. CASE ~Full
    <2> DEFINE h == [from |-> NullPtr, field |-> field, value |-> value]
    <2>1. PICK failed \in Failing :
             /\ rb' = WithHeader(rb, field, value, failed)
             /\ asked' = IF failed = "none" THEN Append(asked, h) ELSE asked
             /\ UNCHANGED fault
      BY <1>3 DEF request_builder_set_header
    <2>2. Arrays(rb') /\ Match(rb', asked')
      <3>1. rb.headers_count < MAX_HEADERS_COUNT
        BY <1>1, <1>3, BuilderAssumption DEF Full, Arrays
      <3>2. rb' = WithHeader(rb, h.field, h.value, failed)
        BY <2>1
      <3>3. failed \in {"none", "field", "value"}
        BY FailingNone
      <3> HIDE DEF h
      <3>4. /\ Arrays(WithHeader(rb, h.field, h.value, failed))
            /\ failed = "none" => Match(WithHeader(rb, h.field, h.value, failed), Append(asked, h))
            /\ failed # "none" => Match(WithHeader(rb, h.field, h.value, failed), asked)
        BY <1>1, <3>1, <3>3, WithHeaderInv, Zenon
      <3> QED
        BY <2>1, <3>2, <3>4
    <2>3. Carries(request', asked')
      <3> HIDE DEF h
      <3> QED
        BY <1>1, <2>1, CarriesMore DEF IInv
    <2> QED
      BY <2>1, <2>2, <2>3 DEF IInv, SlotsCounted, Match
  <1> QED
    BY <1>2, <1>3

LEMMA SetParsedUrlInv ==
    ASSUME IInv, fault = "none", NEW p, request_builder_set_parsed_url(p)
    PROVE  IInv'
  <1>1. rb.life = "ready" /\ Arrays(rb) /\ Match(rb, asked) /\ UNCHANGED request
    BY DEF IInv, request_builder_set_parsed_url
  <1>2. CASE UNCHANGED <<rb, asked>> /\ fault' = "null"
    BY <1>1, <1>2 DEF IInv, SlotsCounted
  <1>3. CASE UNCHANGED <<rb, asked>> /\ fault' = "slots" /\ Full
    BY <1>1, <1>3, FullCounted DEF IInv, SlotsCounted
  <1> DEFINE text == HostText(parse_url[p])
             h == [from |-> given[p], field |-> <<"Host">>, value |-> text]
  <1>4. CASE \E failed \in Failing :
                /\ ~Full
                /\ rb' = Linked(WithHeader(rb, <<"Host">>, text, failed), p, failed)
                /\ asked' = IF failed = "none" THEN Append(asked, h) ELSE asked
                /\ UNCHANGED fault
    <2>1. PICK failed \in Failing :
             /\ ~Full
             /\ rb' = Linked(WithHeader(rb, <<"Host">>, text, failed), p, failed)
             /\ asked' = IF failed = "none" THEN Append(asked, h) ELSE asked
             /\ UNCHANGED fault
      BY <1>4
    <2> DEFINE b == WithHeader(rb, <<"Host">>, text, failed)
    <2>2. Arrays(b) /\ Match(b, asked')
      <3>1. rb.headers_count < MAX_HEADERS_COUNT
        BY <1>1, <2>1, BuilderAssumption DEF Full, Arrays
      <3>2. b = WithHeader(rb, h.field, h.value, failed)
        OBVIOUS
      <3>3. failed \in {"none", "field", "value"}
        BY FailingNone
      <3> HIDE DEF h, text
      <3>4. /\ Arrays(WithHeader(rb, h.field, h.value, failed))
            /\ failed = "none" => Match(WithHeader(rb, h.field, h.value, failed), Append(asked, h))
            /\ failed # "none" => Match(WithHeader(rb, h.field, h.value, failed), asked)
        BY <1>1, <3>1, <3>3, WithHeaderInv, Zenon
      <3> QED
        BY <2>1, <3>2, <3>4
    <2> HIDE DEF h, text, b
    <2>3. rb' = b \/ rb' = [b EXCEPT !.parsed_url = p]
      BY <2>1 DEF Linked, b
    <2>4. Arrays(rb') /\ Match(rb', asked')
      BY <2>2, <2>3 DEF Arrays, Match
    <2>5. Carries(request', asked')
      BY <1>1, <2>1, CarriesMore DEF IInv
    <2> QED
      BY <2>1, <2>4, <2>5 DEF IInv, SlotsCounted, Match
  <1>5. \/ UNCHANGED <<rb, asked>> /\ fault' = "null"
        \/ UNCHANGED <<rb, asked>> /\ fault' = "slots" /\ Full
        \/ \E failed \in Failing :
              /\ ~Full
              /\ rb' = Linked(WithHeader(rb, <<"Host">>, text, failed), p, failed)
              /\ asked' = IF failed = "none" THEN Append(asked, h) ELSE asked
              /\ UNCHANGED fault
    BY Zenon DEF request_builder_set_parsed_url
  <1> QED
    BY <1>2, <1>3, <1>4, <1>5

LEMMA BuildInv ==
    ASSUME IInv, fault = "none", NEW size, request_builder_build(size)
    PROVE  IInv'
  <1> DEFINE text == LengthText(size)
             h == [from |-> <<"build">>, field |-> <<"Content-Length">>, value |-> text]
  <1>1. rb.life = "ready" /\ Arrays(rb) /\ Match(rb, asked)
    BY DEF IInv, request_builder_build
  <1>2. CASE Announces(rb, size) /\ Full
    <2>1. fault' = "slots" /\ UNCHANGED <<rb, asked, request>>
      BY <1>2 DEF request_builder_build
    <2> QED
      BY <1>1, <1>2, <2>1, FullCounted DEF IInv, SlotsCounted
  <1>3. CASE ~(Announces(rb, size) /\ Full)
    <2>1. PICK failed, b, url :
             /\ failed \in IF Announces(rb, size) THEN Failing ELSE {"none"}
             /\ b = IF Announces(rb, size)
                    THEN WithHeader(rb, <<"Content-Length">>, text, failed) ELSE rb
             /\ rb' = b
             /\ asked' = IF Announces(rb, size) /\ failed = "none" THEN Append(asked, h)
                         ELSE asked
             /\ request' = Text(b, url, size) \/ request' = NoRequest
      BY <1>3, Zenon DEF request_builder_build
    <2>2. Arrays(b) /\ Match(b, asked')
      <3>1. CASE ~Announces(rb, size)
        BY <1>1, <2>1, <3>1
      <3>2. CASE Announces(rb, size)
        <4>1. rb.headers_count < MAX_HEADERS_COUNT
          BY <1>1, <1>3, <3>2, BuilderAssumption DEF Full, Arrays
        <4>2. h.field = <<"Content-Length">> /\ h.value = text
          OBVIOUS
        <4>3. failed \in {"none", "field", "value"}
          BY <2>1, <3>2, FailingNone
        <4>4. /\ b = WithHeader(rb, h.field, h.value, failed)
              /\ asked' = IF failed = "none" THEN Append(asked, h) ELSE asked
          BY <2>1, <3>2, <4>2, Zenon
        <4> HIDE DEF h, text
        <4>5. /\ Arrays(WithHeader(rb, h.field, h.value, failed))
              /\ failed = "none" => Match(WithHeader(rb, h.field, h.value, failed), Append(asked, h))
              /\ failed # "none" => Match(WithHeader(rb, h.field, h.value, failed), asked)
          BY <1>1, <4>1, <4>3, WithHeaderInv, Zenon
        <4> QED
          BY <4>4, <4>5
      <3> QED
        BY <3>1, <3>2
    <2> HIDE DEF h, text
    <2>3. Carries(request', asked')
      <3>1. Carries(NoRequest, asked')
        BY DEF Carries
      <3>2. Carries(Text(b, url, size), asked')
        BY <2>2, TextCarries
      <3> QED
        BY <2>1, <3>1, <3>2, Zenon
    <2>4. fault' # "slots"
      BY <1>3 DEF request_builder_build
    <2>5. SlotsCounted'
      BY <2>4 DEF SlotsCounted
    <2> QED
      BY <2>1, <2>2, <2>3, <2>5 DEF IInv, Match
  <1> QED
    BY <1>2, <1>3

-----------------------------------------------------------------------------
(* The specification *)

LEMMA InitInv == BInit => IInv
  BY NewInv, EmptySequence DEF BInit, PInit, IInv, NewBuilder, Carries, SlotsCounted

LEMMA BuilderInv ==
    ASSUME IInv, fault = "none", BuilderCall
    PROVE  IInv'
  <1>1. CASE request_builder_init
    <2>1. /\ rb' = [NewBuilder EXCEPT !.life = "ready"] /\ asked' = <<>>
          /\ request' = NoRequest /\ fault' = "none"
      BY <1>1 DEF request_builder_init, pvars
    <2>2. Match([NewBuilder EXCEPT !.life = "ready"], <<>>)
      BY EmptySequence DEF Match, NewBuilder
    <2> QED
      BY <2>1, <2>2, NewInv, EmptySequence DEF IInv, Carries, SlotsCounted
  <1>2. CASE request_builder_free
    <2>1. rb' = NewBuilder /\ UNCHANGED <<asked, request, fault>>
      BY <1>2 DEF request_builder_free
    <2>2. NewBuilder.life = "new"
      BY DEF NewBuilder
    <2> QED
      BY <2>1, <2>2, NewInv DEF IInv, SlotsCounted
  <1>3. ASSUME NEW m, request_builder_set_method(m) PROVE IInv'
    <2>1. /\ rb' = [rb EXCEPT !.method = m] /\ UNCHANGED <<asked, request, fault>>
      BY <1>3 DEF request_builder_set_method, pvars
    <2>2. Arrays(rb') /\ rb'.life = rb.life /\ (Match(rb, asked) => Match(rb', asked'))
      BY <2>1 DEF IInv, Arrays, Match
    <2> QED
      BY <2>1, <2>2 DEF IInv, SlotsCounted
  <1>4. ASSUME NEW p, request_builder_set_parsed_url(p) PROVE IInv'
    BY <1>4, SetParsedUrlInv
  <1>5. ASSUME NEW h, request_builder_set_header(h[1], h[2]) PROVE IInv'
    BY <1>5, SetHeaderInv
  <1>6. ASSUME NEW n, request_builder_build(n) PROVE IInv'
    BY <1>6, BuildInv
  <1> QED
    BY <1>1, <1>2, <1>3, <1>4, <1>5, <1>6 DEF BuilderCall

\* The calls on URLs touch neither the builder nor what was built.
LEMMA UrlCallInv ==
    ASSUME IInv, fault = "none", NEW p, UrlCall(p)
    PROVE  IInv'
  <1>1. UNCHANGED <<rb, request, asked>>
    BY DEF UrlCall
  <1>2. fault' \in {"none", "null"}
    <2>1. CASE parse_url_init(p)
      BY <2>1 DEF parse_url_init
    <2>2. CASE parse_url_free(p)
      BY <2>2 DEF parse_url_free
    <2>3. ASSUME NEW s, parse_url_string(p, s) PROVE fault' \in {"none", "null"}
      BY <2>3, Zenon DEF parse_url_string
    <2> QED
      BY <2>1, <2>2, <2>3 DEF UrlCall
  <1> QED
    BY <1>1, <1>2 DEF IInv, SlotsCounted

LEMMA NextInv == IInv /\ [BNext]_bvars => IInv'
  <1> SUFFICES ASSUME IInv, [BNext]_bvars PROVE IInv'
    OBVIOUS
  <1>1. CASE fault = "none" /\ \E p \in Urls : UrlCall(p)
    BY <1>1, UrlCallInv
  <1>2. CASE fault = "none" /\ BuilderCall
    BY <1>2, BuilderInv
  <1>3. CASE UNCHANGED bvars
    BY <1>3 DEF bvars, pvars, IInv, SlotsCounted
  <1> QED
    BY <1>1, <1>2, <1>3 DEF BNext

\* What IInv says of the arrays holds after every call, however many there were and
\* whichever mallocs failed.
THEOREM BuilderInvariance == BSpec => []IInv
  <1> QED
    BY InitInv, NextInv, PTL DEF BSpec

\* A request carries the headers that were added successfully, in their order and none
\* besides: half a header that a failed set_header, set_parsed_url or build left in the
\* arrays is never sent.
THEOREM HeadersKept == BSpec => []HeadersAsAsked
  <1>1. IInv => HeadersAsAsked
    BY DEF IInv, Carries, HeadersAsAsked
  <1> QED
    BY <1>1, BuilderInvariance, PTL

\* The arrays are overrun only once MAX_HEADERS_COUNT headers are in them: a header whose
\* malloc failed costs no place.
THEOREM SlotsUsed == BSpec => []SlotsCounted
  <1>1. IInv => SlotsCounted
    BY DEF IInv
  <1> QED
    BY <1>1, BuilderInvariance, PTL

-----------------------------------------------------------------------------
(* The URLs: an invariant of its own, whatever the builder does *)

Texts == Seq(Char) \cup {NullPtr}

UrlObject(r) ==
    r \in [life : {"new", "allocated", "parsed"}, port : {r.port}, schema : Texts,
           host : Texts, path : Texts, query : Texts, userinfo : Texts]

\* r holds what s is parsed into by itself
FieldsOf(r, s) ==
    LET u == Parsed[s].u
    IN  /\ r.port = PortOf(u, Copied(u, "UF_SCHEMA", s))
        /\ TextOf(r.schema) = Copied(u, "UF_SCHEMA", s)
        /\ TextOf(r.host) = Copied(u, "UF_HOST", s)
        /\ TextOf(r.path) = PathOr(Copied(u, "UF_PATH", s)) /\ r.path # NullPtr
        /\ TextOf(r.query) = Copied(u, "UF_QUERY", s)
        /\ TextOf(r.userinfo) = Copied(u, "UF_USERINFO", s)

UrlInvOf(r, s) == UrlObject(r) /\ (r.life = "parsed" => s \in Strings /\ FieldsOf(r, s))

UrlsInv ==
    /\ h_parse_url = NoStruct \/ Struct(h_parse_url)
    /\ DOMAIN parse_url = Urls /\ DOMAIN given = Urls
    /\ parse_url = [p \in Urls |-> parse_url[p]] /\ given = [p \in Urls |-> given[p]]
    /\ \A p \in Urls : UrlInvOf(parse_url[p], given[p])

\* NULL is no text.
LEMMA NullIsNoText == NullPtr \notin Seq(Char) /\ NullPtr \notin Strings
  <1>1. NullPtr[1] \notin Char /\ Len(NullPtr) = 1
    BY DEF NullPtr, Char, Alpha, Digit
  <1>2. \A s \in Seq(Char) : Len(s) = 1 => s[1] \in Char
    OBVIOUS
  <1> QED
    BY <1>1, <1>2, StringsAssumption

\* The block of parse_url_init is a struct, whatever malloc left in it.
LEMMA GarbageStruct ==
    ASSUME NEW m \in Nat
    PROVE  Struct(Garbage(m)) /\ Garbage(m) # NoStruct
  <1>1. Struct(Garbage(m)) /\ Garbage(m).field_set = {}
    BY DEF Struct, Garbage
  <1>2. NoStruct.field_set = {"NULL"}
    BY DEF NoStruct, Garbage
  <1> QED
    BY <1>1, <1>2

LEMMA NoStructIsNone == ~Struct(NoStruct)
  <1>1. NoStruct.field_set = {"NULL"}
    BY DEF NoStruct, Garbage
  <1>2. "NULL" \notin Field
    BY DEF Field
  <1> QED
    BY <1>1, <1>2 DEF Struct

\* What a field that lies in the text is copied to.
LEMMA CopiedText ==
    ASSUME NEW s \in Seq(Char), NEW u, Struct(u), InText(u, Len(s)), NEW f
    PROVE  Copied(u, f, s) \in Seq(Char)
  <1>1. CASE f \in u.field_set
    <2>1. u.off[f] \in Nat /\ u.len[f] \in Nat /\ u.off[f] + u.len[f] <= Len(s)
      BY <1>1 DEF Struct, InText, Ends
    <2>2. \A i \in (u.off[f] + 1)..(u.off[f] + u.len[f]) : i \in 1..Len(s)
      BY <2>1
    <2>3. SubSeq(s, u.off[f] + 1, u.off[f] + u.len[f]) \in Seq(Char)
      BY <2>1, <2>2
    <2> QED
      BY <1>1, <2>3 DEF Copied
  <1>2. CASE f \notin u.field_set
    BY <1>2 DEF Copied
  <1> QED
    BY <1>1, <1>2

LEMMA CopiedSame ==
    ASSUME NEW u, NEW v, SameFields(u, v), NEW f, NEW s
    PROVE  Copied(u, f, s) = Copied(v, f, s)
  BY DEF Copied, SameFields

\* Every string is parsed into the same fields, texts all of them, over whatever struct.
LEMMA ParsedOver ==
    ASSUME NEW s \in Strings, NEW h, Struct(h),
           NEW u, u = http_parser_parse_url(s, h).u
    PROVE  /\ Struct(u) /\ SameFields(u, Parsed[s].u) /\ u.port \in Nat
           /\ \A f : /\ Copied(u, f, s) \in Seq(Char)
                     /\ Copied(u, f, s) = Copied(Parsed[s].u, f, s)
  <1>1. s \in Seq(Char) /\ Len(s) \in Nat
    BY StringsAssumption
  <1>2. Struct(u) /\ InText(u, Len(s)) /\ u.port \in Nat
    BY <1>1, ParsedInv DEF ParseInv, Locals, CallType, StructType
  <1>3. Parsed[s] = http_parser_parse_url(s, Garbage(0))
    BY DEF Parsed
  <1>4. Struct(Garbage(0))
    BY GarbageStruct
  <1>5. SameFields(u, Parsed[s].u)
    BY <1>1, <1>3, <1>4, ParsedSame DEF SameCall
  <1> QED
    BY <1>1, <1>2, <1>5, CopiedText, CopiedSame

\* The allocation failures after which parse_url_string follows NULL
TouchedBy(u, s, failed) ==
    \/ failed \cap {"UF_PATH", "slash"} # {}
    \/ \E f \in failed : Copied(u, f, s) # <<>>
    \/ "UF_SCHEMA" \in failed /\ u.port = 0

\* What it stores otherwise.
LEMMA FilledInv ==
    ASSUME NEW s \in Strings, NEW h, Struct(h),
           NEW u, u = http_parser_parse_url(s, h).u,
           NEW failed, ~TouchedBy(u, s, failed)
    PROVE  UrlInvOf(Filled(u, s, failed), s)
  <1> DEFINE c(f) == Copied(u, f, s)
             text(f) == IF f \in failed THEN NullPtr ELSE c(f)
             r == Filled(u, s, failed)
  <1>1. /\ SameFields(u, Parsed[s].u)
        /\ \A f : c(f) \in Seq(Char) /\ c(f) = Copied(Parsed[s].u, f, s)
    BY ParsedOver
  <1>2. /\ r = [life |-> "parsed", port |-> PortOf(u, c("UF_SCHEMA")),
                schema |-> text("UF_SCHEMA"), host |-> text("UF_HOST"),
                path |-> PathOr(text("UF_PATH")), query |-> text("UF_QUERY"),
                userinfo |-> text("UF_USERINFO")]
    BY DEF Filled
  <1>3. \A f : text(f) \in Texts /\ TextOf(text(f)) = c(f)
    <2>1. ASSUME NEW f, f \in failed PROVE text(f) \in Texts /\ TextOf(text(f)) = c(f)
      <3>1. c(f) = <<>>
        BY <2>1 DEF TouchedBy
      <3> HIDE DEF c
      <3> QED
        BY <2>1, <3>1 DEF Texts, TextOf
    <2>2. ASSUME NEW f, f \notin failed PROVE text(f) \in Texts /\ TextOf(text(f)) = c(f)
      <3>1. c(f) \in Seq(Char)
        BY <1>1
      <3> HIDE DEF c
      <3> QED
        BY <2>2, <3>1, NullIsNoText DEF Texts, TextOf
    <2> QED
      BY <2>1, <2>2
  <1>4. "UF_PATH" \notin failed /\ text("UF_PATH") = c("UF_PATH")
    BY DEF TouchedBy
  <1>5. /\ PathOr(c("UF_PATH")) \in Seq(Char) /\ PathOr(c("UF_PATH")) # NullPtr
        /\ TextOf(PathOr(c("UF_PATH"))) = PathOr(c("UF_PATH"))
    <2>1. "/" \in Char /\ c("UF_PATH") \in Seq(Char)
      BY <1>1 DEF Char
    <2> HIDE DEF c
    <2>2. PathOr(c("UF_PATH")) \in Seq(Char)
      BY <2>1 DEF PathOr
    <2> QED
      BY <2>2, NullIsNoText DEF TextOf
  <1>6. PortOf(u, c("UF_SCHEMA"))
          = PortOf(Parsed[s].u, Copied(Parsed[s].u, "UF_SCHEMA", s))
    <2>1. u.port = Parsed[s].u.port
      BY <1>1 DEF SameFields
    <2> QED
      BY <1>1, <2>1 DEF PortOf
  <1>7. \A f : c(f) = Copied(Parsed[s].u, f, s)
    BY <1>1
  <1> HIDE DEF c
  <1>8. UrlObject(r)
    <2>1. PathOr(text("UF_PATH")) \in Texts
      BY <1>4, <1>5 DEF Texts
    <2> HIDE DEF text
    <2> QED
      BY <1>2, <1>3, <2>1 DEF UrlObject
  <1>9. FieldsOf(r, s)
    <2>1. /\ r.port = PortOf(u, c("UF_SCHEMA")) /\ r.path = PathOr(c("UF_PATH"))
          /\ TextOf(r.schema) = c("UF_SCHEMA") /\ TextOf(r.host) = c("UF_HOST")
          /\ TextOf(r.query) = c("UF_QUERY") /\ TextOf(r.userinfo) = c("UF_USERINFO")
      <3>1. r.path = PathOr(text("UF_PATH"))
        BY <1>2
      <3> HIDE DEF text
      <3> QED
        BY <1>2, <1>3, <1>4, <3>1
    <2> HIDE DEF r
    <2> QED
      BY <1>5, <1>6, <1>7, <2>1, Zenon DEF FieldsOf
  <1> QED
    BY <1>8, <1>9 DEF UrlInvOf

-----------------------------------------------------------------------------

\* A call on one object, which gets the value r and the string s.
LEMMA ObjectInv ==
    ASSUME UrlsInv, h_parse_url' = NoStruct \/ Struct(h_parse_url'),
           NEW p \in Urls, NEW r, NEW s, UrlInvOf(r, s),
           parse_url' = [parse_url EXCEPT ![p] = r], given' = [given EXCEPT ![p] = s]
    PROVE  UrlsInv'
  <1>1. /\ DOMAIN parse_url' = Urls /\ DOMAIN given' = Urls
        /\ parse_url' = [q \in Urls |-> parse_url'[q]] /\ given' = [q \in Urls |-> given'[q]]
    BY DEF UrlsInv
  <1>2. ASSUME NEW q \in Urls PROVE UrlInvOf(parse_url'[q], given'[q])
    BY DEF UrlsInv
  <1> QED
    BY <1>1, <1>2 DEF UrlsInv

\* What a call of parse_url_string that follows no NULL does.
StringParsed(p, s, u, failed) ==
    /\ ~TouchedBy(u, s, failed)
    /\ h_parse_url' = u
    /\ parse_url' = [parse_url EXCEPT ![p] = Filled(u, s, failed)]
    /\ given' = [given EXCEPT ![p] = s]
    /\ UNCHANGED fault

\* And one that does.
StringTouched(u) ==
    /\ h_parse_url' = u /\ fault' = "null"
    /\ UNCHANGED <<parse_url, given>>

\* Either way, the callocs for the fields failed having failed
StringDone(p, s, u, failed) ==
    /\ u = http_parser_parse_url(s, h_parse_url).u
    /\ failed = {} \/ TRUE \in Fails
    /\ StringParsed(p, s, u, failed) \/ (StringTouched(u) /\ failed # {})
    /\ heap' = heap + Cardinality(Kept \ failed)
    /\ astray' = astray \cup (IF failed = {} THEN {} ELSE {"no memory"})
          \cup (IF parse_url[p].life = "parsed" THEN {"parsed twice"} ELSE {})
          \cup (IF parse_url[p].life = "allocated" /\ given[p] # NullPtr
                THEN {"used again"} ELSE {})

LEMMA StringCases ==
    ASSUME NEW p, NEW s, parse_url_string(p, s)
    PROVE  \/ /\ h_parse_url = NoStruct /\ fault' = "null"
              /\ UNCHANGED <<h_parse_url, parse_url, heap, given, astray>>
           \/ h_parse_url # NoStruct /\ \E u, failed : StringDone(p, s, u, failed)
  <1>1. CASE h_parse_url = NoStruct
    BY <1>1 DEF parse_url_string
  <1>2. CASE h_parse_url # NoStruct
    <2> DEFINE u == http_parser_parse_url(s, h_parse_url).u
               mark(failed) ==
                  astray \cup (IF failed = {} THEN {} ELSE {"no memory"})
                         \cup (IF parse_url[p].life = "parsed" THEN {"parsed twice"} ELSE {})
                         \cup (IF parse_url[p].life = "allocated" /\ given[p] # NullPtr
                               THEN {"used again"} ELSE {})
    <2>1. PICK failed \in {{}} \cup (IF TRUE \in Fails
                                     THEN {{f} : f \in Kept \cup {"slash"}} ELSE {}) :
             /\ h_parse_url' = u
             /\ fault' = IF TouchedBy(u, s, failed) THEN "null" ELSE fault
             /\ parse_url' = IF TouchedBy(u, s, failed) THEN parse_url
                             ELSE [parse_url EXCEPT ![p] = Filled(u, s, failed)]
             /\ given' = IF TouchedBy(u, s, failed) THEN given ELSE [given EXCEPT ![p] = s]
             /\ heap' = heap + Cardinality(Kept \ failed)
             /\ astray' = mark(failed)
      BY <1>2, Zenon DEF parse_url_string, TouchedBy
    <2> HIDE DEF u, mark
    <2>2. failed = {} \/ TRUE \in Fails
      BY <2>1
    <2>3. CASE TouchedBy(u, s, failed)
      <3>1. failed # {}
        <4>1. ~TouchedBy(u, s, {})
          BY Zenon DEF TouchedBy
        <4> QED
          BY <2>3, <4>1
      <3>2. StringTouched(u)
        BY <2>1, <2>3, Zenon DEF StringTouched
      <3> QED
        BY <1>2, <2>1, <2>2, <3>1, <3>2, Zenon DEF u, mark, StringDone
    <2>4. CASE ~TouchedBy(u, s, failed)
      <3>1. StringParsed(p, s, u, failed)
        BY <2>1, <2>4, Zenon DEF StringParsed
      <3> QED
        BY <1>2, <2>1, <2>2, <3>1, Zenon DEF u, mark, StringDone
    <2> QED
      BY <2>3, <2>4
  <1> QED
    BY <1>1, <1>2

LEMMA InitUrls == BInit => UrlsInv
  <1>1. <<>> \in Texts /\ UrlObject(NewUrl) /\ NewUrl.life = "new"
    BY DEF NewUrl, UrlObject, Texts
  <1> QED
    BY <1>1 DEF BInit, PInit, UrlsInv, UrlInvOf

LEMMA UrlCallUrls ==
    ASSUME UrlsInv, NEW p \in Urls, UrlCall(p)
    PROVE  UrlsInv'
  <1>0. /\ UrlInvOf(parse_url[p], given[p]) /\ UrlObject(parse_url[p])
        /\ given = [given EXCEPT ![p] = given[p]]
    BY DEF UrlsInv, UrlInvOf
  <1>1. CASE parse_url_init(p)
    <2> DEFINE r == [parse_url[p] EXCEPT !.life = "allocated"]
    <2>1. /\ parse_url' = [parse_url EXCEPT ![p] = r] /\ given' = given
          /\ \E m \in Memory : h_parse_url' = NoStruct \/ h_parse_url' = Garbage(m)
      BY <1>1, Zenon DEF parse_url_init
    <2>2. UrlInvOf(r, given[p])
      BY <1>0 DEF UrlInvOf, UrlObject
    <2> HIDE DEF r
    <2>3. h_parse_url' = NoStruct \/ Struct(h_parse_url')
      <3>1. \A m \in Memory : m \in Nat
        BY GarbageAssumption
      <3> QED
        BY <2>1, <3>1, GarbageStruct
    <2> QED
      BY <1>0, <2>1, <2>2, <2>3, ObjectInv
  <1>2. CASE parse_url_free(p)
    <2>1. /\ parse_url' = [parse_url EXCEPT ![p] = NewUrl] /\ given' = given
          /\ h_parse_url' = NoStruct
      BY <1>2 DEF parse_url_free
    <2>2. UrlInvOf(NewUrl, given[p])
      BY DEF NewUrl, UrlInvOf, UrlObject, Texts
    <2> QED
      BY <1>0, <2>1, <2>2, ObjectInv
  <1>3. ASSUME NEW s \in Strings, parse_url_string(p, s) PROVE UrlsInv'
    <2>1. CASE UNCHANGED <<h_parse_url, parse_url, given>>
      BY <2>1 DEF UrlsInv
    <2>2. CASE h_parse_url # NoStruct
      <3>0. PICK u, failed : StringDone(p, s, u, failed)
        BY <1>3, <2>2, StringCases
      <3>1. /\ u = http_parser_parse_url(s, h_parse_url).u
            /\ StringParsed(p, s, u, failed) \/ StringTouched(u)
        BY <3>0, Zenon DEF StringDone
      <3>2. Struct(h_parse_url) /\ Struct(u)
        BY <2>2, <3>1, ParsedOver DEF UrlsInv
      <3>3. CASE StringParsed(p, s, u, failed)
        <4>1. UrlInvOf(Filled(u, s, failed), s)
          BY <3>1, <3>2, <3>3, FilledInv DEF StringParsed
        <4>2. /\ h_parse_url' = u /\ given' = [given EXCEPT ![p] = s]
              /\ parse_url' = [parse_url EXCEPT ![p] = Filled(u, s, failed)]
          BY <3>3 DEF StringParsed
        <4> HIDE DEF StringParsed
        <4> QED
          BY <3>2, <4>1, <4>2, ObjectInv
      <3>4. CASE StringTouched(u)
        BY <3>2, <3>4 DEF UrlsInv, StringTouched
      <3> QED
        BY <3>1, <3>3, <3>4
    <2> QED
      BY <1>3, <2>1, <2>2, StringCases
  <1> QED
    BY <1>1, <1>2, <1>3 DEF UrlCall

\* The builder only reads the URLs.
LEMMA BuilderUrls == BuilderCall => UNCHANGED <<h_parse_url, parse_url, given>>
  <1>1. request_builder_init => UNCHANGED <<h_parse_url, parse_url, given>>
    BY DEF request_builder_init, pvars
  <1>2. request_builder_free => UNCHANGED <<h_parse_url, parse_url, given>>
    BY DEF request_builder_free
  <1>3. ASSUME NEW m, request_builder_set_method(m)
        PROVE  UNCHANGED <<h_parse_url, parse_url, given>>
    BY <1>3 DEF request_builder_set_method, pvars
  <1>4. ASSUME NEW p, request_builder_set_parsed_url(p)
        PROVE  UNCHANGED <<h_parse_url, parse_url, given>>
    BY <1>4, Zenon DEF request_builder_set_parsed_url
  <1>5. ASSUME NEW field, NEW value, request_builder_set_header(field, value)
        PROVE  UNCHANGED <<h_parse_url, parse_url, given>>
    BY <1>5, Zenon DEF request_builder_set_header
  <1>6. ASSUME NEW n, request_builder_build(n)
        PROVE  UNCHANGED <<h_parse_url, parse_url, given>>
    BY <1>6, Zenon DEF request_builder_build
  <1> QED
    BY <1>1, <1>2, <1>3, <1>4, <1>5, <1>6 DEF BuilderCall

LEMMA NextUrls == UrlsInv /\ [BNext]_bvars => UrlsInv'
  <1> SUFFICES ASSUME UrlsInv, [BNext]_bvars PROVE UrlsInv'
    OBVIOUS
  <1>1. CASE \E p \in Urls : UrlCall(p)
    BY <1>1, UrlCallUrls
  <1>2. CASE BuilderCall
    BY <1>2, BuilderUrls DEF UrlsInv
  <1>3. CASE UNCHANGED bvars
    BY <1>3 DEF bvars, pvars, UrlsInv
  <1> QED
    BY <1>1, <1>2, <1>3 DEF BNext

\* Every object in use is a parse_url_t whose fields are those of its own string, however
\* many URLs share the static struct and in whatever order they are used.
THEOREM UrlsInvariance == BSpec => []UrlsInv
  <1> QED
    BY InitUrls, NextUrls, PTL DEF BSpec

\* The fields of a URL are those of the string it was parsed from, whatever was in the
\* shared struct: a field that an earlier parse left there, or the allocator, never shows.
THEOREM FieldsAreOwn == BSpec => []FieldsOfOwnUrl
  <1>1. UrlsInv => FieldsOfOwnUrl
    BY Zenon DEF UrlsInv, UrlInvOf, FieldsOf, FieldsOfOwnUrl
  <1> QED
    BY <1>1, UrlsInvariance, PTL

-----------------------------------------------------------------------------
(* The memory: what is in use, what it takes, and what astray has noted *)

InUse(p) == parse_url[p].life # "new"

Noted(what) == astray \cap what # {}

\* The lives of two URLs do not overlap, unless astray says so
Sole == Noted({"shared"}) \/ \A p, q \in Urls : InUse(p) /\ InUse(q) => p = q

\* Who is in use has the static struct
Held == Noted({"shared", "no memory"}) \/ \A p \in Urls : InUse(p) => h_parse_url # NoStruct

\* No field was lost
AllCopied ==
    Noted({"no memory"})
    \/ \A p \in Urls, f \in {"schema", "host", "path", "query", "userinfo"} :
          parse_url[p].life = "parsed" => parse_url[p][f] # NullPtr

Balance == heap - 2 * rb.headers_count

\* One block for the struct, five for the fields
Accounted ==
    /\ heap \in Int
    /\ \/ ~(astray \subseteq {"early"})
       \/ /\ (\A p \in Urls : ~InUse(p)) => Balance = 0
          /\ \A p \in Urls : parse_url[p].life = "allocated" => Balance = 1
          /\ \A p \in Urls : parse_url[p].life = "parsed" => Balance = 6

\* Who has no URL was given none
UrlLinked ==
    /\ rb.life \in {"new", "ready"}
    /\ rb.life = "new" => rb.headers_count = 0
    /\ rb.parsed_url \in Urls \cup {NoUrl}
    /\ rb.life = "ready" /\ rb.parsed_url = NoUrl => UrlsAsked = {}

MemoryInv == Sole /\ Held /\ AllCopied /\ Accounted /\ UrlLinked /\ NullExplained

\* A set of five things has five elements.
LEMMA FiveElements ==
    ASSUME NEW a, NEW b, NEW c, NEW d, NEW e, a # b, a # c, a # d, a # e, b # c, b # d, b # e,
           c # d, c # e, d # e
    PROVE  IsFiniteSet({a, b, c, d, e}) /\ Cardinality({a, b, c, d, e}) = 5
  <1>1. IsFiniteSet({a}) /\ Cardinality({a}) = 1
    BY FS_Singleton
  <1>2. IsFiniteSet({a} \cup {b}) /\ Cardinality({a} \cup {b}) = 2
    BY <1>1, FS_AddElement
  <1>3. IsFiniteSet(({a} \cup {b}) \cup {c}) /\ Cardinality(({a} \cup {b}) \cup {c}) = 3
    BY <1>2, FS_AddElement
  <1> DEFINE S == ({a} \cup {b}) \cup {c}
  <1>4. IsFiniteSet(S) /\ Cardinality(S) = 3 /\ d \notin S /\ e \notin S \cup {d}
    BY <1>3
  <1>5. {a, b, c, d, e} = (S \cup {d}) \cup {e}
    OBVIOUS
  <1> HIDE DEF S
  <1>6. IsFiniteSet(S \cup {d}) /\ Cardinality(S \cup {d}) = 4
    BY <1>4, FS_AddElement
  <1>7. IsFiniteSet((S \cup {d}) \cup {e}) /\ Cardinality((S \cup {d}) \cup {e}) = 5
    BY <1>4, <1>6, FS_AddElement
  <1> QED
    BY <1>5, <1>7, Zenon

\* The blocks parse_url_string allocates, and those parse_url_free gives back.
LEMMA KeptCount ==
    /\ \A failed : Cardinality(Kept \ failed) \in Nat
    /\ Cardinality(Kept \ {}) = 5
  <1>1. IsFiniteSet(Kept) /\ Cardinality(Kept) = 5
    BY FiveElements DEF Kept
  <1>2. \A failed : Cardinality(Kept \ failed) \in Nat
    <2>1. ASSUME NEW failed PROVE Cardinality(Kept \ failed) \in Nat
      <3>1. Kept \ failed \in SUBSET Kept
        OBVIOUS
      <3> QED
        BY <1>1, <3>1, FS_Subset, FS_CardinalityType
    <2> QED
      BY <2>1
  <1>3. Kept \ {} = Kept
    OBVIOUS
  <1> QED
    BY <1>1, <1>2, <1>3

LEMMA BlocksCount ==
    ASSUME NEW p
    PROVE  /\ Blocks(p) \in Nat
           /\ (\A f \in {"schema", "host", "path", "query", "userinfo"} :
                  parse_url[p][f] # NullPtr) => Blocks(p) = 5
  <1> DEFINE five == {"schema", "host", "path", "query", "userinfo"}
             there == {f \in five : parse_url[p][f] # NullPtr}
  <1>1. IsFiniteSet(five) /\ Cardinality(five) = 5
    BY FiveElements
  <1>2. there \in SUBSET five
    OBVIOUS
  <1>3. Blocks(p) = Cardinality(there)
    BY DEF Blocks
  <1>4. (\A f \in five : parse_url[p][f] # NullPtr) => there = five
    OBVIOUS
  <1>5. Cardinality(there) \in Nat
    <2> HIDE DEF there, five
    <2> QED
      BY <1>1, <1>2, FS_Subset, FS_CardinalityType
  <1> HIDE DEF there
  <1> QED
    BY <1>1, <1>3, <1>4, <1>5

\* Memory that runs out is noted.
LEMMA FailsNoted == Fails \subseteq BOOLEAN /\ (Noted({"no memory"}) => TRUE \notin Fails)
  BY AllocAssumption DEF Fails, Noted

-----------------------------------------------------------------------------

LEMMA InitMemory == BInit => MemoryInv
  <1> SUFFICES ASSUME BInit PROVE MemoryInv
    OBVIOUS
  <1>1. /\ \A p \in Urls : parse_url[p].life = "new"
        /\ heap = 0 /\ fault = "none" /\ rb = NewBuilder /\ asked = <<>>
    BY DEF BInit, PInit, NewUrl
  <1>2. /\ rb.life = "new" /\ rb.headers_count = 0 /\ rb.parsed_url = NoUrl
    BY <1>1 DEF NewBuilder
  <1>3. Sole /\ Held /\ AllCopied /\ NullExplained
    BY <1>1 DEF Sole, Held, AllCopied, InUse, NullExplained
  <1>4. Accounted
    BY <1>1, <1>2 DEF Accounted, Balance, InUse
  <1>5. UrlLinked
    BY <1>1, <1>2 DEF UrlLinked
  <1> QED
    BY <1>3, <1>4, <1>5 DEF MemoryInv

\* astray only grows.
LEMMA InitMemoryStep ==
    ASSUME UrlsInv, MemoryInv, rb.headers_count \in Nat, fault = "none",
           NEW p \in Urls, parse_url_init(p), UNCHANGED <<rb, asked>>
    PROVE  MemoryInv'
  <1>1. PICK fails \in Fails, m \in Memory :
           /\ h_parse_url' = IF fails THEN NoStruct ELSE Garbage(m)
           /\ heap' = IF fails THEN heap ELSE heap + 1
           /\ astray' = astray \cup (IF fails THEN {"no memory"} ELSE {})
                               \cup (IF Shared(p) THEN {"shared"} ELSE {})
    BY Zenon DEF parse_url_init
  <1>2. /\ parse_url[p].life = "new" /\ fault' = fault
        /\ parse_url' = [parse_url EXCEPT ![p].life = "allocated"]
        /\ DOMAIN parse_url = Urls /\ UrlObject(parse_url[p])
    BY DEF parse_url_init, UrlsInv, UrlInvOf
  <1>3. /\ parse_url'[p].life = "allocated"
        /\ \A q \in Urls : q # p => parse_url'[q] = parse_url[q]
    BY <1>2 DEF UrlObject
  <1>4. Garbage(m) # NoStruct
    BY GarbageAssumption, GarbageStruct
  <1>5. /\ astray \subseteq astray' /\ fails \in BOOLEAN
        /\ fails => "no memory" \in astray'
        /\ "shared" \notin astray' => \A q \in Urls : q # p => parse_url[q].life = "new"
    BY <1>1, FailsNoted DEF Shared
  <1>6. Sole'
    BY <1>3, <1>5 DEF Sole, InUse, Noted
  <1>7. Held'
    BY <1>1, <1>3, <1>4, <1>5 DEF Held, InUse, Noted
  <1>8. AllCopied'
    BY <1>3, <1>5 DEF MemoryInv, AllCopied, Noted
  <1>9. Accounted'
    <2>1. heap \in Int /\ heap' \in Int
      <3>1. heap' = heap \/ heap' = heap + 1
        BY <1>1, <1>5
      <3> QED
        BY <3>1 DEF MemoryInv, Accounted
    <2>2. CASE astray' \subseteq {"early"}
      <3>1. /\ astray \subseteq {"early"} /\ heap' = heap + 1
            /\ \A q \in Urls : q # p => parse_url[q].life = "new"
        BY <1>1, <1>5, <2>2
      <3>2. Balance = 0
        BY <1>2, <3>1 DEF MemoryInv, Accounted, InUse
      <3>3. heap' - 2 * rb.headers_count = 1
        BY <2>1, <3>1, <3>2 DEF Balance
      <3> QED
        BY <1>3, <2>1, <3>1, <3>3 DEF Accounted, InUse, Balance
    <2> QED
      BY <2>1, <2>2 DEF Accounted
  <1> QED
    BY <1>2, <1>6, <1>7, <1>8, <1>9 DEF MemoryInv, UrlLinked, NullExplained, UrlsAsked

\* With memory enough every field is stored.
LEMMA FilledAll ==
    ASSUME NEW s \in Strings, NEW h, Struct(h),
           NEW u, u = http_parser_parse_url(s, h).u,
           NEW f \in {"schema", "host", "path", "query", "userinfo"}
    PROVE  Filled(u, s, {})[f] # NullPtr
  <1> DEFINE c(x) == Copied(u, x, s)
             r == Filled(u, s, {})
  <1>1. \A x : c(x) # NullPtr
    BY ParsedOver, NullIsNoText
  <1>2. PathOr(c("UF_PATH")) # NullPtr
    <2>1. <<"/">> # NullPtr
      BY DEF NullPtr
    <2> HIDE DEF c
    <2> QED
      BY <1>1, <2>1 DEF PathOr
  <1>3. r = [life |-> "parsed", port |-> PortOf(u, c("UF_SCHEMA")),
             schema |-> c("UF_SCHEMA"), host |-> c("UF_HOST"), path |-> PathOr(c("UF_PATH")),
             query |-> c("UF_QUERY"), userinfo |-> c("UF_USERINFO")]
    BY DEF Filled
  <1> HIDE DEF c, r
  <1>4. r[f] \in {c("UF_SCHEMA"), c("UF_HOST"), PathOr(c("UF_PATH")), c("UF_QUERY"),
                  c("UF_USERINFO")}
    BY <1>3
  <1> QED
    BY <1>1, <1>2, <1>4 DEF r

LEMMA StringMemory ==
    ASSUME UrlsInv, MemoryInv, rb.headers_count \in Nat, fault = "none",
           NEW p \in Urls, NEW s \in Strings, parse_url_string(p, s), UNCHANGED <<rb, asked>>
    PROVE  MemoryInv'
  <1>1. /\ parse_url[p].life \in {"allocated", "parsed"}
        /\ DOMAIN parse_url = Urls /\ heap \in Int
        /\ h_parse_url = NoStruct \/ Struct(h_parse_url)
        /\ Sole /\ Held /\ AllCopied /\ Accounted /\ UrlLinked /\ UrlLinked'
    BY DEF parse_url_string, UrlsInv, MemoryInv, Accounted, UrlLinked, UrlsAsked
  <1>2. CASE /\ h_parse_url = NoStruct /\ fault' = "null"
             /\ UNCHANGED <<h_parse_url, parse_url, heap, given, astray>>
    <2>1. NullExplained'
      BY <1>1, <1>2 DEF Held, InUse, Noted, NullExplained
    <2>2. Sole' /\ Held' /\ AllCopied' /\ Accounted'
      BY <1>1, <1>2 DEF Sole, Held, AllCopied, Accounted, Balance, InUse, Noted
    <2> QED
      BY <1>1, <2>1, <2>2 DEF MemoryInv
  <1>3. CASE h_parse_url # NoStruct
    <2>0. PICK u, failed : StringDone(p, s, u, failed)
      BY <1>3, StringCases
    <2>1. /\ u = http_parser_parse_url(s, h_parse_url).u
          /\ StringParsed(p, s, u, failed) \/ (StringTouched(u) /\ failed # {})
          /\ heap' = heap + Cardinality(Kept \ failed)
          /\ astray' = astray \cup (IF failed = {} THEN {} ELSE {"no memory"})
                \cup (IF parse_url[p].life = "parsed" THEN {"parsed twice"} ELSE {})
                \cup (IF parse_url[p].life = "allocated" /\ given[p] # NullPtr
                      THEN {"used again"} ELSE {})
      BY <2>0, Zenon DEF StringDone
    <2>2. /\ Struct(u) /\ u # NoStruct /\ h_parse_url' = u
          /\ \A f \in {"schema", "host", "path", "query", "userinfo"} :
                Filled(u, s, {})[f] # NullPtr
      BY <1>1, <1>3, <2>1, ParsedOver, NoStructIsNone, FilledAll
         DEF StringParsed, StringTouched
    <2>3. /\ astray \subseteq astray'
          /\ failed # {} => "no memory" \in astray'
          /\ astray' \subseteq {"early"} =>
                failed = {} /\ parse_url[p].life = "allocated" /\ astray \subseteq {"early"}
      BY <1>1, <2>1
    <2>4. \/ /\ fault' = "none"
             /\ parse_url' = [parse_url EXCEPT ![p] = Filled(u, s, failed)]
          \/ fault' = "null" /\ parse_url' = parse_url /\ failed # {}
      BY <2>1 DEF StringParsed, StringTouched
    <2>5. Filled(u, s, failed).life = "parsed"
      BY DEF Filled
    <2>6. \A q \in Urls : /\ parse_url'[q].life # "new" <=> parse_url[q].life # "new"
                          /\ q # p => parse_url'[q] = parse_url[q]
                          /\ failed = {} => parse_url'[p] = Filled(u, s, {})
      BY <1>1, <2>4, <2>5
    <2>7. Sole' /\ Held'
      BY <1>1, <2>2, <2>3, <2>6 DEF Sole, Held, InUse, Noted
    <2>8. AllCopied'
      BY <1>1, <2>2, <2>3, <2>6 DEF AllCopied, Noted
    <2>9. NullExplained'
      BY <2>3, <2>4 DEF NullExplained
    <2>10. Accounted'
      <3>1. heap' \in Int
        <4> DEFINE n == Cardinality(Kept \ failed)
        <4>1. heap \in Int /\ n \in Nat
          BY <1>1, KeptCount
        <4>2. heap' = heap + n
          BY <2>1, Zenon
        <4> HIDE DEF n
        <4> QED
          BY <4>1, <4>2
      <3>2. CASE astray' \subseteq {"early"}
        <4>1. /\ failed = {} /\ parse_url[p].life = "allocated" /\ astray \subseteq {"early"}
              /\ heap' = heap + 5 /\ parse_url'[p].life = "parsed"
          BY <2>1, <2>3, <2>5, <2>6, <3>2, KeptCount
        <4>2. Balance = 1
          BY <1>1, <4>1 DEF Accounted
        <4>3. Balance' = 6
          BY <1>1, <4>1, <4>2 DEF Balance
        <4>4. \A q \in Urls : q # p => parse_url'[q].life = "new"
          BY <1>1, <2>6, <4>1 DEF Sole, InUse, Noted
        <4> QED
          BY <3>1, <4>1, <4>3, <4>4 DEF Accounted, InUse
      <3> QED
        BY <3>1, <3>2 DEF Accounted
    <2> QED
      BY <1>1, <2>7, <2>8, <2>9, <2>10 DEF MemoryInv
  <1> QED
    BY <1>2, <1>3, StringCases

LEMMA FreeMemory ==
    ASSUME UrlsInv, MemoryInv, rb.headers_count \in Nat, fault = "none",
           NEW p \in Urls, parse_url_free(p), UNCHANGED <<rb, asked>>
    PROVE  MemoryInv'
  <1>1. /\ parse_url[p].life = "parsed" /\ parse_url' = [parse_url EXCEPT ![p] = NewUrl]
        /\ h_parse_url' = NoStruct /\ UNCHANGED <<fault, astray>>
        /\ heap' = heap - Blocks(p) - (IF h_parse_url = NoStruct THEN 0 ELSE 1)
        /\ DOMAIN parse_url = Urls /\ heap \in Int
        /\ Sole /\ Held /\ AllCopied /\ Accounted /\ UrlLinked /\ UrlLinked'
    BY DEF parse_url_free, UrlsInv, MemoryInv, Accounted, UrlLinked, UrlsAsked
  <1>2. /\ parse_url'[p].life = "new"
        /\ \A q \in Urls : q # p => parse_url'[q] = parse_url[q]
    BY <1>1 DEF NewUrl
  <1>3. Sole' /\ AllCopied' /\ NullExplained'
    BY <1>1, <1>2 DEF Sole, AllCopied, InUse, Noted, NullExplained
  <1>4. Noted({"shared"}) \/ \A q \in Urls : parse_url'[q].life = "new"
    BY <1>1, <1>2 DEF Sole, InUse
  <1>5. Held'
    BY <1>1, <1>4 DEF Held, InUse, Noted
  <1>6. Accounted'
    <2>1. heap' \in Int
      BY <1>1, BlocksCount
    <2>2. CASE astray \subseteq {"early"}
      <3>1. ~Noted({"shared"}) /\ ~Noted({"no memory"}) /\ ~Noted({"shared", "no memory"})
        BY <2>2 DEF Noted
      <3>2. h_parse_url # NoStruct /\ Blocks(p) = 5 /\ Balance = 6
        BY <1>1, <2>2, <3>1, BlocksCount DEF Held, AllCopied, Accounted, InUse
      <3>3. Balance' = 0
        BY <1>1, <3>2 DEF Balance
      <3>4. \A q \in Urls : parse_url'[q].life = "new"
        BY <1>4, <3>1
      <3> QED
        BY <2>1, <3>3, <3>4 DEF Accounted
    <2> QED
      BY <1>1, <2>1, <2>2 DEF Accounted
  <1> QED
    BY <1>1, <1>3, <1>5, <1>6 DEF MemoryInv

-----------------------------------------------------------------------------
(* What the calls of the builder do to it *)

\* A header that is asked for counts if its mallocs succeed.
LEMMA WithHeaderCount ==
    ASSUME NEW b, Arrays(b), NEW failed \in {"none", "field", "value"}, NEW field, NEW value,
           NEW w, w = WithHeader(b, field, value, failed)
    PROVE  /\ w.life = b.life /\ w.parsed_url = b.parsed_url /\ w.method = b.method
           /\ w.headers_count \in Nat /\ Got(failed) \in Nat
           /\ failed = "none" => w.headers_count = b.headers_count + 1 /\ Got(failed) = 2
           /\ failed # "none" => w.headers_count = b.headers_count
           /\ \A p : Linked(w, p, failed) =
                        IF failed = "none" THEN [w EXCEPT !.parsed_url = p] ELSE w
           /\ \A p : LET x == [w EXCEPT !.parsed_url = p]
                   IN  /\ x.life = w.life /\ x.headers_count = w.headers_count
                       /\ x.parsed_url = p
  <1>1. /\ w.life = b.life /\ w.parsed_url = b.parsed_url /\ w.method = b.method
        /\ w.headers_count = IF failed = "none" THEN b.headers_count + 1 ELSE b.headers_count
    BY DEF WithHeader, Arrays
  <1>2. b.headers_count \in Nat
    BY DEF Arrays
  <1>3. Got(failed) \in Nat /\ (failed = "none" => Got(failed) = 2)
    BY DEF Got
  <1>4. \A p : Linked(w, p, failed) =
                  IF failed = "none" THEN [w EXCEPT !.parsed_url = p] ELSE w
    BY DEF Linked
  <1>5. w \in [life : {w.life}, method : {w.method}, parsed_url : {w.parsed_url},
               header_fields : {w.header_fields}, header_values : {w.header_values},
               headers_count : {w.headers_count}]
    BY DEF WithHeader, Arrays
  <1>6. ASSUME NEW p, NEW x, x = [w EXCEPT !.parsed_url = p]
        PROVE  x.life = w.life /\ x.headers_count = w.headers_count /\ x.parsed_url = p
    BY <1>5, <1>6
  <1> QED
    BY <1>1, <1>2, <1>3, <1>4, <1>6

\* A header that no URL asked for.
LEMMA AskedMore ==
    ASSUME NEW a, IsSequence(a), NEW h, h.from \notin Strings
    PROVE  \A i : i \in 1..Len(Append(a, h)) /\ Append(a, h)[i].from \in Strings
                    <=> i \in 1..Len(a) /\ a[i].from \in Strings
  <1>1. /\ Len(a) \in Nat /\ Len(Append(a, h)) = Len(a) + 1 /\ Append(a, h)[Len(a) + 1] = h
        /\ \A i \in 1..Len(a) : Append(a, h)[i] = a[i]
    BY AppendOne
  <1>2. ASSUME NEW i \in 1..Len(Append(a, h)) PROVE i \in 1..Len(a) \/ Append(a, h)[i] = h
    BY <1>1
  <1>3. \A i \in 1..Len(a) : i \in 1..Len(Append(a, h))
    BY <1>1
  <1> QED
    BY <1>1, <1>2, <1>3

LEMMA OthersNoUrl == NullPtr \notin Strings /\ <<"build">> \notin Strings
  <1>1. <<"build">>[1] \notin Char /\ Len(<<"build">>) = 1
    BY DEF Char, Alpha, Digit
  <1>2. \A s \in Seq(Char) : Len(s) = 1 => s[1] \in Char
    OBVIOUS
  <1> QED
    BY <1>1, <1>2, NullIsNoText, StringsAssumption

BuiltWith(size, failed) ==
    IF Announces(rb, size)
    THEN WithHeader(rb, <<"Content-Length">>, LengthText(size), failed) ELSE rb

Outcome(b, size, fails) ==
    LET url == parse_url[b.parsed_url]
        early == b.parsed_url = NoUrl
    IN  CASE early -> "null"
          [] ~early /\ url.life # "parsed" -> "freed"
          [] ~early /\ url.life = "parsed" /\ (fails \/ url.query = NullPtr) -> "null"
          [] ~early /\ url.life = "parsed" /\ ~fails /\ url.query # NullPtr
             /\ Written(b, url, size) > Counted(b, url, size) + 1 -> "heap"
          [] OTHER -> "none"

\* A build with room for what it adds
BuildDone(size, failed, fails) ==
    /\ failed \in IF Announces(rb, size) THEN Failing ELSE {"none"}
    /\ fails \in Fails
    /\ rb' = BuiltWith(size, failed)
    /\ builds' = Append(builds, size)
    /\ heap' = heap + (IF Announces(rb, size) THEN Got(failed) ELSE 0)
    /\ asked' = IF Announces(rb, size) /\ failed = "none"
                THEN Append(asked, [from |-> <<"build">>, field |-> <<"Content-Length">>,
                                    value |-> LengthText(size)])
                ELSE asked
    /\ astray' = astray \cup NoMemory(failed) \cup (IF fails THEN {"no memory"} ELSE {})
                   \cup (IF UrlsAsked = {} THEN {"early"} ELSE {})
    /\ fault' = Outcome(BuiltWith(size, failed), size, fails)
    /\ request' = IF fault' = "none"
                  THEN Text(BuiltWith(size, failed),
                            parse_url[BuiltWith(size, failed).parsed_url], size)
                  ELSE NoRequest

LEMMA BuildCases ==
    ASSUME NEW size, request_builder_build(size)
    PROVE  \/ /\ Announces(rb, size) /\ Full /\ fault' = "slots"
              /\ UNCHANGED <<rb, heap, asked, astray, request>>
           \/ ~(Announces(rb, size) /\ Full)
              /\ \E failed, fails : BuildDone(size, failed, fails)
  <1>1. CASE Announces(rb, size) /\ Full
    BY <1>1 DEF request_builder_build
  <1>2. CASE ~(Announces(rb, size) /\ Full)
    <2>1. PICK failed \in IF Announces(rb, size) THEN Failing ELSE {"none"}, fails \in Fails :
             /\ rb' = BuiltWith(size, failed)
             /\ heap' = heap + (IF Announces(rb, size) THEN Got(failed) ELSE 0)
             /\ asked' = IF Announces(rb, size) /\ failed = "none"
                         THEN Append(asked, [from |-> <<"build">>, field |-> <<"Content-Length">>,
                                             value |-> LengthText(size)])
                         ELSE asked
             /\ astray' = astray \cup NoMemory(failed)
                            \cup (IF fails THEN {"no memory"} ELSE {})
                            \cup (IF UrlsAsked = {} THEN {"early"} ELSE {})
             /\ fault' = Outcome(BuiltWith(size, failed), size, fails)
             /\ request' = IF Outcome(BuiltWith(size, failed), size, fails) = "none"
                           THEN Text(BuiltWith(size, failed),
                                     parse_url[BuiltWith(size, failed).parsed_url], size)
                           ELSE NoRequest
      BY <1>2, Zenon DEF request_builder_build, BuiltWith, Outcome
    <2>2. builds' = Append(builds, size)
      BY DEF request_builder_build
    <2>3. BuildDone(size, failed, fails)
      BY <2>1, <2>2, Zenon DEF BuildDone
    <2> QED
      BY <1>2, <2>3
  <1> QED
    BY <1>1, <1>2

\* A call of the builder: how the memory and the URL it has may change
BuilderStep ==
    /\ UNCHANGED <<h_parse_url, parse_url>>
    /\ astray \subseteq astray' /\ heap' \in Int
    /\ Balance' = Balance \/ "no memory" \in astray'
    /\ UrlLinked' /\ NullExplained'

LEMMA BuilderStepMemory ==
    ASSUME MemoryInv, BuilderStep
    PROVE  MemoryInv'
  <1>1. Sole' /\ Held' /\ AllCopied'
    BY DEF MemoryInv, BuilderStep, Sole, Held, AllCopied, InUse, Noted
  <1>2. Accounted'
    <2>1. UNCHANGED parse_url /\ astray \subseteq astray' /\ heap' \in Int
      BY DEF BuilderStep
    <2>2. CASE astray' \subseteq {"early"}
      <3>1. Balance' = Balance /\ astray \subseteq {"early"}
        BY <2>1, <2>2 DEF BuilderStep
      <3>2. /\ (\A p \in Urls : parse_url[p].life = "new") => Balance = 0
            /\ \A p \in Urls : parse_url[p].life = "allocated" => Balance = 1
            /\ \A p \in Urls : parse_url[p].life = "parsed" => Balance = 6
        BY <3>1 DEF MemoryInv, Accounted, InUse
      <3> QED
        BY <2>1, <3>1, <3>2 DEF Accounted, InUse
    <2> QED
      BY <2>1, <2>2 DEF Accounted
  <1> QED
    BY <1>1, <1>2 DEF MemoryInv, BuilderStep

\* The arithmetic of the balance: two blocks for a header.
LEMMA BalanceKept ==
    ASSUME heap \in Int, rb.headers_count \in Nat, rb'.headers_count \in Nat,
           heap' - heap = 2 * (rb'.headers_count - rb.headers_count), heap' \in Int
    PROVE  Balance' = Balance
  BY DEF Balance

\* What the calls that change only the builder do.
LEMMA PlainSteps ==
    ASSUME IInv, MemoryInv, fault = "none"
    PROVE  /\ request_builder_init => BuilderStep
           /\ request_builder_free => BuilderStep
           /\ \A m : request_builder_set_method(m) => BuilderStep
  <1>1. /\ heap \in Int /\ rb.headers_count \in Nat /\ UrlLinked /\ Arrays(rb)
        /\ NewBuilder.life = "new" /\ NewBuilder.headers_count = 0
        /\ NewBuilder.parsed_url = NoUrl
        /\ [NewBuilder EXCEPT !.life = "ready"].life = "ready"
        /\ [NewBuilder EXCEPT !.life = "ready"].headers_count = 0
        /\ [NewBuilder EXCEPT !.life = "ready"].parsed_url = NoUrl
    BY DEF IInv, Arrays, MemoryInv, Accounted, NewBuilder
  <1>2. ASSUME request_builder_init PROVE BuilderStep
    <2>1. /\ rb.life = "new" /\ rb' = [NewBuilder EXCEPT !.life = "ready"] /\ asked' = <<>>
          /\ UNCHANGED <<h_parse_url, parse_url, heap, fault, astray>>
      BY <1>2 DEF request_builder_init, pvars
    <2>2. Balance' = Balance
      BY <1>1, <2>1, BalanceKept DEF UrlLinked
    <2>3. UrlLinked'
      BY <1>1, <2>1 DEF UrlLinked, UrlsAsked
    <2> QED
      BY <1>1, <2>1, <2>2, <2>3 DEF BuilderStep, NullExplained
  <1>3. ASSUME request_builder_free PROVE BuilderStep
    <2>1. /\ rb' = NewBuilder /\ heap' = heap - 2 * rb.headers_count
          /\ UNCHANGED <<h_parse_url, parse_url, fault, astray>>
      BY <1>3 DEF request_builder_free
    <2>2. Balance' = Balance /\ heap' \in Int
      BY <1>1, <2>1 DEF Balance
    <2>3. UrlLinked'
      BY <1>1, <2>1 DEF UrlLinked
    <2> QED
      BY <2>1, <2>2, <2>3 DEF BuilderStep, NullExplained
  <1>4. ASSUME NEW m, request_builder_set_method(m) PROVE BuilderStep
    <2>1. /\ rb' = [rb EXCEPT !.method = m]
          /\ UNCHANGED <<h_parse_url, parse_url, heap, fault, astray, asked>>
      BY <1>4 DEF request_builder_set_method, pvars
    <2>2. /\ rb'.life = rb.life /\ rb'.headers_count = rb.headers_count
          /\ rb'.parsed_url = rb.parsed_url
      BY <1>1, <2>1 DEF Arrays
    <2>3. Balance' = Balance /\ UrlLinked'
      BY <1>1, <2>1, <2>2 DEF Balance, UrlLinked, UrlsAsked
    <2> QED
      BY <1>1, <2>1, <2>3 DEF BuilderStep, NullExplained
  <1> QED
    BY <1>2, <1>3, <1>4

\* A header that the client or the builder adds takes two blocks, or memory has run out.
LEMMA HeaderSteps ==
    ASSUME IInv, MemoryInv, rb.life = "ready",
           NEW failed \in {"none", "field", "value"}, NEW field, NEW value, NEW who,
           who \notin Strings,
           rb' = WithHeader(rb, field, value, failed), heap' = heap + Got(failed),
           asked' = IF failed = "none"
                    THEN Append(asked, [from |-> who, field |-> field, value |-> value])
                    ELSE asked,
           NoMemory(failed) \subseteq astray'
    PROVE  /\ heap' \in Int /\ (Balance' = Balance \/ "no memory" \in astray')
           /\ UrlLinked' /\ UrlsAsked' = UrlsAsked
  <1>1. heap \in Int /\ rb.headers_count \in Nat /\ UrlLinked /\ Arrays(rb) /\ IsSequence(asked)
    BY DEF IInv, Arrays, MemoryInv, Accounted
  <1>2. /\ rb'.life = rb.life /\ rb'.parsed_url = rb.parsed_url
        /\ rb'.headers_count \in Nat /\ Got(failed) \in Nat
        /\ failed = "none" => rb'.headers_count = rb.headers_count + 1 /\ Got(failed) = 2
    BY <1>1, WithHeaderCount
  <1>3. heap' \in Int
    BY <1>1, <1>2
  <1>4. Balance' = Balance \/ "no memory" \in astray'
    <2>1. CASE failed = "none"
      <3>1. heap' = heap + 2 /\ rb'.headers_count = rb.headers_count + 1
        BY <1>2, <2>1
      <3>2. Balance' = Balance
        BY <1>1, <3>1 DEF Balance
      <3> QED
        BY <3>2
    <2>2. CASE failed # "none"
      BY <2>2 DEF NoMemory
    <2> QED
      BY <2>1, <2>2
  <1>5. UrlsAsked' = UrlsAsked
    <2> DEFINE h == [from |-> who, field |-> field, value |-> value]
    <2>1. h.from \notin Strings
      OBVIOUS
    <2> HIDE DEF h
    <2>2. CASE failed = "none"
      BY <1>1, <2>1, <2>2, AskedMore DEF UrlsAsked, h
    <2>3. CASE failed # "none"
      BY <2>3 DEF UrlsAsked
    <2> QED
      BY <2>2, <2>3
  <1>6. UrlLinked'
    BY <1>1, <1>2, <1>5 DEF UrlLinked
  <1> QED
    BY <1>3, <1>4, <1>5, <1>6

LEMMA SetHeaderStep ==
    ASSUME IInv, MemoryInv, fault = "none", NEW field, NEW value,
           request_builder_set_header(field, value)
    PROVE  BuilderStep
  <1>1. rb.life = "ready" /\ UNCHANGED <<h_parse_url, parse_url>> /\ heap \in Int /\ UrlLinked
    BY DEF request_builder_set_header, MemoryInv, Accounted
  <1>2. CASE Full
    <2>1. fault' = "slots" /\ UNCHANGED <<rb, heap, asked, astray>>
      BY <1>2 DEF request_builder_set_header
    <2> QED
      BY <1>1, <2>1 DEF BuilderStep, NullExplained, Balance, UrlLinked, UrlsAsked
  <1>3. CASE ~Full
    <2>1. PICK failed \in Failing :
             /\ rb' = WithHeader(rb, field, value, failed)
             /\ heap' = heap + Got(failed)
             /\ astray' = astray \cup NoMemory(failed)
             /\ asked' = IF failed = "none"
                         THEN Append(asked, [from |-> NullPtr, field |-> field, value |-> value])
                         ELSE asked
             /\ UNCHANGED fault
      BY <1>3 DEF request_builder_set_header
    <2>2. failed \in {"none", "field", "value"} /\ NoMemory(failed) \subseteq astray'
      BY <2>1, FailingNone
    <2>3. heap' \in Int /\ (Balance' = Balance \/ "no memory" \in astray') /\ UrlLinked'
      BY <1>1, <2>1, <2>2, HeaderSteps, OthersNoUrl
    <2> QED
      BY <1>1, <2>1, <2>3 DEF BuilderStep, NullExplained
  <1> QED
    BY <1>2, <1>3

LEMMA SetParsedUrlCases ==
    ASSUME NEW p, request_builder_set_parsed_url(p)
    PROVE  \/ /\ fault' = "null" /\ astray' = astray \cup {"no memory"}
              /\ UNCHANGED <<rb, heap, asked>>
           \/ Full /\ fault' = "slots" /\ UNCHANGED <<rb, heap, asked, astray>>
           \/ /\ ~Full
              /\ \E failed \in Failing : \E w :
                    /\ w = WithHeader(rb, <<"Host">>, HostText(parse_url[p]), failed)
                    /\ rb' = Linked(w, p, failed)
                    /\ heap' = heap + Got(failed)
                    /\ astray' = astray \cup NoMemory(failed)
                    /\ asked' = IF failed = "none"
                                THEN Append(asked, [from |-> given[p], field |-> <<"Host">>,
                                                    value |-> HostText(parse_url[p])])
                                ELSE asked
                    /\ UNCHANGED fault
  BY Zenon DEF request_builder_set_parsed_url

LEMMA SetParsedUrlStep ==
    ASSUME IInv, MemoryInv, fault = "none", NEW p \in Urls, request_builder_set_parsed_url(p)
    PROVE  BuilderStep
  <1>1. /\ rb.life = "ready" /\ UNCHANGED <<h_parse_url, parse_url>> /\ heap \in Int
        /\ UrlLinked /\ Arrays(rb) /\ rb.headers_count \in Nat
    BY DEF request_builder_set_parsed_url, MemoryInv, Accounted, IInv, Arrays
  <1>2. CASE /\ fault' = "null" /\ astray' = astray \cup {"no memory"}
             /\ UNCHANGED <<rb, heap, asked>>
    BY <1>1, <1>2 DEF BuilderStep, NullExplained, Balance, UrlLinked, UrlsAsked
  <1>3. CASE fault' = "slots" /\ UNCHANGED <<rb, heap, asked, astray>>
    BY <1>1, <1>3 DEF BuilderStep, NullExplained, Balance, UrlLinked, UrlsAsked
  <1>4. ASSUME NEW failed \in Failing, NEW w,
               w = WithHeader(rb, <<"Host">>, HostText(parse_url[p]), failed),
               rb' = Linked(w, p, failed), heap' = heap + Got(failed),
               astray' = astray \cup NoMemory(failed),
               failed # "none" => asked' = asked, UNCHANGED fault
        PROVE  BuilderStep
    <2>1. failed \in {"none", "field", "value"}
      BY FailingNone
    <2>2. /\ w.life = rb.life /\ w.parsed_url = rb.parsed_url /\ w.headers_count \in Nat
          /\ Got(failed) \in Nat
          /\ failed = "none" => w.headers_count = rb.headers_count + 1 /\ Got(failed) = 2
          /\ rb' = IF failed = "none" THEN [w EXCEPT !.parsed_url = p] ELSE w
      BY <1>1, <1>4, <2>1, WithHeaderCount
    <2>3. CASE failed = "none"
      <3>1. rb'.life = "ready" /\ rb'.parsed_url = p /\ rb'.headers_count = w.headers_count
        <4>1. LET x == [w EXCEPT !.parsed_url = p]
              IN  x.life = w.life /\ x.headers_count = w.headers_count /\ x.parsed_url = p
          BY <1>1, <1>4, <2>1, WithHeaderCount
        <4> QED
          BY <1>1, <2>2, <2>3, <4>1
      <3>2. heap' = heap + 2 /\ rb'.headers_count = rb.headers_count + 1
        BY <1>4, <2>2, <2>3, <3>1
      <3>3. Balance' = Balance /\ heap' \in Int
        BY <1>1, <3>2 DEF Balance
      <3>4. UrlLinked'
        BY <3>1, UrlsAssumption DEF UrlLinked
      <3> QED
        BY <1>1, <1>4, <3>3, <3>4 DEF BuilderStep, NullExplained
    <2>4. CASE failed # "none"
      <3>1. "no memory" \in astray' /\ heap' \in Int /\ rb' = w
        <4> DEFINE got == Got(failed)
        <4>1. NoMemory(failed) = {"no memory"}
          BY <2>4 DEF NoMemory
        <4>2. heap' = heap + got /\ astray' = astray \cup {"no memory"} /\ rb' = w
          BY <1>4, <2>2, <2>4, <4>1
        <4>3. heap \in Int /\ got \in Nat
          BY <1>1, <2>2
        <4> HIDE DEF got
        <4>4. heap' \in Int
          <5>1. heap' = heap + got
            BY <4>2
          <5> QED
            BY <4>3, <5>1
        <4>5. "no memory" \in astray'
          BY <4>2
        <4> QED
          BY <4>2, <4>4, <4>5
      <3>2. UrlLinked'
        BY <1>1, <1>4, <2>2, <2>4, <3>1 DEF UrlLinked, UrlsAsked
      <3> QED
        BY <1>1, <1>4, <3>1, <3>2 DEF BuilderStep, NullExplained
    <2> QED
      BY <2>3, <2>4
  <1> QED
    BY <1>2, <1>3, <1>4, SetParsedUrlCases

\* The outcomes of build that follow NULL.
LEMMA OutcomeNull ==
    ASSUME NEW b, NEW size, NEW fails \in BOOLEAN, Outcome(b, size, fails) = "null"
    PROVE  \/ b.parsed_url = NoUrl
           \/ fails
           \/ parse_url[b.parsed_url].life = "parsed" /\ parse_url[b.parsed_url].query = NullPtr
  BY DEF Outcome

LEMMA BuildStep ==
    ASSUME IInv, MemoryInv, fault = "none", NEW size, request_builder_build(size)
    PROVE  BuilderStep
  <1>1. /\ rb.life = "ready" /\ UNCHANGED <<h_parse_url, parse_url>> /\ heap \in Int
        /\ UrlLinked /\ Arrays(rb)
    BY DEF request_builder_build, MemoryInv, Accounted, IInv
  <1>2. CASE fault' = "slots" /\ UNCHANGED <<rb, heap, asked, astray>>
    BY <1>1, <1>2 DEF BuilderStep, NullExplained, Balance, UrlLinked, UrlsAsked
  <1>3. ASSUME NEW failed, NEW fails, BuildDone(size, failed, fails) PROVE BuilderStep
    <2>1. /\ failed \in {"none", "field", "value"} /\ fails \in BOOLEAN
          /\ Announces(rb, size) \/ failed = "none"
      <3>1. CASE Announces(rb, size)
        BY <1>3, <3>1, FailingNone, FailsNoted DEF BuildDone
      <3>2. CASE ~Announces(rb, size)
        BY <1>3, <3>2, FailsNoted DEF BuildDone
      <3> QED
        BY <3>1, <3>2
    <2>2. /\ astray \subseteq astray' /\ NoMemory(failed) \subseteq astray'
          /\ fails => "no memory" \in astray'
          /\ UrlsAsked = {} => "early" \in astray'
      BY <1>3 DEF BuildDone
    <2>3. /\ heap' \in Int /\ (Balance' = Balance \/ "no memory" \in astray')
          /\ UrlLinked' /\ rb'.parsed_url = rb.parsed_url
      <3>1. CASE Announces(rb, size)
        <4>1. /\ rb' = WithHeader(rb, <<"Content-Length">>, LengthText(size), failed)
              /\ heap' = heap + Got(failed)
              /\ asked' = IF failed = "none"
                          THEN Append(asked, [from |-> <<"build">>, field |-> <<"Content-Length">>,
                                              value |-> LengthText(size)])
                          ELSE asked
          BY <1>3, <3>1, Zenon DEF BuildDone, BuiltWith
        <4>2. rb'.parsed_url = rb.parsed_url
          BY <1>1, <2>1, <4>1, WithHeaderCount
        <4> QED
          BY <1>1, <2>1, <2>2, <4>1, <4>2, HeaderSteps, OthersNoUrl
      <3>2. CASE ~Announces(rb, size)
        <4>1. rb' = rb /\ asked' = asked /\ heap' = heap + 0
          BY <1>3, <3>2, Zenon DEF BuildDone, BuiltWith
        <4>2. heap' = heap
          BY <1>1, <4>1
        <4>3. Balance' = Balance
          BY <4>1, <4>2 DEF Balance
        <4>4. UrlLinked'
          BY <1>1, <4>1 DEF UrlLinked, UrlsAsked
        <4> QED
          BY <1>1, <4>1, <4>2, <4>3, <4>4
      <3> QED
        BY <3>1, <3>2
    <2>4. NullExplained'
      <3>1. CASE fault' = "null"
        <4>1. rb' = BuiltWith(size, failed) /\ Outcome(rb', size, fails) = "null"
          BY <1>3, <3>1 DEF BuildDone
        <4>2. \/ rb.parsed_url = NoUrl
              \/ fails
              \/ /\ parse_url[rb.parsed_url].life = "parsed"
                 /\ parse_url[rb.parsed_url].query = NullPtr
          BY <2>1, <2>3, <4>1, OutcomeNull
        <4>3. ASSUME parse_url[rb.parsed_url].life = "parsed", rb.parsed_url \in Urls,
                     parse_url[rb.parsed_url].query = NullPtr
              PROVE  "no memory" \in astray
          <5> DEFINE p == rb.parsed_url
          <5>1. parse_url[p]["query"] = NullPtr /\ p \in Urls /\ parse_url[p].life = "parsed"
            BY <4>3
          <5> HIDE DEF p
          <5> QED
            BY <5>1 DEF MemoryInv, AllCopied, Noted
        <4> QED
          BY <1>1, <2>2, <4>2, <4>3 DEF UrlLinked, NullExplained
      <3>2. CASE fault' # "null"
        BY <3>2 DEF NullExplained
      <3> QED
        BY <3>1, <3>2
    <2> QED
      BY <1>1, <2>2, <2>3, <2>4 DEF BuilderStep
  <1> QED
    BY <1>2, <1>3, BuildCases

-----------------------------------------------------------------------------

LEMMA NextMemory ==
    ASSUME IInv, UrlsInv, MemoryInv, [BNext]_bvars
    PROVE  MemoryInv'
  <1>1. ASSUME fault = "none", NEW p \in Urls, UrlCall(p) PROVE MemoryInv'
    BY <1>1, InitMemoryStep, StringMemory, FreeMemory DEF UrlCall, IInv, Arrays
  <1>2. CASE fault = "none" /\ BuilderCall
    BY <1>2, PlainSteps, SetHeaderStep, SetParsedUrlStep, BuildStep, BuilderStepMemory
       DEF BuilderCall
  <1>3. CASE UNCHANGED bvars
    BY <1>3 DEF bvars, pvars, MemoryInv, Sole, Held, AllCopied, Accounted, Balance, UrlLinked,
                UrlsAsked, InUse, Noted, NullExplained
  <1> QED
    BY <1>1, <1>2, <1>3 DEF BNext

\* What is allocated is held by an object or noted as lost, whichever calls are made.
THEOREM MemoryInvariance == BSpec => []MemoryInv
  <1>1. IInv /\ UrlsInv /\ MemoryInv /\ [BNext]_bvars => MemoryInv'
    BY NextMemory
  <1> QED
    BY <1>1, InitMemory, BuilderInvariance, UrlsInvariance, PTL DEF BSpec

\* NULL is followed for no other reason than memory that ran out, a request that was built
\* before it had a URL, or two URLs whose lives overlapped.
THEOREM NullsExplained == BSpec => []NullExplained
  <1>1. MemoryInv => NullExplained
    BY DEF MemoryInv
  <1> QED
    BY <1>1, MemoryInvariance, PTL

\* The other clients leave nothing allocated once they have freed what they used.
THEOREM AllFreed == BSpec => []NothingLeaks
  <1>1. ASSUME MemoryInv, astray \subseteq {"early"}, rb.life = "new",
               \A p \in Urls : parse_url[p].life = "new"
        PROVE  heap = 0
    <2>1. heap \in Int /\ Balance = 0 /\ rb.headers_count = 0
      BY <1>1 DEF MemoryInv, Accounted, UrlLinked, InUse
    <2> QED
      BY <2>1 DEF Balance
  <1>2. MemoryInv => NothingLeaks
    BY <1>1 DEF NothingLeaks
  <1> QED
    BY <1>2, MemoryInvariance, PTL

-----------------------------------------------------------------------------
(* The server a request is meant for *)

\* The last of the first n headers of a that a URL asked for
LastUrl(a, n, i) ==
    /\ i \in 1..n /\ a[i].from \in Strings
    /\ \A j \in 1..n : a[j].from \in Strings => j <= i

\* The builder points at the URL its last Host header was made from
HasLast(b, a) ==
    b.life = "ready" /\ b.parsed_url # NoUrl =>
        \E i : LastUrl(a, Len(a), i) /\ a[i].from = given[b.parsed_url]

TargetOf(s) ==
    Target(PathOr(Copied(Parsed[s].u, "UF_PATH", s)), Copied(Parsed[s].u, "UF_QUERY", s))

\* So did it when r was built
LineOf(r, a) ==
    r # NoRequest =>
        /\ DOMAIN r.headers = 1..Len(r.headers)
        /\ \E i : /\ LastUrl(a, Len(r.headers), i)
                  /\ r.url = a[i].from /\ r.target = TargetOf(r.url)

LineInv ==
    Noted({"parsed twice", "used again"}) \/ (HasLast(rb, asked) /\ LineOf(request, asked))

\* A header more at the end: the last URL among the earlier ones stays what it is.
LEMMA LastKept ==
    ASSUME NEW a, IsSequence(a), NEW h, NEW n \in Nat, n <= Len(a), NEW i, LastUrl(a, n, i)
    PROVE  LastUrl(Append(a, h), n, i) /\ Append(a, h)[i] = a[i]
  <1>1. Len(a) \in Nat /\ \A j \in 1..Len(a) : Append(a, h)[j] = a[j]
    BY AppendOne
  <1>2. \A j \in 1..n : Append(a, h)[j] = a[j]
    BY <1>1
  <1> QED
    BY <1>2 DEF LastUrl

LEMMA LastMore ==
    ASSUME NEW a, IsSequence(a), NEW h, h.from \notin Strings
    PROVE  \A i : LastUrl(a, Len(a), i) =>
              LastUrl(Append(a, h), Len(Append(a, h)), i) /\ Append(a, h)[i] = a[i]
  <1>1. /\ Len(a) \in Nat /\ Len(Append(a, h)) = Len(a) + 1 /\ Append(a, h)[Len(a) + 1] = h
        /\ \A j \in 1..Len(a) : Append(a, h)[j] = a[j]
    BY AppendOne
  <1>2. \A j \in 1..(Len(a) + 1) : j \in 1..Len(a) \/ j = Len(a) + 1
    BY <1>1
  <1> QED
    BY <1>1, <1>2 DEF LastUrl

LEMMA LastNew ==
    ASSUME NEW a, IsSequence(a), NEW h, h.from \in Strings
    PROVE  LET i == Len(Append(a, h))
           IN  LastUrl(Append(a, h), i, i) /\ Append(a, h)[i] = h
  <1>1. /\ Len(a) \in Nat /\ Len(Append(a, h)) = Len(a) + 1 /\ Append(a, h)[Len(a) + 1] = h
    BY AppendOne
  <1> QED
    BY <1>1 DEF LastUrl

LEMMA HasMore ==
    ASSUME NEW b, NEW c, b.life = c.life, b.parsed_url = c.parsed_url,
           NEW a, IsSequence(a), NEW h, h.from \notin Strings, HasLast(b, a)
    PROVE  HasLast(c, Append(a, h))
  <1> SUFFICES ASSUME b.life = "ready", b.parsed_url # NoUrl
               PROVE  \E i : /\ LastUrl(Append(a, h), Len(Append(a, h)), i)
                             /\ Append(a, h)[i].from = given[b.parsed_url]
    BY Zenon DEF HasLast
  <1>1. PICK i : LastUrl(a, Len(a), i) /\ a[i].from = given[b.parsed_url]
    BY DEF HasLast
  <1>2. LastUrl(Append(a, h), Len(Append(a, h)), i) /\ Append(a, h)[i] = a[i]
    <2>1. \A j : LastUrl(a, Len(a), j) =>
             LastUrl(Append(a, h), Len(Append(a, h)), j) /\ Append(a, h)[j] = a[j]
      BY LastMore
    <2> QED
      BY <1>1, <2>1, Zenon
  <1> QED
    BY <1>1, <1>2

LEMMA LineMore ==
    ASSUME NEW r, NEW a, IsSequence(a), NEW h, Carries(r, a), LineOf(r, a)
    PROVE  LineOf(r, Append(a, h))
  <1> SUFFICES ASSUME r # NoRequest PROVE LineOf(r, Append(a, h))
    BY DEF LineOf
  <1>1. /\ Len(r.headers) \in Nat /\ Len(r.headers) <= Len(a)
        /\ DOMAIN r.headers = 1..Len(r.headers)
    BY DEF Carries, LineOf
  <1>2. PICK i : LastUrl(a, Len(r.headers), i) /\ r.url = a[i].from /\ r.target = TargetOf(r.url)
    BY DEF LineOf
  <1> DEFINE n == Len(r.headers)
  <1>3. LastUrl(Append(a, h), n, i) /\ Append(a, h)[i] = a[i]
    <2> HIDE DEF n
    <2>1. n \in Nat /\ n <= Len(a) /\ LastUrl(a, n, i)
      BY <1>1, <1>2 DEF n
    <2> QED
      BY <2>1, LastKept
  <1> QED
    BY <1>1, <1>2, <1>3 DEF LineOf

\* What is built now is meant for the server of the last Host header.
LEMMA TextLine ==
    ASSUME UrlsInv, NEW b, NEW a, Match(b, a), b.life = "ready", HasLast(b, a),
           b.parsed_url \in Urls \cup {NoUrl}, NEW size, NEW fails \in BOOLEAN,
           Outcome(b, size, fails) = "none"
    PROVE  LineOf(Text(b, parse_url[b.parsed_url], size), a)
  <1> DEFINE p == b.parsed_url
             url == parse_url[p]
             r == Text(b, url, size)
             s == given[p]
  <1>1. p # NoUrl /\ p \in Urls /\ url.life = "parsed" /\ url.query # NullPtr
    BY DEF Outcome
  <1>2. s \in Strings /\ FieldsOf(url, s)
    BY <1>1 DEF UrlsInv, UrlInvOf
  <1>3. /\ url.path = PathOr(Copied(Parsed[s].u, "UF_PATH", s))
        /\ url.query = Copied(Parsed[s].u, "UF_QUERY", s)
    <2> HIDE DEF url, s
    <2> QED
      BY <1>1, <1>2 DEF FieldsOf, TextOf
  <1>4. /\ r.url = s /\ r.target = Target(url.path, url.query)
        /\ r.headers = [i \in 1..b.headers_count |->
                           [field |-> b.header_fields[i], value |-> b.header_values[i]]]
    BY DEF Text
  <1>5. r.target = TargetOf(s)
    <2> HIDE DEF r, url, s
    <2> QED
      BY <1>3, <1>4, Zenon DEF TargetOf
  <1>6. b.headers_count = Len(a) /\ Len(a) \in Nat
    BY AppendOne DEF Match
  <1>7. DOMAIN r.headers = 1..Len(r.headers) /\ Len(r.headers) = Len(a)
    <2> DEFINE hs == [i \in 1..b.headers_count |->
                         [field |-> b.header_fields[i], value |-> b.header_values[i]]]
    <2>1. DOMAIN hs = 1..Len(a) /\ Len(hs) = Len(a)
      BY <1>6
    <2> HIDE DEF r
    <2> QED
      BY <1>4, <2>1
  <1>8. PICK i : LastUrl(a, Len(a), i) /\ a[i].from = s
    BY <1>1 DEF HasLast
  <1> HIDE DEF r, s
  <1>9. LineOf(r, a)
    BY <1>4, <1>5, <1>7, <1>8 DEF LineOf
  <1> QED
    BY <1>9 DEF r

-----------------------------------------------------------------------------

LEMMA InitLine == BInit => LineInv
  BY DEF BInit, LineInv, HasLast, LineOf, NewBuilder

\* What was noted stays noted.
LEMMA AstrayGrows ==
    ASSUME [BNext]_bvars
    PROVE  astray \subseteq astray'
  <1>1. ASSUME NEW p, UrlCall(p) PROVE astray \subseteq astray'
    <2>1. CASE parse_url_init(p)
      BY <2>1, Zenon DEF parse_url_init
    <2>2. CASE parse_url_free(p)
      BY <2>2 DEF parse_url_free
    <2>3. ASSUME NEW s, parse_url_string(p, s) PROVE astray \subseteq astray'
      BY <2>3, StringCases, Zenon DEF StringDone
    <2> QED
      BY <1>1, <2>1, <2>2, <2>3 DEF UrlCall
  <1>2. ASSUME NEW p, request_builder_set_parsed_url(p) PROVE astray \subseteq astray'
    BY <1>2, SetParsedUrlCases
  <1>3. ASSUME NEW field, NEW value, request_builder_set_header(field, value)
        PROVE  astray \subseteq astray'
    BY <1>3, Zenon DEF request_builder_set_header
  <1>4. ASSUME NEW n, request_builder_build(n) PROVE astray \subseteq astray'
    BY <1>4, BuildCases, Zenon DEF BuildDone
  <1>5. ASSUME NEW m, request_builder_set_method(m) PROVE astray \subseteq astray'
    BY <1>5 DEF request_builder_set_method, pvars
  <1>6. CASE request_builder_init \/ request_builder_free
    BY <1>6 DEF request_builder_init, request_builder_free, pvars
  <1> QED
    BY <1>1, <1>2, <1>3, <1>4, <1>5, <1>6 DEF BNext, BuilderCall, bvars, pvars

\* A URL that is parsed again is noted.
LEMMA UrlCallLine ==
    ASSUME UrlsInv, LineInv, NEW p \in Urls, UrlCall(p)
    PROVE  LineInv'
  <1>1. UNCHANGED <<rb, asked, request>> /\ DOMAIN given = Urls
    BY DEF UrlCall, UrlsInv
  <1>2. CASE UNCHANGED given /\ astray \subseteq astray'
    BY <1>1, <1>2 DEF LineInv, HasLast, LineOf, TargetOf, Noted
  <1>3. ASSUME given[p] = NullPtr, NEW s, given' = [given EXCEPT ![p] = s],
               astray \subseteq astray'
        PROVE  LineInv'
    <2>1. CASE Noted({"parsed twice", "used again"})
      BY <1>3, <2>1 DEF LineInv, Noted
    <2>2. CASE HasLast(rb, asked) /\ LineOf(request, asked)
      <3>1. ASSUME rb.life = "ready", rb.parsed_url # NoUrl
            PROVE  \E i : LastUrl(asked, Len(asked), i) /\ asked[i].from = given'[rb.parsed_url]
        <4>1. PICK i : LastUrl(asked, Len(asked), i) /\ asked[i].from = given[rb.parsed_url]
          BY <2>2, <3>1 DEF HasLast
        <4>2. rb.parsed_url # p
          BY <1>3, <4>1, NullIsNoText DEF LastUrl
        <4>3. given'[rb.parsed_url] = given[rb.parsed_url]
          BY <1>1, <1>3, <4>2
        <4> QED
          BY <4>1, <4>3
      <3> QED
        BY <1>1, <2>2, <3>1 DEF LineInv, HasLast, LineOf, TargetOf, LastUrl
    <2> QED
      BY <2>1, <2>2 DEF LineInv
  <1>4. ASSUME NEW s, parse_url_string(p, s) PROVE LineInv'
    <2>1. CASE UNCHANGED <<given, astray>>
      BY <1>2, <2>1
    <2>2. ASSUME NEW u, NEW failed, StringDone(p, s, u, failed) PROVE LineInv'
      <3>1. /\ astray \subseteq astray'
            /\ given' = [given EXCEPT ![p] = s] \/ UNCHANGED given
            /\ parse_url[p].life = "parsed" => "parsed twice" \in astray'
            /\ parse_url[p].life = "allocated" /\ given[p] # NullPtr =>
                  "used again" \in astray'
        BY <2>2 DEF StringDone, StringParsed, StringTouched
      <3>2. parse_url[p].life \in {"allocated", "parsed"}
        BY <1>4 DEF parse_url_string
      <3>3. Noted({"parsed twice", "used again"})' \/ given[p] = NullPtr
        BY <3>1, <3>2 DEF Noted
      <3> QED
        BY <1>2, <1>3, <3>1, <3>3 DEF LineInv
    <2> QED
      BY <1>4, <2>1, <2>2, StringCases
  <1>5. CASE parse_url_init(p)
    BY <1>2, <1>5, Zenon DEF parse_url_init
  <1>6. CASE parse_url_free(p)
    BY <1>2, <1>6 DEF parse_url_free
  <1> QED
    BY <1>4, <1>5, <1>6 DEF UrlCall

LEMMA SetHeaderLine ==
    ASSUME IInv, HasLast(rb, asked), LineOf(request, asked), NEW field, NEW value,
           request_builder_set_header(field, value)
    PROVE  HasLast(rb', asked') /\ LineOf(request', asked')
  <1>1. UNCHANGED <<given, request>>
    BY DEF request_builder_set_header
  <1>2. CASE UNCHANGED <<rb, asked>>
    BY <1>1, <1>2 DEF HasLast, LineOf, LastUrl
  <1>3. CASE ~Full
    <2> DEFINE h == [from |-> NullPtr, field |-> field, value |-> value]
    <2>1. PICK failed \in Failing :
             /\ rb' = WithHeader(rb, field, value, failed)
             /\ asked' = IF failed = "none" THEN Append(asked, h) ELSE asked
      BY <1>3 DEF request_builder_set_header
    <2>2. rb'.life = rb.life /\ rb'.parsed_url = rb.parsed_url
      BY <2>1, FailingNone, WithHeaderCount DEF IInv
    <2>3. h.from \notin Strings
      BY OthersNoUrl
    <2> HIDE DEF h
    <2>4. CASE asked' = asked
      BY <1>1, <2>2, <2>4 DEF HasLast, LineOf, LastUrl
    <2>5. CASE asked' = Append(asked, h)
      <3>1. HasLast(rb', Append(asked, h))
        BY <2>2, <2>3, HasMore DEF IInv
      <3>2. LineOf(request, Append(asked, h))
        BY LineMore DEF IInv
      <3> QED
        BY <1>1, <2>5, <3>1, <3>2
    <2> QED
      BY <2>1, <2>4, <2>5
  <1> QED
    BY <1>2, <1>3 DEF request_builder_set_header

LEMMA SetParsedUrlLine ==
    ASSUME IInv, UrlsInv, HasLast(rb, asked), LineOf(request, asked), NEW p \in Urls,
           request_builder_set_parsed_url(p)
    PROVE  HasLast(rb', asked') /\ LineOf(request', asked')
  <1>1. UNCHANGED <<given, request>> /\ parse_url[p].life = "parsed"
    BY DEF request_builder_set_parsed_url
  <1>2. CASE UNCHANGED <<rb, asked>>
    BY <1>1, <1>2 DEF HasLast, LineOf, LastUrl
  <1> DEFINE h == [from |-> given[p], field |-> <<"Host">>, value |-> HostText(parse_url[p])]
  <1>3. ASSUME NEW failed \in Failing, NEW w,
               w = WithHeader(rb, <<"Host">>, HostText(parse_url[p]), failed),
               rb' = Linked(w, p, failed),
               asked' = IF failed = "none" THEN Append(asked, h) ELSE asked
        PROVE  HasLast(rb', asked') /\ LineOf(request', asked')
    <2>1. /\ w.life = rb.life /\ w.parsed_url = rb.parsed_url
          /\ rb' = IF failed = "none" THEN [w EXCEPT !.parsed_url = p] ELSE w
          /\ [w EXCEPT !.parsed_url = p].parsed_url = p
      BY <1>3, FailingNone, WithHeaderCount DEF IInv
    <2>2. h.from = given[p] /\ given[p] \in Strings
      BY <1>1 DEF UrlsInv, UrlInvOf
    <2> HIDE DEF h
    <2>3. CASE failed = "none"
      <3>1. asked' = Append(asked, h) /\ rb'.parsed_url = p
        BY <1>3, <2>1, <2>3
      <3>2. /\ LastUrl(Append(asked, h), Len(Append(asked, h)), Len(Append(asked, h)))
            /\ Append(asked, h)[Len(Append(asked, h))] = h
        BY <2>2, LastNew DEF IInv
      <3>3. LineOf(request, Append(asked, h))
        BY LineMore DEF IInv
      <3>4. HasLast(rb', asked')
        <4> SUFFICES \E i : LastUrl(asked', Len(asked'), i) /\ asked'[i].from = given[p]
          BY <1>1, <3>1 DEF HasLast
        <4> QED
          BY <2>2, <3>1, <3>2
      <3> QED
        BY <1>1, <3>1, <3>3, <3>4
    <2>4. CASE failed # "none"
      <3>1. asked' = asked /\ rb' = w
        BY <1>3, <2>1, <2>4
      <3> QED
        BY <1>1, <2>1, <3>1 DEF HasLast, LineOf, LastUrl
    <2> QED
      BY <2>3, <2>4
  <1>4. \/ UNCHANGED <<rb, asked>>
        \/ \E failed \in Failing : \E w :
              /\ w = WithHeader(rb, <<"Host">>, HostText(parse_url[p]), failed)
              /\ rb' = Linked(w, p, failed)
              /\ asked' = IF failed = "none" THEN Append(asked, h) ELSE asked
    BY SetParsedUrlCases, Zenon
  <1> QED
    BY <1>2, <1>3, <1>4

LEMMA BuildLine ==
    ASSUME IInv, IInv', UrlsInv, UrlLinked, HasLast(rb, asked), LineOf(request, asked),
           NEW size, request_builder_build(size)
    PROVE  HasLast(rb', asked') /\ LineOf(request', asked')
  <1>1. UNCHANGED <<given, parse_url>> /\ rb.life = "ready"
    BY DEF request_builder_build
  <1>2. CASE UNCHANGED <<rb, asked, request>>
    BY <1>1, <1>2 DEF HasLast, LineOf, LastUrl
  <1>3. ASSUME NEW failed, NEW fails, BuildDone(size, failed, fails)
        PROVE  HasLast(rb', asked') /\ LineOf(request', asked')
    <2> DEFINE h == [from |-> <<"build">>, field |-> <<"Content-Length">>,
                     value |-> LengthText(size)]
    <2>1. /\ rb' = BuiltWith(size, failed) /\ fault' = Outcome(rb', size, fails)
          /\ request' = IF fault' = "none" THEN Text(rb', parse_url[rb'.parsed_url], size)
                        ELSE NoRequest
          /\ fails \in BOOLEAN
          /\ asked' = IF Announces(rb, size) /\ failed = "none" THEN Append(asked, h) ELSE asked
      BY <1>3, FailsNoted DEF BuildDone
    <2>2. rb'.life = rb.life /\ rb'.parsed_url = rb.parsed_url
      <3>1. CASE Announces(rb, size)
        <4>1. failed \in {"none", "field", "value"}
          BY <1>3, <3>1, FailingNone DEF BuildDone
        <4>2. rb' = WithHeader(rb, <<"Content-Length">>, LengthText(size), failed)
          BY <2>1, <3>1 DEF BuiltWith
        <4> QED
          BY <4>1, <4>2, WithHeaderCount DEF IInv
      <3>2. CASE ~Announces(rb, size)
        BY <2>1, <3>2 DEF BuiltWith
      <3> QED
        BY <3>1, <3>2
    <2>3. h.from \notin Strings
      BY OthersNoUrl
    <2> HIDE DEF h
    <2>4. HasLast(rb', asked')
      <3>1. CASE asked' = asked
        BY <1>1, <2>2, <3>1 DEF HasLast, LastUrl
      <3>2. CASE asked' = Append(asked, h)
        <4>1. HasLast(rb', Append(asked, h))
          BY <2>2, <2>3, HasMore DEF IInv
        <4> QED
          BY <1>1, <3>2, <4>1 DEF HasLast, LastUrl
      <3> QED
        BY <2>1, <3>1, <3>2
    <2>5. CASE fault' = "none"
      <3>1. Match(rb', asked') /\ rb'.life = "ready"
        BY <1>1, <2>2 DEF IInv
      <3>2. rb'.parsed_url \in Urls \cup {NoUrl}
        BY <2>2 DEF UrlLinked
      <3> DEFINE b == rb'
                 a == asked'
      <3>3. /\ Match(b, a) /\ b.life = "ready" /\ HasLast(b, a)
            /\ b.parsed_url \in Urls \cup {NoUrl} /\ Outcome(b, size, fails) = "none"
        BY <2>1, <2>4, <2>5, <3>1, <3>2
      <3> HIDE DEF a, b
      <3>4. LineOf(Text(b, parse_url[b.parsed_url], size), a)
        BY <2>1, <3>3, TextLine
      <3> QED
        BY <2>1, <2>4, <2>5, <3>4 DEF a, b
    <2>6. CASE fault' # "none"
      BY <2>1, <2>4, <2>6 DEF LineOf
    <2> QED
      BY <2>5, <2>6
  <1> QED
    BY <1>2, <1>3, BuildCases

LEMMA NextLine ==
    ASSUME IInv, IInv', UrlsInv, MemoryInv, LineInv, [BNext]_bvars
    PROVE  LineInv'
  <1>1. ASSUME NEW p \in Urls, UrlCall(p) PROVE LineInv'
    BY <1>1, UrlCallLine
  <1>2. CASE UNCHANGED bvars
    BY <1>2 DEF bvars, pvars, LineInv, HasLast, LineOf, LastUrl, TargetOf, Noted
  <1>3. CASE BuilderCall
    <2>1. astray \subseteq astray' /\ UNCHANGED given
      BY <1>3, AstrayGrows, BuilderUrls
    <2>2. CASE Noted({"parsed twice", "used again"})
      BY <2>1, <2>2 DEF LineInv, Noted
    <2>3. CASE HasLast(rb, asked) /\ LineOf(request, asked)
      <3>1. ASSUME HasLast(rb', asked'), LineOf(request', asked') PROVE LineInv'
        BY <2>1, <3>1 DEF LineInv, HasLast, LineOf, LastUrl, TargetOf
      <3>2. CASE request_builder_init
        <4>1. /\ rb' = [NewBuilder EXCEPT !.life = "ready"] /\ request' = NoRequest
          BY <3>2 DEF request_builder_init
        <4>2. rb'.parsed_url = NoUrl
          BY <4>1 DEF NewBuilder
        <4> QED
          BY <3>1, <4>1, <4>2 DEF HasLast, LineOf
      <3>3. CASE request_builder_free
        <4>1. rb' = NewBuilder /\ UNCHANGED <<request, asked>>
          BY <3>3 DEF request_builder_free
        <4>2. rb'.life = "new"
          BY <4>1 DEF NewBuilder
        <4> QED
          BY <2>3, <3>1, <4>1, <4>2 DEF HasLast, LineOf
      <3>4. ASSUME NEW m, request_builder_set_method(m) PROVE LineInv'
        <4>1. rb' = [rb EXCEPT !.method = m] /\ UNCHANGED <<request, asked>>
          BY <3>4 DEF request_builder_set_method
        <4>2. rb'.life = rb.life /\ rb'.parsed_url = rb.parsed_url
          BY <4>1 DEF IInv, Arrays
        <4> QED
          BY <2>3, <3>1, <4>1, <4>2 DEF HasLast, LineOf
      <3>5. ASSUME NEW p \in Urls, request_builder_set_parsed_url(p) PROVE LineInv'
        BY <2>3, <3>1, <3>5, SetParsedUrlLine
      <3>6. ASSUME NEW field, NEW value, request_builder_set_header(field, value)
            PROVE  LineInv'
        BY <2>3, <3>1, <3>6, SetHeaderLine
      <3>7. ASSUME NEW n, request_builder_build(n) PROVE LineInv'
        BY <2>3, <3>1, <3>7, BuildLine DEF MemoryInv
      <3> QED
        BY <1>3, <3>2, <3>3, <3>4, <3>5, <3>6, <3>7 DEF BuilderCall
    <2> QED
      BY <2>2, <2>3 DEF LineInv
  <1> QED
    BY <1>1, <1>2, <1>3 DEF BNext

\* The request asks the server of its last Host header for the path and query of the URL
\* that this header was made from, however often the builder was given another and
\* whichever of these calls failed half way.
THEOREM LineMeantForHost == BSpec => []LineNamesHost
  <1>1. IInv /\ IInv' /\ UrlsInv /\ MemoryInv /\ LineInv /\ [BNext]_bvars => LineInv'
    BY NextLine
  <1>2. ASSUME IInv, LineInv, request # NoRequest,
               astray \cap {"parsed twice", "used again"} = {}
        PROVE  \E i \in UrlsAsked \cap DOMAIN Present :
                  /\ \A j \in UrlsAsked \cap DOMAIN Present : j <= i
                  /\ request.url = asked[i].from
                  /\ request.target = TargetOf(request.url)
    <2> DEFINE n == Len(request.headers)
    <2>1. /\ n \in Nat /\ n <= Len(asked) /\ DOMAIN request.headers = 1..n
          /\ \E i : /\ LastUrl(asked, n, i)
                    /\ request.url = asked[i].from /\ request.target = TargetOf(request.url)
      BY <1>2 DEF IInv, Carries, LineInv, LineOf, Noted
    <2>2. Len(asked) \in Nat /\ DOMAIN asked = 1..Len(asked)
      <3>1. PICK S : asked \in Seq(S)
        BY <1>2 DEF IInv, IsSequence
      <3> QED
        BY <3>1
    <2>3. DOMAIN Present = 1..n
      BY <2>1, <2>2 DEF Present
    <2> HIDE DEF n
    <2>4. PICK i : /\ LastUrl(asked, n, i)
                   /\ request.url = asked[i].from /\ request.target = TargetOf(request.url)
      BY <2>1
    <2>5. i \in UrlsAsked \cap DOMAIN Present
      BY <2>1, <2>2, <2>3, <2>4 DEF UrlsAsked, LastUrl
    <2>6. \A j \in UrlsAsked \cap DOMAIN Present : j <= i
      BY <2>3, <2>4 DEF UrlsAsked, LastUrl
    <2> QED
      BY <2>4, <2>5, <2>6
  <1>3. IInv /\ LineInv => LineNamesHost
    BY <1>2, Zenon DEF LineNamesHost, TargetOf
  <1> QED
    BY <1>1, <1>3, InitLine, BuilderInvariance, UrlsInvariance, MemoryInvariance, PTL DEF BSpec

-----------------------------------------------------------------------------
(* The size of a request *)

\* The lengths of these texts are numbers
Measured(a) == \A i \in 1..Len(a) : Len(a[i].field) \in Nat /\ Len(a[i].value) \in Nat

SizesInv ==
    /\ Len(rb.method) \in Nat /\ IsSequence(builds) /\ Measured(asked)
    /\ BuildFits

LEMMA LengthIsNat == \A s : IsSequence(s) => Len(s) \in Nat
  BY DEF IsSequence

\* The digits of a number, however many it has.
DigitsOf(dec, n) ==
    \A k \in 0..n : dec[k] = IF k < 10 THEN <<DigitOf[k + 1]>>
                            ELSE Append(dec[k \div 10], DigitOf[(k % 10) + 1])

LEMMA DecimalMade ==
    ASSUME NEW n \in Nat
    PROVE  \E dec : DigitsOf(dec, n) /\ Decimal(n) = dec[n]
  <1> DEFINE IsFun(f) == f = [k \in 0..n |-> IF k < 10 THEN <<DigitOf[k + 1]>>
                                             ELSE Append(f[k \div 10], DigitOf[(k % 10) + 1])]
             dec == CHOOSE f : IsFun(f)
             S == Seq(Digit)
             stop == 0..9
             base == [k \in 0..n |-> IF k < 10 THEN <<DigitOf[k + 1]>> ELSE <<>>]
             from == [k \in 0..n |-> k \div 10]
             step == [k \in 0..n |-> [t \in S |-> Append(t, DigitOf[(k % 10) + 1])]]
  <1>1. \A k \in 0..9 : DigitOf[k + 1] \in Digit
    BY DEF DigitOf, Digit
  <1>2. \A k \in Nat : k % 10 \in 0..9 /\ k \div 10 \in Nat /\ (k >= 10 => k \div 10 < k)
    OBVIOUS
  <1>3. \A k \in Nat : DigitOf[(k % 10) + 1] \in Digit
    BY <1>1, <1>2
  <1>4. base \in [0..n -> S]
    BY <1>1
  <1>5. step \in [0..n -> [S -> S]]
    BY <1>3
  <1>6. from \in [0..n -> Nat] /\ \A k \in 0..n : k \notin stop => from[k] < k
    BY <1>2
  <1>7. PICK f : IsRecursion(f, n, S, stop, base, from, step)
    <2> HIDE DEF S, stop, base, from, step
    <2> QED
      BY <1>4, <1>5, <1>6, RecursionExists
  <1>8. ASSUME NEW k \in 0..n
        PROVE  f[k] = IF k < 10 THEN <<DigitOf[k + 1]>>
                      ELSE Append(f[k \div 10], DigitOf[(k % 10) + 1])
    <2>1. f[k] = IF k \in stop THEN base[k] ELSE step[k][f[from[k]]]
      BY <1>7 DEF IsRecursion
    <2>2. CASE k < 10
      BY <2>1, <2>2
    <2>3. CASE ~(k < 10)
      <3>1. k \div 10 \in 0..n /\ k \notin stop
        BY <1>2, <2>3
      <3>2. f[k \div 10] \in S
        BY <1>7, <3>1 DEF IsRecursion
      <3>3. f[k] = step[k][f[k \div 10]]
        BY <2>1, <3>1
      <3> QED
        BY <2>3, <3>2, <3>3
    <2> QED
      BY <2>2, <2>3
  <1>9. IsFun(f)
    <2>1. f = [k \in 0..n |-> f[k]]
      BY <1>7 DEF IsRecursion
    <2> QED
      BY <1>8, <2>1, Zenon
  <1>10. IsFun(dec)
    BY <1>9
  <1> HIDE DEF dec
  <1>11. DigitsOf(dec, n)
    BY <1>10 DEF DigitsOf
  <1>12. Decimal(n) = dec[n]
    BY DEF Decimal, dec
  <1> QED
    BY <1>11, <1>12

LEMMA DecimalText ==
    ASSUME NEW n \in Nat
    PROVE  Decimal(n) \in Seq(Digit)
  <1> DEFINE S == Seq(Digit)
  <1>1. \A k \in 0..9 : DigitOf[k + 1] \in Digit
    BY DEF DigitOf, Digit
  <1>2. \A k \in Nat : k % 10 \in 0..9 /\ k \div 10 \in Nat /\ (k >= 10 => k \div 10 < k)
    OBVIOUS
  <1>3. \A k \in Nat : DigitOf[(k % 10) + 1] \in Digit
    BY <1>1, <1>2
  <1>4. PICK dec : DigitsOf(dec, n) /\ Decimal(n) = dec[n]
    BY DecimalMade
  <1>5. \A k \in 0..n : (\A j \in 0..(k - 1) : dec[j] \in S) => dec[k] \in S
    <2> SUFFICES ASSUME NEW k \in 0..n, \A j \in 0..(k - 1) : dec[j] \in S
                 PROVE  dec[k] \in S
      OBVIOUS
    <2>1. dec[k] = IF k < 10 THEN <<DigitOf[k + 1]>>
                   ELSE Append(dec[k \div 10], DigitOf[(k % 10) + 1])
      BY <1>4 DEF DigitsOf
    <2>2. CASE k < 10
      BY <1>1, <2>1, <2>2
    <2>3. CASE ~(k < 10)
      <3>1. k \div 10 \in 0..(k - 1)
        BY <1>2, <2>3
      <3>2. dec[k \div 10] \in S
        BY <3>1
      <3> QED
        BY <1>3, <2>1, <2>3, <3>2
    <2> QED
      BY <2>2, <2>3
  <1>6. \A k \in 0..n : dec[k] \in S
    <2> HIDE DEF S
    <2> QED
      BY <1>5, AllValues
  <1> QED
    BY <1>4, <1>6

\* What is kept of them is a text too.
LEMMA LengthTextLength ==
    ASSUME NEW n \in Nat
    PROVE  Len(LengthText(n)) \in Nat
  <1> DEFINE d == Decimal(n)
             k == IF Len(d) < BUFFER THEN Len(d) ELSE BUFFER - 1
  <1>1. d \in Seq(Digit) /\ Len(d) \in Nat
    BY DecimalText
  <1> HIDE DEF d
  <1>2. {i \in 1..Len(d) : i < BUFFER} = 1..k /\ k \in Nat
    BY <1>1, BuilderAssumption
  <1> HIDE DEF k
  <1>3. LengthText(n) = [i \in 1..k |-> d[i]]
    BY <1>2 DEF LengthText, d
  <1>4. Len([i \in 1..k |-> d[i]]) = k
    BY <1>2
  <1> QED
    BY <1>2, <1>3, <1>4

LEMMA HostTextLength ==
    ASSUME NEW r, UrlObject(r), r.port \in Nat
    PROVE  Len(HostText(r)) \in Nat
  <1> DEFINE Letters == Char \cup {"NULL"}
             port == <<":">> \o Decimal(r.port)
  <1>1. r.host \in Seq(Letters)
    <2>1. NullPtr \in Seq(Letters) /\ \A s \in Seq(Char) : s \in Seq(Letters)
      BY DEF NullPtr
    <2>2. r.host \in Texts
      BY DEF UrlObject
    <2> HIDE DEF Letters
    <2> QED
      BY <2>1, <2>2 DEF Texts
  <1>2. port \in Seq(Letters)
    <2>1. Digit \subseteq Letters /\ ":" \in Letters
      BY DEF Char
    <2>2. Decimal(r.port) \in Seq(Letters)
      <3> HIDE DEF Letters
      <3> QED
        BY <2>1, DecimalText
    <2> HIDE DEF Letters
    <2> QED
      BY <2>1, <2>2
  <1>3. HostText(r) = r.host \o port \/ HostText(r) = r.host \o <<>>
    BY DEF HostText
  <1> HIDE DEF port, Letters
  <1>4. r.host \o port \in Seq(Letters) /\ r.host \o <<>> \in Seq(Letters)
    BY <1>1, <1>2
  <1> QED
    BY <1>3, <1>4

LEMMA PortIsNat ==
    ASSUME UrlsInv, NEW p \in Urls, parse_url[p].life = "parsed"
    PROVE  UrlObject(parse_url[p]) /\ parse_url[p].port \in Nat
  <1> DEFINE s == given[p]
             u == Parsed[s].u
  <1>1. UrlObject(parse_url[p]) /\ s \in Strings /\ FieldsOf(parse_url[p], s)
    BY DEF UrlsInv, UrlInvOf
  <1>2. u.port \in Nat
    <2>1. u = http_parser_parse_url(s, Garbage(0)).u
      BY <1>1 DEF Parsed
    <2> HIDE DEF u, s
    <2> QED
      BY <1>1, <2>1, GarbageStruct, ParsedOver
  <1>3. parse_url[p].port = PortOf(u, Copied(u, "UF_SCHEMA", s))
    BY <1>1 DEF FieldsOf
  <1> HIDE DEF u, s
  <1> QED
    BY <1>1, <1>2, <1>3 DEF PortOf

\* The sum over the headers is a number.
LEMMA HeaderSizesType ==
    ASSUME NEW b, b.headers_count \in Nat,
           \A i \in 1..b.headers_count : /\ Len(b.header_fields[i]) \in Nat
                                         /\ Len(b.header_values[i]) \in Nat
    PROVE  HeaderSizes(b) \in Nat
  <1> DEFINE n == b.headers_count
             IsFun(f) == f = [i \in 0..n |->
                               IF i = 0 THEN 0
                               ELSE f[i - 1] + Len(b.header_fields[i]) + 1 + 1
                                      + Len(b.header_values[i]) + 2]
             sum == CHOOSE f : IsFun(f)
             step == [i \in 0..n |-> [x \in Nat |->
                         IF i = 0 THEN 0
                         ELSE x + Len(b.header_fields[i]) + 1 + 1 + Len(b.header_values[i]) + 2]]
  <1>0. \A x \in Nat, i \in 1..n :
           x + Len(b.header_fields[i]) + 1 + 1 + Len(b.header_values[i]) + 2 \in Nat
    <2> SUFFICES ASSUME NEW x \in Nat, NEW i \in 1..n
                 PROVE  x + Len(b.header_fields[i]) + 1 + 1 + Len(b.header_values[i]) + 2 \in Nat
      OBVIOUS
    <2> DEFINE k == Len(b.header_fields[i])
               l == Len(b.header_values[i])
    <2>1. k \in Nat /\ l \in Nat
      OBVIOUS
    <2> HIDE DEF k, l
    <2>2. x + k + 1 + 1 + l + 2 \in Nat
      BY <2>1
    <2> QED
      BY <2>2 DEF k, l
  <1>1. step \in [0..n -> [Nat -> Nat]]
    <2> SUFFICES ASSUME NEW i \in 0..n, NEW x \in Nat
                 PROVE  (IF i = 0 THEN 0
                         ELSE x + Len(b.header_fields[i]) + 1 + 1
                                + Len(b.header_values[i]) + 2) \in Nat
      BY Zenon
    <2>1. i = 0 \/ i \in 1..n
      OBVIOUS
    <2> QED
      BY <1>0, <2>1
  <1>2. \E f : IsFun(f)
    <2> DEFINE zero == 0
    <2>1. PICK f : IsLoop(f, zero, n, Nat, zero, step)
      <3>1. zero \in Nat /\ n \in Nat /\ zero <= n
        OBVIOUS
      <3>2. step \in [zero..n -> [Nat -> Nat]]
        BY <1>1, Zenon
      <3> HIDE DEF step, n, zero, IsFun, sum
      <3> QED
        BY <3>1, <3>2, LoopExists
    <2>2. ASSUME NEW i \in 0..n
          PROVE  f[i] = IF i = 0 THEN 0
                        ELSE f[i - 1] + Len(b.header_fields[i]) + 1 + 1
                               + Len(b.header_values[i]) + 2
      <3>1. CASE i = 0
        <4>1. f[i] = zero
          BY <2>1, <3>1 DEF IsLoop
        <4> QED
          BY <3>1, <4>1
      <3>2. CASE i # 0
        <4>1. i - 1 \in 0..n
          BY <3>2
        <4>2. f[i - 1] \in Nat
          BY <2>1, <4>1 DEF IsLoop
        <4>3. f[i] = step[i][f[i - 1]]
          BY <2>1, <3>2 DEF IsLoop
        <4> QED
          BY <3>2, <4>2, <4>3
      <3> QED
        BY <3>1, <3>2
    <2>3. f = [i \in 0..n |-> f[i]]
      BY <2>1 DEF IsLoop
    <2> HIDE DEF n
    <2>4. IsFun(f)
      BY <2>2, <2>3
    <2> QED
      BY <2>4
  <1>3. IsFun(sum)
    BY <1>2
  <1> HIDE DEF sum
  <1>4. \A i \in 0..n : sum[i] \in Nat
    <2> DEFINE T == {i \in 0..n : sum[i] \in Nat}
               zero == 0
    <2>1. zero \in T
      BY <1>3
    <2>2. \A i \in zero..(n - 1) : i \in T => i + 1 \in T
      <3> SUFFICES ASSUME NEW i \in 0..(n - 1), i \in T PROVE sum[i + 1] \in Nat
        OBVIOUS
      <3>1. i + 1 \in 1..n /\ i + 1 # 0 /\ (i + 1) - 1 = i /\ i + 1 \in 0..n
        OBVIOUS
      <3>2. sum[i + 1] = sum[i] + Len(b.header_fields[i + 1]) + 1 + 1
                           + Len(b.header_values[i + 1]) + 2
        BY <1>3, <3>1
      <3>3. sum[i] \in Nat
        OBVIOUS
      <3> QED
        BY <1>0, <3>1, <3>2, <3>3
    <2>3. \A i \in zero..n : i \in T
      <3>1. zero \in Nat /\ n \in Nat
        OBVIOUS
      <3> HIDE DEF T, n, zero
      <3> QED
        BY <2>1, <2>2, <3>1, IntervalInduction
    <2> QED
      BY <2>3
  <1>5. HeaderSizes(b) = sum[n]
    BY DEF HeaderSizes, sum
  <1> QED
    BY <1>4, <1>5

LEMMA LineSizeType ==
    ASSUME NEW b, Len(b.method) \in Nat, NEW r, UrlObject(r)
    PROVE  LineSize(b, r) \in Nat
  <1>1. \A t \in Texts : Len(t) \in Nat
    BY DEF Texts, NullPtr
  <1>2. Len(r.path) \in Nat /\ Len(r.query) \in Nat
    BY <1>1 DEF UrlObject
  <1> DEFINE m == Len(b.method)
             p == Len(r.path)
             q == IF r.query = <<>> THEN 0 ELSE Len(r.query) + 1
  <1>3. m \in Nat /\ p \in Nat /\ q \in Nat
    BY <1>2
  <1>4. LineSize(b, r) = m + 1 + p + q + 1 + 8 + 2
    BY DEF LineSize
  <1> HIDE DEF m, p, q
  <1> QED
    BY <1>3, <1>4

\* Numbers below the bound are what they are in 32 bits.
LEMMA InRange == \A k \in Nat : k < UINT32_RANGE => k % UINT32_RANGE = k
  BY BuilderAssumption, SMT

\* What is written exceeds what was counted by the terminator at most, where the count is
\* right: what goes wrong is a chunked request with a body, or a size that wraps.
LEMMA WrittenFits ==
    ASSUME NEW b, NEW url, NEW size \in Nat, LineSize(b, url) \in Nat, HeaderSizes(b) \in Nat,
           Written(b, url, size) > Counted(b, url, size) + 1
    PROVE  \/ Chunked(b) /\ size > 0
           \/ LineSize(b, url) + HeaderSizes(b) + 2 + size >= UINT32_RANGE
  <1> SUFFICES ASSUME ~(Chunked(b) /\ size > 0),
                      LineSize(b, url) + HeaderSizes(b) + 2 + size < UINT32_RANGE
               PROVE  FALSE
    BY BuilderAssumption
  <1> DEFINE text == LineSize(b, url) + HeaderSizes(b) + 2
  <1>1. text \in Nat /\ text + size < UINT32_RANGE /\ text + size \in Nat
    OBVIOUS
  <1>2. Written(b, url, size) = IF size = 0 THEN text + 1 ELSE text + size
    BY DEF Written
  <1>3. Counted(b, url, size) = text + size
    <2>1. Counted(b, url, size) = (text + (IF Chunked(b) THEN 0 ELSE size)) % UINT32_RANGE
      BY DEF Counted
    <2> HIDE DEF text
    <2>2. text + (IF Chunked(b) THEN 0 ELSE size) = text + size
      BY <1>1
    <2> QED
      BY <1>1, <2>1, <2>2, InRange
  <1> HIDE DEF text
  <1> QED
    BY <1>1, <1>2, <1>3

\* The outcome of a build that writes past its block.
LEMMA OutcomeHeap ==
    ASSUME NEW b, NEW size, NEW fails \in BOOLEAN, Outcome(b, size, fails) = "heap"
    PROVE  /\ b.parsed_url # NoUrl /\ parse_url[b.parsed_url].life = "parsed"
           /\ Written(b, parse_url[b.parsed_url], size)
                > Counted(b, parse_url[b.parsed_url], size) + 1
  BY DEF Outcome

-----------------------------------------------------------------------------

LEMMA InitSizes == BInit => SizesInv
  <1> SUFFICES ASSUME BInit PROVE SizesInv
    OBVIOUS
  <1>1. rb.method = <<"<unknown>">> /\ builds = <<>> /\ asked = <<>> /\ fault = "none"
    BY DEF BInit, PInit, NewBuilder
  <1> QED
    BY <1>1, EmptySequence DEF SizesInv, Measured, BuildFits

\* The texts a build adds up stay texts.
LEMMA MeasuredMore ==
    ASSUME NEW a, IsSequence(a), Measured(a), NEW h, Len(h.field) \in Nat, Len(h.value) \in Nat
    PROVE  Measured(Append(a, h))
  <1>1. /\ Len(a) \in Nat /\ Len(Append(a, h)) = Len(a) + 1 /\ Append(a, h)[Len(a) + 1] = h
        /\ \A i \in 1..Len(a) : Append(a, h)[i] = a[i]
    BY AppendOne
  <1>2. \A i \in 1..(Len(a) + 1) : i \in 1..Len(a) \/ i = Len(a) + 1
    BY <1>1
  <1> QED
    BY <1>1, <1>2 DEF Measured

LEMMA BuildSizes ==
    ASSUME IInv, IInv', UrlsInv, UrlLinked, SizesInv, NEW size \in Nat,
           request_builder_build(size)
    PROVE  SizesInv'
  <1>1. /\ UNCHANGED parse_url /\ rb.life = "ready" /\ builds' = Append(builds, size)
    BY DEF request_builder_build
  <1>2. IsSequence(builds') /\ builds'[Len(builds')] = size
    BY <1>1, AppendOne DEF SizesInv
  <1>3. CASE fault' = "slots" /\ UNCHANGED <<rb, asked>>
    BY <1>2, <1>3 DEF SizesInv, Measured, BuildFits
  <1>4. ASSUME NEW failed, NEW fails, BuildDone(size, failed, fails) PROVE SizesInv'
    <2> DEFINE h == [from |-> <<"build">>, field |-> <<"Content-Length">>,
                     value |-> LengthText(size)]
               b == rb'
    <2>1. /\ b = BuiltWith(size, failed) /\ fault' = Outcome(b, size, fails)
          /\ fails \in BOOLEAN
          /\ asked' = IF Announces(rb, size) /\ failed = "none" THEN Append(asked, h) ELSE asked
      BY <1>4, FailsNoted DEF BuildDone
    <2>2. b.life = rb.life /\ b.parsed_url = rb.parsed_url /\ b.method = rb.method
      <3>1. CASE Announces(rb, size)
        <4>1. failed \in {"none", "field", "value"}
          BY <1>4, <3>1, FailingNone DEF BuildDone
        <4>2. b = WithHeader(rb, <<"Content-Length">>, LengthText(size), failed)
          BY <2>1, <3>1 DEF BuiltWith
        <4> HIDE DEF b
        <4> QED
          BY <4>1, <4>2, WithHeaderCount DEF IInv
      <3>2. CASE ~Announces(rb, size)
        BY <2>1, <3>2 DEF BuiltWith
      <3> QED
        BY <3>1, <3>2
    <2>3. Len(h.field) \in Nat /\ Len(h.value) \in Nat
      BY LengthTextLength
    <2> HIDE DEF h
    <2>4. Measured(asked')
      <3>1. Measured(asked) /\ Measured(Append(asked, h))
        BY <2>3, MeasuredMore DEF SizesInv, IInv
      <3> QED
        BY <2>1, <3>1
    <2>5. BuildFits'
      <3>1. CASE fault' = "heap"
        <4> DEFINE url == parse_url[b.parsed_url]
        <4>1. /\ b.parsed_url # NoUrl /\ url.life = "parsed"
              /\ Written(b, url, size) > Counted(b, url, size) + 1
          BY <2>1, <3>1, OutcomeHeap
        <4>2. UrlObject(url)
          BY <2>2, <4>1, PortIsNat DEF UrlLinked
        <4>3. Match(b, asked') /\ Arrays(b) /\ Len(b.method) \in Nat
          BY <1>1, <2>2 DEF IInv, SizesInv
        <4>4. HeaderSizes(b) \in Nat
          <5> HIDE DEF b
          <5>1. /\ b.headers_count \in Nat /\ b.headers_count = Len(asked')
                /\ \A i \in 1..b.headers_count : /\ Len(b.header_fields[i]) \in Nat
                                                 /\ Len(b.header_values[i]) \in Nat
            BY <2>4, <4>3 DEF Match, Arrays, Measured
          <5> QED
            BY <5>1, HeaderSizesType
        <4>5. LineSize(b, url) \in Nat
          <5> HIDE DEF b, url
          <5> QED
            BY <4>2, <4>3, LineSizeType
        <4>6. \/ Chunked(b) /\ size > 0
              \/ LineSize(b, url) + HeaderSizes(b) + 2 + size >= UINT32_RANGE
          <5> HIDE DEF b, url
          <5> QED
            BY <4>1, <4>4, <4>5, WrittenFits
        <4> QED
          BY <1>1, <1>2, <4>6 DEF BuildFits
      <3>2. CASE fault' # "heap"
        BY <3>2 DEF BuildFits
      <3> QED
        BY <3>1, <3>2
    <2>6. Len(rb'.method) \in Nat
      BY <2>2 DEF SizesInv
    <2> QED
      BY <1>2, <2>4, <2>5, <2>6 DEF SizesInv
  <1> QED
    BY <1>3, <1>4, BuildCases

LEMMA UrlCallFault ==
    ASSUME fault = "none", NEW p, UrlCall(p)
    PROVE  fault' \in {"none", "null"}
  <1>1. CASE parse_url_init(p) \/ parse_url_free(p)
    BY <1>1 DEF parse_url_init, parse_url_free
  <1>2. ASSUME NEW s, parse_url_string(p, s) PROVE fault' \in {"none", "null"}
    <2>1. ASSUME NEW u, NEW failed, StringDone(p, s, u, failed)
          PROVE  fault' \in {"none", "null"}
      BY <2>1 DEF StringDone, StringParsed, StringTouched
    <2> QED
      BY <1>2, <2>1, StringCases
  <1> QED
    BY <1>1, <1>2 DEF UrlCall

\* A header more, or none.
LEMMA HeaderSizesKept ==
    ASSUME IInv, SizesInv, NEW from, NEW field, NEW value, NEW failed,
           Len(field) \in Nat, Len(value) \in Nat, UNCHANGED builds,
           rb'.method = rb.method, fault' # "heap",
           asked' = IF failed = "none"
                    THEN Append(asked, [from |-> from, field |-> field, value |-> value])
                    ELSE asked
    PROVE  SizesInv'
  <1> DEFINE h == [from |-> from, field |-> field, value |-> value]
  <1>1. Len(h.field) \in Nat /\ Len(h.value) \in Nat
    OBVIOUS
  <1> HIDE DEF h
  <1>2. Measured(Append(asked, h)) /\ Measured(asked)
    BY <1>1, MeasuredMore DEF SizesInv, IInv
  <1>3. Measured(asked')
    BY <1>2 DEF h
  <1>4. BuildFits'
    BY DEF BuildFits
  <1> QED
    BY <1>3, <1>4 DEF SizesInv

LEMMA SetHeaderSizes ==
    ASSUME IInv, SizesInv, fault = "none", NEW field, NEW value,
           Len(field) \in Nat, Len(value) \in Nat, request_builder_set_header(field, value)
    PROVE  SizesInv'
  <1>1. UNCHANGED builds
    BY DEF request_builder_set_header
  <1>2. CASE fault' = "slots" /\ UNCHANGED <<rb, asked>>
    BY <1>1, <1>2 DEF SizesInv, Measured, BuildFits
  <1>3. CASE ~Full
    <2>1. PICK failed \in Failing :
             /\ rb' = WithHeader(rb, field, value, failed)
             /\ asked' = IF failed = "none"
                         THEN Append(asked, [from |-> NullPtr, field |-> field, value |-> value])
                         ELSE asked
             /\ UNCHANGED fault
      BY <1>3 DEF request_builder_set_header
    <2>2. fault' # "heap"
      BY <2>1
    <2>3. rb'.method = rb.method
      BY <2>1, FailingNone, WithHeaderCount DEF IInv
    <2> QED
      BY <1>1, <2>1, <2>2, <2>3, HeaderSizesKept
  <1> QED
    BY <1>2, <1>3 DEF request_builder_set_header

LEMMA SetParsedUrlSizes ==
    ASSUME IInv, UrlsInv, SizesInv, fault = "none", NEW p \in Urls,
           request_builder_set_parsed_url(p)
    PROVE  SizesInv'
  <1>1. UNCHANGED builds /\ parse_url[p].life = "parsed"
    BY DEF request_builder_set_parsed_url
  <1>2. CASE fault' \in {"slots", "null"} /\ UNCHANGED <<rb, asked>>
    BY <1>1, <1>2 DEF SizesInv, Measured, BuildFits
  <1> DEFINE field == <<"Host">>
             value == HostText(parse_url[p])
  <1>3. Len(field) \in Nat /\ Len(value) \in Nat
    BY <1>1, PortIsNat, HostTextLength
  <1>4. ASSUME NEW failed \in Failing, NEW w,
               w = WithHeader(rb, field, value, failed), rb' = Linked(w, p, failed),
               asked' = IF failed = "none"
                        THEN Append(asked, [from |-> given[p], field |-> field, value |-> value])
                        ELSE asked,
               UNCHANGED fault
        PROVE  SizesInv'
    <2>1. w.method = rb.method /\ rb'.method = w.method
      BY <1>4, FailingNone, WithHeaderCount DEF IInv, Linked
    <2> HIDE DEF field, value
    <2> QED
      BY <1>1, <1>3, <1>4, <2>1, HeaderSizesKept
  <1>5. \/ fault' \in {"slots", "null"} /\ UNCHANGED <<rb, asked>>
        \/ \E failed \in Failing : \E w :
              /\ w = WithHeader(rb, field, value, failed)
              /\ rb' = Linked(w, p, failed)
              /\ asked' = IF failed = "none"
                          THEN Append(asked, [from |-> given[p], field |-> field,
                                              value |-> value])
                          ELSE asked
              /\ UNCHANGED fault
    BY SetParsedUrlCases, Zenon
  <1> HIDE DEF field, value
  <1> QED
    BY <1>2, <1>4, <1>5

LEMMA NextSizes ==
    ASSUME IInv, IInv', UrlsInv, MemoryInv, SizesInv, [BNext]_bvars
    PROVE  SizesInv'
  <1>1. ASSUME fault = "none", NEW p \in Urls, UrlCall(p) PROVE SizesInv'
    <2>1. UNCHANGED <<rb, asked, builds>> /\ fault' # "heap"
      BY <1>1, UrlCallFault DEF UrlCall
    <2> QED
      BY <2>1 DEF SizesInv, Measured, BuildFits
  <1>2. CASE fault = "none" /\ BuilderCall
    <2>1. CASE request_builder_init
      <3>1. /\ rb' = [NewBuilder EXCEPT !.life = "ready"] /\ asked' = <<>> /\ builds' = <<>>
            /\ fault' = "none"
        BY <1>2, <2>1 DEF request_builder_init, pvars
      <3>2. rb'.method = <<"<unknown>">>
        BY <3>1 DEF NewBuilder
      <3> QED
        BY <3>1, <3>2, EmptySequence DEF SizesInv, Measured, BuildFits
    <2>2. CASE request_builder_free
      <3>1. rb' = NewBuilder /\ UNCHANGED <<asked, builds, fault>>
        BY <2>2 DEF request_builder_free
      <3>2. rb'.method = <<"<unknown>">>
        BY <3>1 DEF NewBuilder
      <3> QED
        BY <1>2, <3>1, <3>2 DEF SizesInv, Measured, BuildFits
    <2>3. ASSUME NEW m \in Methods, request_builder_set_method(m) PROVE SizesInv'
      <3>1. /\ rb' = [rb EXCEPT !.method = m] /\ UNCHANGED <<asked, builds, fault>>
        BY <2>3 DEF request_builder_set_method, pvars
      <3>2. rb'.method = m
        BY <3>1 DEF IInv, Arrays
      <3>3. m \in Seq(STRING)
        BY InputsAssumption
      <3>4. Len(rb'.method) \in Nat
        BY <3>2, <3>3
      <3> QED
        BY <1>2, <3>1, <3>4 DEF SizesInv, Measured, BuildFits
    <2>4. ASSUME NEW p \in Urls, request_builder_set_parsed_url(p) PROVE SizesInv'
      BY <1>2, <2>4, SetParsedUrlSizes
    <2>5. ASSUME NEW h \in Headers, request_builder_set_header(h[1], h[2]) PROVE SizesInv'
      <3>1. h[1] \in Seq(STRING) /\ h[2] \in Seq(STRING)
        BY InputsAssumption
      <3>2. Len(h[1]) \in Nat /\ Len(h[2]) \in Nat
        BY <3>1
      <3> QED
        BY <1>2, <2>5, <3>2, SetHeaderSizes
    <2>6. ASSUME NEW n \in BodySizes, request_builder_build(n) PROVE SizesInv'
      BY <2>6, InputsAssumption, BuildSizes DEF MemoryInv
    <2> QED
      BY <1>2, <2>1, <2>2, <2>3, <2>4, <2>5, <2>6 DEF BuilderCall
  <1>3. CASE UNCHANGED bvars
    BY <1>3 DEF bvars, pvars, SizesInv, Measured, BuildFits, LineSize, HeaderSizes, Chunked,
                request_builder_has_header
  <1> QED
    BY <1>1, <1>2, <1>3 DEF BNext

\* The texts of a builder have lengths, and a build that failed for its size was chunked with
\* a body or did not fit in 32 bits.
THEOREM SizesInvariance == BSpec => []SizesInv
  <1>1. IInv /\ IInv' /\ UrlsInv /\ MemoryInv /\ SizesInv /\ [BNext]_bvars => SizesInv'
    BY NextSizes
  <1> QED
    BY <1>1, InitSizes, BuilderInvariance, UrlsInvariance, MemoryInvariance, PTL DEF BSpec

\* build writes at most the terminator past what it counted, for all headers, URLs and sizes,
\* except for a chunked request with a body and for sizes of more than 32 bits.
THEOREM BuildsFit == BSpec => []BuildFits
  <1>1. SizesInv => BuildFits
    BY DEF SizesInv
  <1> QED
    BY <1>1, SizesInvariance, PTL

-----------------------------------------------------------------------------
(* How a request says the length of its body *)

\* Where a header comes from says what it may be
Origin(h, c) ==
    \/ h.from = NullPtr
    \/ h.from \in Strings /\ h.field = <<"Host">>
    \/ /\ h.from = <<"build">> /\ h.field = <<"Content-Length">>
       /\ \E j \in 1..Len(c) : h.value = LengthText(c[j])

Origins(a, c) == \A i \in 1..Len(a) : Origin(a[i], c)

ByClient(h) == h.field = <<"Content-Length">> => h.from = NullPtr

SaysChunked(h) == h.field = <<"Transfer-Encoding">> /\ h.value = <<"chunked">>

\* No build announces a length behind a first header that says chunked
ChunkedFirst(a) == 1 \in 1..Len(a) /\ SaysChunked(a[1]) => \A i \in 1..Len(a) : ByClient(a[i])

\* A header that frames the body
Frames(h) == h.field = <<"Content-Length">> \/ (h.from = NullPtr /\ h.field \in Framing)

\* The body of r was built with, and if there is one a header of r frames it
Said(r, a, c) ==
    r # NoRequest =>
        /\ DOMAIN r.headers = 1..Len(r.headers)
        /\ \E j \in 1..Len(c) : r.body = c[j]
        /\ r.body > 0 => \E i \in 1..Len(r.headers) : Frames(a[i])

Bodies(c) == IsSequence(c) /\ \A j \in 1..Len(c) : c[j] \in Nat

FramesInv ==
    /\ Bodies(builds)
    /\ Origins(asked, builds) /\ ChunkedFirst(asked)
    /\ Noted({"no memory"}) \/ Said(request, asked, builds)

LEMMA FieldsDiffer ==
    /\ <<"Host">> # <<"Content-Length">> /\ <<"Host">> \notin Framing
    /\ <<"Content-Length">> # <<"Transfer-Encoding">>
    /\ <<"Content-Length">> \in Framing /\ <<"Transfer-Encoding">> \in Framing
    /\ NullPtr # <<"build">> /\ NullPtr \notin Strings /\ <<"build">> \notin Strings
  <1>1. /\ <<"Host">>[1] = "Host" /\ <<"Content-Length">>[1] = "Content-Length"
        /\ <<"Transfer-Encoding">>[1] = "Transfer-Encoding" /\ <<"build">>[1] = "build"
        /\ <<"NULL">>[1] = "NULL"
    OBVIOUS
  <1>2. /\ "Host" # "Content-Length" /\ "Host" # "Transfer-Encoding"
        /\ "Content-Length" # "Transfer-Encoding" /\ "build" # "NULL"
    OBVIOUS
  <1>3. /\ <<"Host">> # <<"Content-Length">> /\ <<"Host">> # <<"Transfer-Encoding">>
        /\ <<"Content-Length">> # <<"Transfer-Encoding">> /\ <<"NULL">> # <<"build">>
    BY <1>1, <1>2
  <1> QED
    BY <1>3, OthersNoUrl, Zenon DEF Framing, NullPtr

\* One build more.
LEMMA BuildsMore ==
    ASSUME NEW c, Bodies(c), NEW n \in Nat, NEW a
    PROVE  /\ Bodies(Append(c, n))
           /\ Origins(a, c) => Origins(a, Append(c, n))
           /\ \A r : Said(r, a, c) => Said(r, a, Append(c, n))
           /\ \E j \in 1..Len(Append(c, n)) : Append(c, n)[j] = n
  <1> DEFINE d == Append(c, n)
  <1>1. /\ Len(c) \in Nat /\ Len(d) = Len(c) + 1 /\ d[Len(c) + 1] = n
        /\ \A i \in 1..Len(c) : d[i] = c[i]
        /\ IsSequence(d)
    BY AppendOne DEF Bodies
  <1> HIDE DEF d
  <1>2. \A j \in 1..Len(c) : j \in 1..Len(d) /\ d[j] = c[j]
    BY <1>1
  <1>3. \A h : Origin(h, c) => Origin(h, d)
    BY <1>2, Zenon DEF Origin
  <1>4. \A r : Said(r, a, c) => Said(r, a, d)
    BY <1>2, Zenon DEF Said
  <1>5. Len(c) + 1 \in 1..Len(d)
    BY <1>1
  <1>6. \E j \in 1..Len(d) : d[j] = n
    BY <1>1, <1>5
  <1>7. \A j \in 1..Len(d) : j \in 1..Len(c) \/ j = Len(c) + 1
    BY <1>1
  <1>8. Bodies(d)
    BY <1>1, <1>7 DEF Bodies
  <1> QED
    BY <1>3, <1>4, <1>6, <1>8 DEF Origins, d

\* One header more.
LEMMA FramedMore ==
    ASSUME NEW a, IsSequence(a), NEW c, NEW h, Origin(h, c), Origins(a, c), ChunkedFirst(a),
           \/ ByClient(h)
           \/ ~SaysChunked(h) /\ (1 \in 1..Len(a) => ~SaysChunked(a[1]))
    PROVE  /\ Origins(Append(a, h), c) /\ ChunkedFirst(Append(a, h))
           /\ \A r : Carries(r, a) /\ Said(r, a, c) => Said(r, Append(a, h), c)
  <1> DEFINE b == Append(a, h)
  <1>1. /\ Len(a) \in Nat /\ Len(b) = Len(a) + 1 /\ b[Len(a) + 1] = h
        /\ \A i \in 1..Len(a) : b[i] = a[i]
    BY AppendOne
  <1> HIDE DEF b
  <1>2. \A i \in 1..Len(b) : (i \in 1..Len(a) /\ b[i] = a[i]) \/ (i = Len(a) + 1 /\ b[i] = h)
    BY <1>1
  <1>3. Origins(b, c)
    BY <1>2, Zenon DEF Origins
  <1>4. ChunkedFirst(b)
    <2> SUFFICES ASSUME 1 \in 1..Len(b), SaysChunked(b[1]), NEW i \in 1..Len(b)
                 PROVE  ByClient(b[i])
      BY DEF ChunkedFirst
    <2>1. CASE 1 \in 1..Len(a)
      <3>1. SaysChunked(a[1])
        BY <1>1, <2>1
      <3> QED
        BY <1>2, <2>1, <3>1 DEF ChunkedFirst
    <2>2. CASE 1 \notin 1..Len(a)
      <3>1. i = Len(a) + 1 /\ 1 = Len(a) + 1
        BY <1>1, <1>2, <2>2
      <3> QED
        BY <1>1, <2>2, <3>1
    <2> QED
      BY <2>1, <2>2
  <1>5. ASSUME NEW r, Carries(r, a), Said(r, a, c) PROVE Said(r, b, c)
    <2> SUFFICES ASSUME r # NoRequest, r.body > 0
                 PROVE  \E i \in 1..Len(r.headers) : Frames(b[i])
      BY <1>5 DEF Said
    <2>1. PICK i \in 1..Len(r.headers) : Frames(a[i])
      BY <1>5 DEF Said
    <2>2. b[i] = a[i]
      BY <1>1, <1>5 DEF Carries
    <2> QED
      BY <2>1, <2>2
  <1> QED
    BY <1>3, <1>4, <1>5 DEF b

\* What is built carries the headers of a and the size it was built with.
LEMMA TextSaid ==
    ASSUME NEW b, NEW a, Match(b, a), NEW url, NEW size \in Nat,
           NEW c, \E j \in 1..Len(c) : c[j] = size,
           size > 0 => \E i \in 1..Len(a) : Frames(a[i])
    PROVE  Said(Text(b, url, size), a, c)
  <1> DEFINE r == Text(b, url, size)
             hs == [i \in 1..b.headers_count |->
                       [field |-> b.header_fields[i], value |-> b.header_values[i]]]
  <1>1. r.body = size /\ r.headers = hs
    BY DEF Text
  <1>2. b.headers_count = Len(a) /\ Len(a) \in Nat
    BY AppendOne DEF Match
  <1>3. DOMAIN hs = 1..Len(a) /\ Len(hs) = Len(a)
    BY <1>2
  <1> HIDE DEF r, hs
  <1>4. Said(r, a, c)
    BY <1>1, <1>3 DEF Said
  <1> QED
    BY <1>4 DEF r

-----------------------------------------------------------------------------

LEMMA NothingFramed ==
    /\ Bodies(<<>>) /\ Origins(<<>>, <<>>) /\ ChunkedFirst(<<>>)
    /\ Said(NoRequest, <<>>, <<>>)
  BY EmptySequence DEF Bodies, Origins, ChunkedFirst, Said

LEMMA InitFrames == BInit => FramesInv
  <1> SUFFICES ASSUME BInit PROVE FramesInv
    OBVIOUS
  <1>1. asked = <<>> /\ builds = <<>> /\ request = NoRequest
    BY DEF BInit
  <1> QED
    BY <1>1, NothingFramed DEF FramesInv

LEMMA FramesSame ==
    ASSUME FramesInv, UNCHANGED <<asked, builds, request>>, astray \subseteq astray'
    PROVE  FramesInv'
  BY DEF FramesInv, Bodies, Origins, Origin, ChunkedFirst, Said, Noted

LEMMA HeaderFrames ==
    ASSUME IInv, FramesInv, NEW h, Origin(h, builds), ByClient(h), NEW failed,
           UNCHANGED <<builds, request>>, astray \subseteq astray',
           asked' = IF failed = "none" THEN Append(asked, h) ELSE asked
    PROVE  FramesInv'
  <1>1. CASE asked' = asked
    BY <1>1, FramesSame
  <1>2. CASE asked' = Append(asked, h)
    <2>1. /\ Origins(Append(asked, h), builds) /\ ChunkedFirst(Append(asked, h))
          /\ Said(request, asked, builds) => Said(request, Append(asked, h), builds)
      <3>1. \A r : Carries(r, asked) /\ Said(r, asked, builds) =>
                      Said(r, Append(asked, h), builds)
        BY FramedMore DEF IInv, FramesInv
      <3> QED
        BY <3>1, FramedMore DEF IInv, FramesInv
    <2>2. Bodies(builds) /\ (Noted({"no memory"}) => Noted({"no memory"})')
      BY DEF FramesInv, Noted
    <2>3. Noted({"no memory"})' \/ Said(request, asked, builds)
      BY <2>2 DEF FramesInv
    <2> DEFINE a == Append(asked, h)
    <2> HIDE DEF a
    <2>4. asked' = a /\ builds' = builds /\ request' = request
      BY <1>2 DEF a
    <2>5. /\ Origins(a, builds) /\ ChunkedFirst(a)
          /\ Said(request, asked, builds) => Said(request, a, builds)
      BY <2>1 DEF a
    <2>6. Origins(asked', builds') /\ ChunkedFirst(asked') /\ Bodies(builds')
      BY <2>2, <2>4, <2>5
    <2>7. Noted({"no memory"})' \/ Said(request', asked', builds')
      BY <2>3, <2>4, <2>5
    <2> QED
      BY <2>6, <2>7 DEF FramesInv
  <1> QED
    BY <1>1, <1>2

LEMMA BuildFrames ==
    ASSUME IInv, IInv', FramesInv, NEW size \in Nat, request_builder_build(size)
    PROVE  FramesInv'
  <1> DEFINE h == [from |-> <<"build">>, field |-> <<"Content-Length">>,
                   value |-> LengthText(size)]
             c == Append(builds, size)
  <1>1. rb.life = "ready" /\ builds' = c /\ Match(rb, asked) /\ astray \subseteq astray'
    <2>1. astray \subseteq astray'
      BY BuildCases, Zenon DEF BuildDone
    <2> QED
      BY <2>1 DEF request_builder_build, IInv
  <1>2. /\ Bodies(c) /\ Origins(asked, c) /\ ChunkedFirst(asked)
        /\ Noted({"no memory"}) \/ Said(request, asked, c)
        /\ \E j \in 1..Len(c) : c[j] = size
    <2>1. /\ Bodies(c) /\ Origins(asked, c) /\ \E j \in 1..Len(c) : c[j] = size
          /\ \A r : Said(r, asked, builds) => Said(r, asked, c)
      BY BuildsMore DEF FramesInv
    <2> QED
      BY <2>1, AppendOne DEF FramesInv
  <1>3. h.from = <<"build">> /\ h.field = <<"Content-Length">> /\ h.value = LengthText(size)
    OBVIOUS
  <1> HIDE DEF h, c
  <1>4. Origin(h, c)
    BY <1>2, <1>3 DEF Origin
  <1>5. CASE UNCHANGED <<rb, asked, astray, request>>
    <2>1. Origins(asked', builds') /\ ChunkedFirst(asked') /\ Bodies(builds')
      BY <1>1, <1>2, <1>5
    <2>2. Noted({"no memory"})' \/ Said(request', asked', builds')
      BY <1>1, <1>2, <1>5 DEF Noted
    <2> QED
      BY <2>1, <2>2 DEF FramesInv
  <1>6. ASSUME NEW failed, NEW fails, BuildDone(size, failed, fails) PROVE FramesInv'
    <2>1. /\ rb' = BuiltWith(size, failed)
          /\ request' = IF fault' = "none" THEN Text(rb', parse_url[rb'.parsed_url], size)
                        ELSE NoRequest
          /\ asked' = IF Announces(rb, size) /\ failed = "none" THEN Append(asked, h) ELSE asked
          /\ failed # "none" => "no memory" \in astray'
      BY <1>6 DEF BuildDone, NoMemory, h
    <2>2. ~SaysChunked(h) /\ (Announces(rb, size) /\ 1 \in 1..Len(asked) => ~SaysChunked(asked[1]))
      <3>1. ~SaysChunked(h)
        BY <1>3, FieldsDiffer DEF SaysChunked
      <3>2. ASSUME Announces(rb, size), 1 \in 1..Len(asked), SaysChunked(asked[1]) PROVE FALSE
        <4>1. /\ rb.header_fields[1] = <<"Transfer-Encoding">>
              /\ rb.header_values[1] = <<"chunked">> /\ 1 \in 1..rb.headers_count
          BY <1>1, <3>2 DEF Match, SaysChunked
        <4>2. Chunked(rb)
          BY <4>1, Zenon DEF Chunked, request_builder_has_header
        <4> QED
          BY <3>2, <4>2 DEF Announces
      <3> QED
        BY <3>1, <3>2
    <2>3. Origins(asked', c) /\ ChunkedFirst(asked')
      <3>1. CASE asked' = asked
        BY <1>2, <3>1
      <3>2. CASE asked' = Append(asked, h) /\ Announces(rb, size)
        <4>1. Origins(Append(asked, h), c) /\ ChunkedFirst(Append(asked, h))
          BY <1>2, <1>4, <2>2, <3>2, FramedMore DEF IInv
        <4> QED
          BY <3>2, <4>1
      <3> QED
        BY <2>1, <3>1, <3>2
    <2>4. Noted({"no memory"})' \/ Said(request', asked', c)
      <3>1. CASE fault' # "none"
        BY <2>1, <3>1 DEF Said
      <3>2. CASE failed # "none"
        BY <2>1, <3>2 DEF Noted
      <3>3. CASE fault' = "none" /\ failed = "none"
        <4>1. Match(rb', asked')
          <5>1. rb'.life = rb.life
            <6>1. CASE Announces(rb, size)
              <7>1. rb' = WithHeader(rb, <<"Content-Length">>, LengthText(size), failed)
                BY <2>1, <6>1 DEF BuiltWith
              <7> QED
                BY <3>3, <7>1, WithHeaderCount DEF IInv
            <6>2. CASE ~Announces(rb, size)
              BY <2>1, <6>2 DEF BuiltWith
            <6> QED
              BY <6>1, <6>2
          <5> QED
            BY <1>1, <5>1 DEF IInv
        <4>2. size > 0 => \E i \in 1..Len(asked') : Frames(asked'[i])
          <5>1. CASE Announces(rb, size)
            <6>1. asked' = Append(asked, h)
              BY <2>1, <3>3, <5>1
            <6>2. /\ Len(asked) \in Nat /\ Len(Append(asked, h)) = Len(asked) + 1
                  /\ Append(asked, h)[Len(asked) + 1] = h
              BY AppendOne DEF IInv
            <6>3. Frames(h)
              BY <1>3 DEF Frames
            <6> DEFINE i == Len(asked) + 1
            <6>4. i \in 1..Len(asked') /\ asked'[i] = h
              BY <6>1, <6>2
            <6> QED
              BY <6>3, <6>4
          <5>2. CASE ~Announces(rb, size) /\ size > 0
            <6>1. Chunked(rb) /\ asked' = asked
              BY <2>1, <5>2 DEF Announces
            <6>2. PICK i \in 1..rb.headers_count : rb.header_fields[i] = <<"Transfer-Encoding">>
              BY <6>1, Zenon DEF Chunked, request_builder_has_header
            <6>3. i \in 1..Len(asked) /\ asked[i].field = <<"Transfer-Encoding">>
              BY <1>1, <6>2 DEF Match
            <6>4. Origin(asked[i], c)
              BY <1>2, <6>3 DEF Origins
            <6>5. asked[i].from = NullPtr
              BY <6>3, <6>4, FieldsDiffer, Zenon DEF Origin
            <6>6. Frames(asked[i])
              BY <6>3, <6>5, FieldsDiffer, Zenon DEF Frames
            <6> QED
              BY <6>1, <6>3, <6>6
          <5> QED
            BY <5>1, <5>2
        <4> DEFINE b == rb'
                   a == asked'
                   url == parse_url[b.parsed_url]
        <4>3. request' = Text(b, url, size) /\ Match(b, a)
          BY <2>1, <3>3, <4>1
        <4>4. size > 0 => \E i \in 1..Len(a) : Frames(a[i])
          BY <4>2
        <4> HIDE DEF a, b, url
        <4>5. Said(Text(b, url, size), a, c)
          BY <1>2, <4>3, <4>4, TextSaid
        <4>6. Said(request', a, c)
          BY <4>3, <4>5
        <4> QED
          BY <4>6 DEF a
      <3> QED
        BY <3>1, <3>2, <3>3
    <2> QED
      BY <1>1, <1>2, <2>3, <2>4 DEF FramesInv
  <1> QED
    BY <1>5, <1>6, BuildCases

LEMMA NextFrames ==
    ASSUME IInv, IInv', UrlsInv, FramesInv, [BNext]_bvars
    PROVE  FramesInv'
  <1>0. astray \subseteq astray'
    BY AstrayGrows
  <1>1. ASSUME NEW p, UrlCall(p) PROVE FramesInv'
    BY <1>0, <1>1, FramesSame DEF UrlCall
  <1>2. CASE BuilderCall
    <2>1. CASE request_builder_init
      <3>1. asked' = <<>> /\ builds' = <<>> /\ request' = NoRequest
        BY <2>1 DEF request_builder_init
      <3> QED
        BY <3>1, NothingFramed, Zenon DEF FramesInv
    <2>2. CASE request_builder_free
      BY <1>0, <2>2, FramesSame DEF request_builder_free
    <2>3. ASSUME NEW m, request_builder_set_method(m) PROVE FramesInv'
      BY <1>0, <2>3, FramesSame DEF request_builder_set_method
    <2>4. ASSUME NEW p \in Urls, request_builder_set_parsed_url(p) PROVE FramesInv'
      <3> DEFINE h == [from |-> given[p], field |-> <<"Host">>, value |-> HostText(parse_url[p])]
      <3>1. UNCHANGED <<builds, request>> /\ parse_url[p].life = "parsed"
        BY <2>4 DEF request_builder_set_parsed_url
      <3>2. given[p] \in Strings
        BY <3>1 DEF UrlsInv, UrlInvOf
      <3>3. h.from = given[p] /\ h.field = <<"Host">>
        OBVIOUS
      <3>4. UNCHANGED asked \/ \E failed : asked' = IF failed = "none" THEN Append(asked, h)
                                                    ELSE asked
        BY <2>4, SetParsedUrlCases, Zenon
      <3> HIDE DEF h
      <3>5. Origin(h, builds) /\ ByClient(h)
        BY <3>2, <3>3, FieldsDiffer, Zenon DEF Origin, ByClient
      <3> QED
        BY <1>0, <3>1, <3>4, <3>5, HeaderFrames, FramesSame
    <2>5. ASSUME NEW field, NEW value, request_builder_set_header(field, value)
          PROVE  FramesInv'
      <3> DEFINE h == [from |-> NullPtr, field |-> field, value |-> value]
      <3>1. UNCHANGED <<builds, request>>
        BY <2>5 DEF request_builder_set_header
      <3>2. UNCHANGED asked \/ \E failed : asked' = IF failed = "none" THEN Append(asked, h)
                                                    ELSE asked
        BY <2>5, Zenon DEF request_builder_set_header
      <3>3. h.from = NullPtr
        OBVIOUS
      <3> HIDE DEF h
      <3>4. Origin(h, builds) /\ ByClient(h)
        BY <3>3 DEF Origin, ByClient
      <3> QED
        BY <1>0, <3>1, <3>2, <3>4, HeaderFrames, FramesSame
    <2>6. ASSUME NEW n \in BodySizes, request_builder_build(n) PROVE FramesInv'
      BY <2>6, InputsAssumption, BuildFrames
    <2> QED
      BY <1>2, <2>1, <2>2, <2>3, <2>4, <2>5, <2>6 DEF BuilderCall
  <1>3. CASE UNCHANGED bvars
    BY <1>0, <1>3, FramesSame DEF bvars
  <1> QED
    BY <1>1, <1>2, <1>3 DEF BNext

\* A length whose digits fit the buffer is written as it is.
LEMMA LengthTextWhole ==
    ASSUME NEW n \in Nat, Len(Decimal(n)) < BUFFER
    PROVE  LengthText(n) = Decimal(n)
  <1> DEFINE d == Decimal(n)
  <1>1. d \in Seq(Digit) /\ Len(d) < BUFFER
    BY DecimalText
  <1>2. LengthText(n) = [i \in {k \in 1..Len(d) : k < BUFFER} |-> d[i]]
    BY DEF LengthText
  <1> HIDE DEF d
  <1>3. {k \in 1..Len(d) : k < BUFFER} = 1..Len(d)
    BY <1>1, BuilderAssumption
  <1>4. [i \in 1..Len(d) |-> d[i]] = d
    BY <1>1
  <1> QED
    BY <1>2, <1>3, <1>4 DEF d

\* Every header that was not added by a client is a Host, or a Content-Length of one of the
\* builds; no Content-Length follows a request that said chunked first, and a request with a
\* body has a header that frames it unless memory ran out.
THEOREM FramesInvariance == BSpec => []FramesInv
  <1>1. IInv /\ IInv' /\ UrlsInv /\ FramesInv /\ [BNext]_bvars => FramesInv'
    BY NextFrames
  <1> QED
    BY <1>1, InitFrames, BuilderInvariance, UrlsInvariance, PTL DEF BSpec

\* A client that leaves the framing to the builder and builds with one size gets requests
\* that say the size of their body and no other; a request that says chunked first gets no
\* length besides.
THEOREM BodyFramed == BSpec => []FramesBody
  <1> DEFINE n == Len(request.headers)
             lengths == {i \in 1..Len(Present) : Present[i].field = <<"Content-Length">>}
  <1>1. ASSUME IInv, FramesInv, request # NoRequest, "no memory" \notin astray
        PROVE  /\ n \in Nat /\ n <= Len(asked) /\ Said(request, asked, builds)
               /\ DOMAIN Present = 1..n /\ Len(Present) = n
               /\ \A i \in 1..n : /\ Present[i] = asked[i] /\ Origin(Present[i], builds)
                                  /\ i \in 1..Len(asked)
    <2>1. n \in Nat /\ n <= Len(asked) /\ Said(request, asked, builds)
      BY <1>1 DEF IInv, Carries, FramesInv, Noted
    <2>2. DOMAIN request.headers = 1..n
      BY <1>1, <2>1 DEF Said
    <2>3. Len(asked) \in Nat /\ DOMAIN asked = 1..Len(asked)
      <3>1. PICK S : asked \in Seq(S)
        BY <1>1 DEF IInv, IsSequence
      <3> QED
        BY <3>1
    <2> HIDE DEF n
    <2>4. 1..n \cap 1..Len(asked) = 1..n
      BY <2>1, <2>3
    <2>5. Present = [i \in 1..n |-> asked[i]]
      BY <2>2, <2>3, <2>4 DEF Present
    <2>6. DOMAIN Present = 1..n /\ Len(Present) = n
      BY <2>1, <2>5
    <2>7. ASSUME NEW i \in 1..n
          PROVE  /\ Present[i] = asked[i] /\ Origin(Present[i], builds)
                 /\ i \in 1..Len(asked)
      <3>1. Present[i] = asked[i] /\ i \in 1..Len(asked)
        BY <2>1, <2>3, <2>5
      <3> QED
        BY <1>1, <3>1 DEF FramesInv, Origins
    <2> QED
      BY <2>1, <2>6, <2>7
  <1> HIDE DEF n
  <1>2. ASSUME IInv, FramesInv, request # NoRequest, "no memory" \notin astray,
               \A i \in 1..Len(Present) :
                  Present[i].from = NullPtr => Present[i].field \notin Framing,
               \A i \in 1..Len(builds) : builds[i] = request.body,
               Len(Decimal(request.body)) < BUFFER
        PROVE  /\ request.body > 0 => lengths # {}
               /\ \A i \in lengths : Present[i].value = Decimal(request.body)
    <2>1. PICK j \in 1..Len(builds) : request.body = builds[j]
      BY <1>1, <1>2 DEF Said
    <2>2. LengthText(request.body) = Decimal(request.body)
      BY <1>2, <2>1, LengthTextWhole DEF FramesInv, Bodies
    <2>3. ASSUME NEW i \in lengths PROVE Present[i].value = Decimal(request.body)
      <3>1. i \in 1..Len(Present) /\ Present[i].field = <<"Content-Length">>
        OBVIOUS
      <3>2. Origin(Present[i], builds) /\ Present[i].from # NullPtr
        BY <1>1, <1>2, <3>1, FieldsDiffer
      <3>3. PICK k \in 1..Len(builds) : Present[i].value = LengthText(builds[k])
        BY <3>1, <3>2, FieldsDiffer, Zenon DEF Origin
      <3> QED
        BY <1>2, <2>2, <3>3
    <2>4. ASSUME request.body > 0 PROVE lengths # {}
      <3>1. PICK i \in 1..n : Frames(asked[i])
        BY <1>1, <1>2, <2>4 DEF Said, n
      <3>2. i \in 1..Len(Present) /\ Frames(Present[i])
        BY <1>1, <1>2, <3>1
      <3>3. Present[i].field = <<"Content-Length">>
        BY <1>2, <3>2 DEF Frames
      <3> QED
        BY <3>2, <3>3
    <2> QED
      BY <2>3, <2>4
  <1>3. ASSUME IInv, FramesInv, request # NoRequest, "no memory" \notin astray,
               Present # <<>>,
               Present[1] = [from |-> NullPtr, field |-> <<"Transfer-Encoding">>,
                             value |-> <<"chunked">>]
        PROVE  \A i \in lengths : Present[i].from = NullPtr
    <2> SUFFICES ASSUME NEW i \in lengths PROVE Present[i].from = NullPtr
      OBVIOUS
    <2>1. i \in 1..n /\ Present[i].field = <<"Content-Length">>
      BY <1>1, <1>3
    <2>2. 1 \in 1..n /\ \A k \in 1..n : Present[k] = asked[k] /\ k \in 1..Len(asked)
      <3>1. n \in Nat /\ \A k \in 1..n : Present[k] = asked[k] /\ k \in 1..Len(asked)
        BY <1>1, <1>3
      <3> QED
        BY <2>1, <3>1
    <2>3. SaysChunked(asked[1])
      <3> DEFINE h == Present[1]
      <3>1. h = [from |-> NullPtr, field |-> <<"Transfer-Encoding">>, value |-> <<"chunked">>]
        BY <1>3, Zenon
      <3>2. asked[1] = h
        BY <2>2
      <3> HIDE DEF h
      <3>3. h.field = <<"Transfer-Encoding">> /\ h.value = <<"chunked">>
        BY <3>1
      <3> QED
        BY <3>2, <3>3, Zenon DEF SaysChunked
    <2>4. ByClient(asked[i])
      BY <1>1, <1>3, <2>1, <2>2, <2>3 DEF FramesInv, ChunkedFirst
    <2> QED
      BY <1>1, <1>3, <2>1, <2>4 DEF ByClient
  <1>4. IInv /\ FramesInv => FramesBody
    BY <1>2, <1>3, Zenon DEF FramesBody
  <1> QED
    BY <1>4, BuilderInvariance, FramesInvariance, PTL

-----------------------------------------------------------------------------
(* The characters of a request *)

LEMMA PartOf ==
    ASSUME NEW S, NEW t \in Seq(S), NEW o \in Nat, NEW l \in Nat, o + l <= Len(t)
    PROVE  \A i \in 1..Len(SubSeq(t, o + 1, o + l)) :
              i \in 1..l /\ SubSeq(t, o + 1, o + l)[i] = t[o + i]
  <1> DEFINE w == SubSeq(t, o + 1, o + l)
  <1>1. w = [i \in 1..l |-> t[o + i]]
    <2>1. w = [i \in 1..(((o + l) - (o + 1)) + 1) |-> t[(i + (o + 1)) - 1]]
      OBVIOUS
    <2> HIDE DEF w
    <2>2. ((o + l) - (o + 1)) + 1 = l /\ \A i \in 1..l : (i + (o + 1)) - 1 = o + i
      OBVIOUS
    <2> QED
      BY <2>1, <2>2
  <1>2. Len(w) = l
    <2> HIDE DEF w
    <2> QED
      BY <1>1
  <1> HIDE DEF w
  <1> QED
    BY <1>1, <1>2 DEF w

LEMMA InTextMore ==
    ASSUME NEW u, Struct(u), NEW n \in Nat, NEW k \in 0..n, InText(u, k)
    PROVE  InText(u, n)
  <1>1. \A f \in u.field_set : /\ u.off[f] \in Nat /\ u.len[f] \in Nat
                               /\ u.off[f] + u.len[f] <= k
    BY DEF Struct, InText, Ends
  <1> QED
    BY <1>1 DEF InText, Ends

\* What is said of the characters the fields are made of holds of their copies.
LEMMA CopiedWords ==
    ASSUME NEW s \in Strings, NEW u, u = Parsed[s].u
    PROVE  /\ \A f : \A i \in 1..Len(Copied(u, f, s)) : Copied(u, f, s)[i] # "SP"
           /\ Len(s) <= UINT16_RANGE /\ Copied(u, "UF_PATH", s) # <<>>
                 => Copied(u, "UF_PATH", s)[1] \in {"/", "*"}
           /\ Parsed[s].ret = 0 /\ Plain(s)
                 => \A i \in 1..Len(Copied(u, "UF_HOST", s)) :
                       Copied(u, "UF_HOST", s)[i] \in HostChar
  <1> DEFINE r == http_parser_parse_url(s, Garbage(0))
             word(f) == Copied(u, f, s)
  <1>1. s \in Seq(Char) /\ Len(s) \in Nat /\ Parsed[s] = r
    BY StringsAssumption DEF Parsed
  <1>2. Struct(Garbage(0))
    BY GarbageStruct
  <1>3. Struct(u)
    <2>1. u = r.u
      BY <1>1
    <2> HIDE DEF r
    <2> QED
      BY <1>2, <2>1, ParsedOver DEF r
  <1>4. PICK k \in 0..Len(s) : Spaceless(u, s, k)
    BY <1>1, <1>2, ParsedText
  <1>5. /\ PathBegins(u, s)
        /\ Parsed[s].ret = 0 /\ Plain(s) /\ "UF_HOST" \in u.field_set => HostCharsOnly(u, s)
    BY <1>1, <1>2, ParsedText
  <1> HIDE DEF r
  <1>6. ASSUME NEW f, NEW i \in 1..Len(word(f))
        PROVE  /\ f \in u.field_set /\ u.off[f] \in Nat /\ u.len[f] \in Nat
               /\ i \in 1..u.len[f] /\ u.off[f] + i \in 1..k /\ word(f)[i] = s[u.off[f] + i]
    <2>1. f \in u.field_set
      BY <1>6 DEF Copied
    <2> DEFINE o == u.off[f]
               l == u.len[f]
    <2>2. o \in Nat /\ l \in Nat /\ o + l <= k /\ k \in 0..Len(s)
      BY <1>3, <1>4, <2>1 DEF Spaceless, InText, Ends, Struct
    <2>3. word(f) = SubSeq(s, o + 1, o + l)
      BY <2>1 DEF Copied
    <2> HIDE DEF o, l, word
    <2>4. o + l <= Len(s)
      BY <1>1, <2>2
    <2>5. i \in 1..l /\ word(f)[i] = s[o + i]
      BY <1>1, <1>6, <2>2, <2>3, <2>4, PartOf
    <2>6. o + i \in 1..k
      BY <2>2, <2>5
    <2> QED
      BY <2>1, <2>2, <2>5, <2>6 DEF o, l
  <1> HIDE DEF word
  <1>7. ASSUME NEW f, NEW i \in 1..Len(word(f)) PROVE word(f)[i] # "SP"
    BY <1>4, <1>6, <1>7 DEF Spaceless
  <1>8. ASSUME Len(s) <= UINT16_RANGE, word("UF_PATH") # <<>>
        PROVE  word("UF_PATH")[1] \in {"/", "*"}
    <2>1. word("UF_PATH") \in Seq(Char)
      <3>1. InText(u, Len(s))
        BY <1>1, <1>3, <1>4, InTextMore DEF Spaceless
      <3> QED
        BY <1>1, <1>3, <3>1, CopiedText DEF word
    <2>2. 1 \in 1..Len(word("UF_PATH"))
      BY <1>8, <2>1
    <2>3. "UF_PATH" \in u.field_set /\ word("UF_PATH")[1] = s[u.off["UF_PATH"] + 1]
      BY <1>6, <2>2
    <2> QED
      BY <1>5, <1>8, <2>3 DEF PathBegins
  <1>9. ASSUME Parsed[s].ret = 0, Plain(s), NEW i \in 1..Len(word("UF_HOST"))
        PROVE  word("UF_HOST")[i] \in HostChar
    <2> DEFINE host == "UF_HOST"
    <2> HIDE DEF host
    <2>1. i \in 1..Len(word(host))
      BY <1>9 DEF host
    <2>2. /\ host \in u.field_set /\ u.off[host] \in Nat /\ u.len[host] \in Nat
          /\ i \in 1..u.len[host] /\ word(host)[i] = s[u.off[host] + i]
      BY <1>6, <2>1
    <2> DEFINE o == u.off[host]
               l == u.len[host]
    <2> HIDE DEF o, l
    <2>3. o \in Nat /\ l \in Nat /\ i \in 1..l
      BY <2>2 DEF o, l
    <2>4. o + i \in (o + 1)..(o + l)
      BY <2>3
    <2> QED
      BY <1>5, <1>9, <2>2, <2>4 DEF HostCharsOnly, host, o, l
  <1> QED
    BY <1>7, <1>8, <1>9 DEF word

\* A request line can be made of every URL: the path that is sent begins like one, and no
\* field that is written has a space in it (http_parse_url.c:56-105, MakesRequestLine).
THEOREM LinesAreMade == BSpec => []MakesRequestLine
  <1>1. UrlsInv => MakesRequestLine
    <2> SUFFICES ASSUME UrlsInv, NEW p \in Urls, parse_url[p].life = "parsed"
                 PROVE  /\ parse_url[p].path # <<>>
                        /\ Len(given[p]) <= UINT16_RANGE
                              => parse_url[p].path[1] \in {"/", "*"}
                        /\ parse_url[p].port # 0
                        /\ \A f \in {"host", "path", "query"} :
                              \A i \in 1..Len(TextOf(parse_url[p][f])) :
                                 parse_url[p][f][i] # "SP"
      BY Zenon DEF MakesRequestLine
    <2> DEFINE s == given[p]
               u == Parsed[s].u
               r == parse_url[p]
               words == {Copied(u, "UF_HOST", s), PathOr(Copied(u, "UF_PATH", s)),
                         Copied(u, "UF_QUERY", s)}
    <2>1. UrlObject(r) /\ s \in Strings /\ FieldsOf(r, s) /\ r.port \in Nat
      BY PortIsNat DEF UrlsInv, UrlInvOf
    <2>2. \A f : Copied(u, f, s) \in Seq(Char)
      <3>1. u = http_parser_parse_url(s, Garbage(0)).u
        BY <2>1 DEF Parsed
      <3> HIDE DEF u, s
      <3> QED
        BY <2>1, <3>1, GarbageStruct, ParsedOver
    <2>3. u.port \in Nat
      <3>1. u = http_parser_parse_url(s, Garbage(0)).u
        BY <2>1 DEF Parsed
      <3> HIDE DEF u, s
      <3> QED
        BY <2>1, <3>1, GarbageStruct, ParsedOver
    <2>4. /\ \A f : \A i \in 1..Len(Copied(u, f, s)) : Copied(u, f, s)[i] # "SP"
          /\ Len(s) <= UINT16_RANGE /\ Copied(u, "UF_PATH", s) # <<>>
                => Copied(u, "UF_PATH", s)[1] \in {"/", "*"}
      <3> HIDE DEF s
      <3> QED
        BY <2>1, CopiedWords
    <2>5. /\ r.port = PortOf(u, Copied(u, "UF_SCHEMA", s))
          /\ TextOf(r.host) = Copied(u, "UF_HOST", s)
          /\ TextOf(r.path) = PathOr(Copied(u, "UF_PATH", s)) /\ r.path # NullPtr
          /\ TextOf(r.query) = Copied(u, "UF_QUERY", s)
      BY <2>1, Zenon DEF FieldsOf
    <2> HIDE DEF s, u, r
    <2>6. r.port # 0
      BY <2>3, <2>5 DEF PortOf
    <2>7. r.path = PathOr(Copied(u, "UF_PATH", s))
      BY <2>5 DEF TextOf
    <2>8. /\ r.path # <<>>
          /\ Len(s) <= UINT16_RANGE => r.path[1] \in {"/", "*"}
          /\ \A i \in 1..Len(r.path) : r.path[i] # "SP"
      <3>1. CASE Copied(u, "UF_PATH", s) = <<>>
        <4>1. r.path = <<"/">>
          BY <2>7, <3>1 DEF PathOr
        <4> HIDE DEF r
        <4> QED
          BY <4>1
      <3>2. CASE Copied(u, "UF_PATH", s) # <<>>
        <4>1. r.path = Copied(u, "UF_PATH", s)
          BY <2>7, <3>2 DEF PathOr
        <4> QED
          BY <2>4, <3>2, <4>1
      <3> QED
        BY <3>1, <3>2
    <2>9. \A text, word : TextOf(text) = word /\ (\A i \in 1..Len(word) : word[i] # "SP")
             => \A i \in 1..Len(TextOf(text)) : text[i] # "SP"
      BY DEF TextOf
    <2>10. \A f \in {"host", "path", "query"} :
              \A i \in 1..Len(TextOf(r[f])) : r[f][i] # "SP"
      <3>1. \A i \in 1..Len(TextOf(r.host)) : r.host[i] # "SP"
        BY <2>4, <2>5, <2>9
      <3>2. \A i \in 1..Len(TextOf(r.query)) : r.query[i] # "SP"
        BY <2>4, <2>5, <2>9
      <3>3. \A i \in 1..Len(TextOf(r.path)) : r.path[i] # "SP"
        BY <2>5, <2>8 DEF TextOf
      <3> QED
        BY <3>1, <3>2, <3>3
    <2> QED
      BY <2>6, <2>8, <2>10 DEF r, s
  <1> QED
    BY <1>1, UrlsInvariance, PTL

-----------------------------------------------------------------------------
(* What is read of a port that was written *)

\* Reading the digits d one by one ends with k
DigitsSay(d, k) ==
    /\ d \in Seq(Digit)
    /\ \E v \in [0..Len(d) -> Nat] :
          /\ v[0] = 0 /\ v[Len(d)] = k
          /\ \A j \in 1..Len(d) : v[j] = v[j - 1] * 10 + Value[d[j]]

LEMMA ValueOfDigit == \A k \in 0..9 : DigitOf[k + 1] \in Digit /\ Value[DigitOf[k + 1]] = k
  <1>1. \A k \in 0..9 : DigitOf[k + 1] \in Digit
    BY DEF DigitOf, Digit
  <1>2. \A j, k \in 0..9 : DigitOf[j + 1] = DigitOf[k + 1] => j = k
    BY DEF DigitOf
  <1> QED
    BY <1>1, <1>2, DigitValue

\* One digit more.
LEMMA DigitsSayMore ==
    ASSUME NEW d, NEW k \in Nat, DigitsSay(d, k), NEW e \in 0..9
    PROVE  DigitsSay(Append(d, DigitOf[e + 1]), k * 10 + e)
  <1> DEFINE c == DigitOf[e + 1]
             n == Len(d)
             t == Append(d, c)
  <1>1. PICK v \in [0..n -> Nat] : /\ v[0] = 0 /\ v[n] = k
                                   /\ \A j \in 1..n : v[j] = v[j - 1] * 10 + Value[d[j]]
    BY DEF DigitsSay
  <1>2. d \in Seq(Digit) /\ n \in Nat /\ c \in Digit /\ Value[c] = e
    BY ValueOfDigit DEF DigitsSay
  <1> HIDE DEF c
  <1>3. /\ t \in Seq(Digit) /\ Len(t) = n + 1 /\ t[n + 1] = c
        /\ \A j \in 1..n : t[j] = d[j]
    BY <1>2
  <1> HIDE DEF n, t
  <1> DEFINE w == [j \in 0..(n + 1) |-> IF j = n + 1 THEN k * 10 + e ELSE v[j]]
  <1>4. w \in [0..(n + 1) -> Nat]
    <2>1. k * 10 + e \in Nat /\ \A j \in 0..(n + 1) : j # n + 1 => v[j] \in Nat
      BY <1>1, <1>2
    <2> QED
      BY <2>1
  <1>5. w[0] = 0 /\ w[n + 1] = k * 10 + e
    BY <1>1, <1>2
  <1>6. ASSUME NEW j \in 1..(n + 1) PROVE w[j] = w[j - 1] * 10 + Value[t[j]]
    <2>1. CASE j = n + 1
      <3>1. w[j] = k * 10 + e /\ w[j - 1] = v[n] /\ Value[t[j]] = e
        BY <1>2, <1>3, <2>1
      <3> QED
        BY <1>1, <3>1
    <2>2. CASE j # n + 1
      <3>1. j \in 1..n /\ w[j] = v[j] /\ w[j - 1] = v[j - 1] /\ t[j] = d[j]
        BY <1>2, <1>3, <2>2
      <3> HIDE DEF w
      <3> QED
        BY <1>1, <3>1
    <2> QED
      BY <2>1, <2>2
  <1> HIDE DEF w
  <1> QED
    BY <1>3, <1>4, <1>5, <1>6 DEF DigitsSay, t, c

\* The digits of a number say the number.
LEMMA DecimalSays ==
    ASSUME NEW n \in Nat
    PROVE  DigitsSay(Decimal(n), n)
  <1>1. PICK dec : DigitsOf(dec, n) /\ Decimal(n) = dec[n]
    BY DecimalMade
  <1> DEFINE T == {k \in 0..n : DigitsSay(dec[k], k)}
             same == [k \in 0..n |-> k]
  <1>2. DigitsSay(<<>>, 0)
    <2> DEFINE v == [j \in 0..0 |-> 0]
    <2>1. v \in [0..0 -> Nat] /\ v[0] = 0 /\ Len(<<>>) = 0 /\ <<>> \in Seq(Digit)
      OBVIOUS
    <2> HIDE DEF v
    <2> QED
      BY <2>1 DEF DigitsSay
  <1>3. \A k \in 0..n : (\A j \in 0..(k - 1) : j \in T) => k \in T
    <2> SUFFICES ASSUME NEW k \in 0..n, \A j \in 0..(k - 1) : j \in T
                 PROVE  DigitsSay(dec[k], k)
      OBVIOUS
    <2>1. dec[k] = IF k < 10 THEN <<DigitOf[k + 1]>>
                   ELSE Append(dec[k \div 10], DigitOf[(k % 10) + 1])
      BY <1>1 DEF DigitsOf
    <2>2. CASE k < 10
      <3> DEFINE c == DigitOf[k + 1]
      <3>1. k \in 0..9 /\ 0 * 10 + k = k /\ 0 \in Nat
        BY <2>2
      <3>2. \A d, m : m \in Nat /\ DigitsSay(d, m) => DigitsSay(Append(d, c), m * 10 + k)
        <4> HIDE DEF c
        <4> QED
          BY <3>1, DigitsSayMore DEF c
      <3>3. DigitsSay(Append(<<>>, c), 0 * 10 + k)
        BY <1>2, <3>1, <3>2
      <3>4. Append(<<>>, c) = <<c>>
        <4> HIDE DEF c
        <4> QED
          OBVIOUS
      <3> QED
        BY <2>1, <2>2, <3>1, <3>3, <3>4
    <2>3. CASE ~(k < 10)
      <3> DEFINE q == k \div 10
                 e == k % 10
      <3>1. q \in 0..(k - 1) /\ q \in Nat /\ e \in 0..9 /\ q * 10 + e = k
        BY <2>3
      <3>2. dec[k] = Append(dec[q], DigitOf[e + 1])
        BY <2>1, <2>3
      <3> HIDE DEF q, e
      <3>3. DigitsSay(dec[q], q)
        BY <3>1
      <3>4. DigitsSay(Append(dec[q], DigitOf[e + 1]), q * 10 + e)
        BY <3>1, <3>3, DigitsSayMore
      <3> QED
        BY <3>1, <3>2, <3>4
    <2> QED
      BY <2>2, <2>3
  <1>4. \A k \in 0..n : same[k] \in T
    <2>1. \A k \in 0..n : (\A j \in 0..(k - 1) : same[j] \in T) => same[k] \in T
      <3> HIDE DEF T
      <3>1. \A k \in 0..n : \A j \in 0..(k - 1) : same[j] = j
        OBVIOUS
      <3> QED
        BY <1>3, <3>1
    <2> HIDE DEF T, same
    <2> QED
      BY <2>1, AllValues
  <1>5. n \in T
    <2> HIDE DEF T
    <2> QED
      BY <1>4
  <1> QED
    BY <1>1, <1>5

Starts(t, a) == \A i \in 1..Len(a) : t[i] = a[i]

Follows(t, n, b) == \A j \in 1..Len(b) : t[n + j] = b[j]

LEMMA ConcatParts ==
    \A S : \A a, b \in Seq(S) :
        /\ Len(a \o b) = Len(a) + Len(b)
        /\ Starts(a \o b, a) /\ Follows(a \o b, Len(a), b)
  <1> SUFFICES ASSUME NEW S, NEW a \in Seq(S), NEW b \in Seq(S)
               PROVE  /\ Len(a \o b) = Len(a) + Len(b)
                      /\ \A i \in 1..Len(a) : (a \o b)[i] = a[i]
                      /\ \A j \in 1..Len(b) : (a \o b)[Len(a) + j] = b[j]
    BY DEF Starts, Follows
  <1>1. Len(a) \in Nat /\ Len(b) \in Nat /\ Len(a \o b) = Len(a) + Len(b)
    OBVIOUS
  <1>2. \A i \in 1..(Len(a) + Len(b)) :
           (a \o b)[i] = IF i <= Len(a) THEN a[i] ELSE b[i - Len(a)]
    OBVIOUS
  <1>3. \A i \in 1..Len(a) : (a \o b)[i] = a[i]
    BY <1>1, <1>2
  <1>4. ASSUME NEW j \in 1..Len(b) PROVE (a \o b)[Len(a) + j] = b[j]
    <2>1. /\ Len(a) + j \in 1..(Len(a) + Len(b)) /\ ~(Len(a) + j <= Len(a))
          /\ (Len(a) + j) - Len(a) = j
      BY <1>1
    <2> QED
      BY <1>2, <2>1
  <1> QED
    BY <1>1, <1>3, <1>4

\* A number that ends a text is read as it was written.
LEMMA NumberWritten ==
    ASSUME NEW h \in Seq(Char), NEW d, NEW n \in Nat, DigitsSay(d, n)
    PROVE  Number(h \o (<<":">> \o d), Len(h) + 1) = n
  <1> DEFINE t == h \o (<<":">> \o d)
             off == Len(h) + 1
             m == Len(d)
  <1>1. /\ d \in Seq(Digit) /\ d \in Seq(Char) /\ m \in Nat /\ off \in Nat
        /\ \A j \in 1..m : d[j] \in Digit
    <2>1. Digit \subseteq Char
      BY DEF Char
    <2>2. d \in Seq(Digit)
      BY DEF DigitsSay
    <2> HIDE DEF t
    <2> QED
      BY <2>1, <2>2
  <1>2. Len(t) = off + m /\ \A j \in 1..m : t[off + j] = d[j]
    <2> DEFINE e == <<":">> \o d
    <2>1. e \in Seq(Char) /\ Len(e) = m + 1 /\ \A j \in 1..m : e[j + 1] = d[j]
      <3>1. ":" \in Char
        BY DEF Char
      <3> QED
        BY <1>1, <3>1
    <2> HIDE DEF e, t, off, m
    <2>2. Len(h \o e) = Len(h) + Len(e) /\ Follows(h \o e, Len(h), e)
      BY <2>1, ConcatParts
    <2>3. Len(h) \in Nat /\ off = Len(h) + 1
      BY DEF off
    <2>4. t = h \o e
      BY DEF e, t
    <2>5. Len(t) = off + m
      BY <1>1, <2>1, <2>2, <2>3, <2>4
    <2>6. ASSUME NEW j \in 1..m PROVE t[off + j] = d[j]
      <3>1. j + 1 \in 1..Len(e) /\ off + j = Len(h) + (j + 1)
        BY <1>1, <2>1, <2>3
      <3> QED
        BY <2>1, <2>2, <2>4, <3>1 DEF Follows
    <2> QED
      BY <2>5, <2>6
  <1> HIDE DEF t, off, m
  <1>3. Len(t) \in Nat /\ off \in 0..Len(t)
    BY <1>1, <1>2
  <1>4. PICK value, last : ReadsNumber(t, off, value, last) /\ Number(t, off) = value[last]
    BY <1>3, NumberRead
  <1>5. \A k \in off..Len(t) : k > off => DigitAt(t, k)
    <2> SUFFICES ASSUME NEW k \in off..Len(t), k > off PROVE DigitAt(t, k)
      OBVIOUS
    <2>1. k - off \in 1..m /\ off + (k - off) = k /\ k <= Len(t)
      BY <1>1, <1>2
    <2>2. t[k] = d[k - off]
      BY <1>2, <2>1
    <2> QED
      BY <1>1, <2>1, <2>2 DEF DigitAt
  <1>6. last = off + m
    <2>1. last \in off..Len(t) /\ ~DigitAt(t, last + 1)
      BY <1>4 DEF ReadsNumber
    <2>2. last + 1 \notin off..Len(t)
      BY <1>1, <1>5, <2>1
    <2> QED
      BY <1>1, <1>2, <1>3, <2>1, <2>2
  <1>7. PICK v \in [0..m -> Nat] : /\ v[0] = 0 /\ v[m] = n
                                   /\ \A j \in 1..m : v[j] = v[j - 1] * 10 + Value[d[j]]
    BY DEF DigitsSay, m
  <1> DEFINE T == {j \in 0..m : value[off + j] = v[j]}
             zero == 0
  <1>8. \A j \in zero..m : j \in T
    <2>1. zero \in T
      <3>1. off + 0 = off /\ off \in off..Len(t) /\ ~(off > off)
        BY <1>1, <1>3
      <3>2. value[off] = 0
        BY <1>4, <3>1 DEF ReadsNumber
      <3> QED
        BY <1>1, <1>7, <3>1, <3>2
    <2>2. \A j \in zero..(m - 1) : j \in T => j + 1 \in T
      <3> SUFFICES ASSUME NEW j \in 0..(m - 1), j \in T PROVE j + 1 \in T
        OBVIOUS
      <3> DEFINE k == off + (j + 1)
                 i == j + 1
      <3>1. /\ k \in off..Len(t) /\ k > off /\ k - 1 = off + j
            /\ i \in 1..m /\ i - 1 = j /\ k = off + i
        BY <1>1, <1>2
      <3> HIDE DEF k, i
      <3>2. value[k] = value[k - 1] * 10 + Value[t[k]]
        BY <1>4, <1>5, <3>1 DEF ReadsNumber
      <3>3. t[k] = d[i]
        BY <1>2, <3>1
      <3>4. v[i] = v[i - 1] * 10 + Value[d[i]]
        BY <1>7, <3>1
      <3>5. value[k - 1] = v[i - 1]
        BY <3>1
      <3>6. value[off + i] = v[i] /\ i \in 0..m
        BY <3>1, <3>2, <3>3, <3>4, <3>5
      <3> QED
        BY <3>6 DEF i
    <2>3. zero \in Nat
      OBVIOUS
    <2> HIDE DEF T, zero
    <2> QED
      BY <1>1, <2>1, <2>2, <2>3, IntervalInduction
  <1>9. value[off + m] = v[m]
    <2>1. m \in zero..m
      BY <1>1
    <2> QED
      BY <1>8, <2>1
  <1> QED
    BY <1>4, <1>6, <1>7, <1>9 DEF t, off

-----------------------------------------------------------------------------
(* What a Host header says *)

\* h was made of what its URL is parsed into
HostOf(h) ==
    \E r : UrlObject(r) /\ FieldsOf(r, h.from) /\ r.host # NullPtr /\ h.value = HostText(r)

HostsInv == \A i \in 1..Len(asked) : asked[i].from \in Strings => HostOf(asked[i])

LEMMA HostAsked ==
    ASSUME NEW p, request_builder_set_parsed_url(p)
    PROVE  \/ UNCHANGED asked
           \/ /\ parse_url[p].life = "parsed" /\ parse_url[p].host # NullPtr
              /\ asked' = Append(asked, [from |-> given[p], field |-> <<"Host">>,
                                         value |-> HostText(parse_url[p])])
  BY Zenon DEF request_builder_set_parsed_url

LEMMA HostsMore ==
    ASSUME IInv, HostsInv, NEW h, h.from \in Strings => HostOf(h), asked' = Append(asked, h)
    PROVE  HostsInv'
  <1>1. /\ Len(asked') = Len(asked) + 1 /\ asked'[Len(asked) + 1] = h
        /\ Len(asked) \in Nat /\ \A i \in 1..Len(asked) : asked'[i] = asked[i]
    BY AppendOne DEF IInv
  <1>2. ASSUME NEW i \in 1..Len(asked'), asked'[i].from \in Strings PROVE HostOf(asked'[i])
    <2>1. CASE i = Len(asked) + 1
      <3>1. asked'[i] = h
        BY <1>1, <2>1
      <3> QED
        BY <1>2, <3>1
    <2>2. CASE i # Len(asked) + 1
      <3>1. i \in 1..Len(asked) /\ asked'[i] = asked[i]
        BY <1>1, <2>2
      <3> QED
        BY <1>2, <3>1 DEF HostsInv
    <2> QED
      BY <2>1, <2>2
  <1> QED
    BY <1>2 DEF HostsInv, HostOf

LEMMA NextHosts ==
    ASSUME IInv, UrlsInv, HostsInv, [BNext]_bvars
    PROVE  HostsInv'
  <1>1. ASSUME UNCHANGED asked PROVE HostsInv'
    BY <1>1 DEF HostsInv, HostOf
  <1>2. ASSUME NEW p, UrlCall(p) PROVE HostsInv'
    BY <1>1, <1>2 DEF UrlCall
  <1>3. CASE BuilderCall
    <2>1. CASE request_builder_init
      <3>1. asked' = <<>>
        BY <2>1 DEF request_builder_init
      <3>2. Len(asked') = 0
        BY <3>1
      <3> QED
        BY <3>2 DEF HostsInv
    <2>2. CASE request_builder_free
      BY <1>1, <2>2 DEF request_builder_free
    <2>3. ASSUME NEW m, request_builder_set_method(m) PROVE HostsInv'
      BY <1>1, <2>3 DEF request_builder_set_method
    <2>4. ASSUME NEW p \in Urls, request_builder_set_parsed_url(p) PROVE HostsInv'
      <3> DEFINE h == [from |-> given[p], field |-> <<"Host">>, value |-> HostText(parse_url[p])]
      <3>1. \/ UNCHANGED asked
            \/ /\ parse_url[p].life = "parsed" /\ parse_url[p].host # NullPtr
               /\ asked' = Append(asked, h)
        BY <2>4, HostAsked
      <3>2. h.from = given[p] /\ h.value = HostText(parse_url[p])
        OBVIOUS
      <3> HIDE DEF h
      <3>3. CASE UNCHANGED asked
        BY <1>1, <3>3
      <3>4. CASE parse_url[p].life = "parsed" /\ parse_url[p].host # NullPtr
                 /\ asked' = Append(asked, h)
        <4>1. UrlObject(parse_url[p]) /\ FieldsOf(parse_url[p], given[p])
          BY <3>4 DEF UrlsInv, UrlInvOf
        <4>2. HostOf(h)
          BY <3>2, <3>4, <4>1, Zenon DEF HostOf
        <4> QED
          BY <3>4, <4>2, HostsMore
      <3> QED
        BY <3>1, <3>3, <3>4
    <2>5. ASSUME NEW field, NEW value, request_builder_set_header(field, value) PROVE HostsInv'
      <3> DEFINE h == [from |-> NullPtr, field |-> field, value |-> value]
      <3>1. UNCHANGED asked \/ asked' = Append(asked, h)
        BY <2>5, Zenon DEF request_builder_set_header
      <3>2. h.from \notin Strings
        BY OthersNoUrl
      <3> HIDE DEF h
      <3> QED
        BY <1>1, <3>1, <3>2, HostsMore
    <2>6. ASSUME NEW n, request_builder_build(n) PROVE HostsInv'
      <3> DEFINE h == [from |-> <<"build">>, field |-> <<"Content-Length">>,
                       value |-> LengthText(n)]
      <3>1. UNCHANGED asked \/ asked' = Append(asked, h)
        BY <2>6, BuildCases, Zenon DEF BuildDone
      <3>2. h.from \notin Strings
        BY OthersNoUrl
      <3> HIDE DEF h
      <3> QED
        BY <1>1, <3>1, <3>2, HostsMore
    <2> QED
      BY <1>3, <2>1, <2>2, <2>3, <2>4, <2>5, <2>6 DEF BuilderCall
  <1>4. CASE UNCHANGED bvars
    BY <1>1, <1>4 DEF bvars
  <1> QED
    BY <1>2, <1>3, <1>4 DEF BNext

\* The Host headers that were added came from URLs as they were parsed, and with a host
\* (request_builder.c:43-70).
THEOREM HostsInvariance == BSpec => []HostsInv
  <1>1. BInit => HostsInv
    <2>1. BInit => Len(asked) = 0
      BY DEF BInit
    <2> QED
      BY <2>1 DEF HostsInv
  <1> QED
    BY <1>1, NextHosts, BuilderInvariance, UrlsInvariance, PTL DEF BSpec

\* A reader of a header without a port takes the default, of one with a port that port.
LEMMA PortIsRead ==
    ASSUME NEW host \in Seq(HostChar), NEW n \in Nat, NEW default
    PROVE  /\ PortRead(host \o <<>>, default) = default
           /\ PortRead(host \o (<<":">> \o Decimal(n)), default) = n
  <1>1. ":" \notin HostChar /\ ":" \notin Digit /\ HostChar \subseteq Char /\ Digit \subseteq Char
        /\ ":" \in Char
    BY DEF HostChar, Alpha, Digit, Char
  <1>2. PortRead(host \o <<>>, default) = default
    <2>1. host \o <<>> = host
      OBVIOUS
    <2>2. {i \in 1..Len(host) : host[i] = ":"} = {}
      BY <1>1
    <2> QED
      BY <2>1, <2>2 DEF PortRead
  <1>3. PortRead(host \o (<<":">> \o Decimal(n)), default) = n
    <2> DEFINE d == Decimal(n)
               e == <<":">> \o d
               t == host \o e
               l == Len(host)
    <2>1. host \in Seq(Char) /\ d \in Seq(Digit) /\ d \in Seq(Char) /\ l \in Nat
      <3>1. d \in Seq(Digit)
        BY DecimalText
      <3> HIDE DEF d
      <3> QED
        BY <1>1, <3>1
    <2>2. DigitsSay(d, n)
      BY DecimalSays
    <2> HIDE DEF d
    <2>3. Number(t, l + 1) = n
      BY <2>1, <2>2, NumberWritten
    <2>4. /\ e \in Seq(Char) /\ Len(e) = Len(d) + 1 /\ Len(d) \in Nat /\ e[1] = ":"
          /\ \A j \in 2..Len(e) : e[j] = d[j - 1]
      BY <1>1, <2>1
    <2>5. \A j \in 2..Len(e) : e[j] # ":"
      <3>1. \A k \in 1..Len(d) : d[k] # ":"
        BY <1>1, <2>1
      <3>2. \A j \in 2..Len(e) : j - 1 \in 1..Len(d)
        BY <2>4
      <3> HIDE DEF e
      <3> QED
        BY <2>4, <3>1, <3>2
    <2> HIDE DEF e
    <2>6. Len(t) = l + Len(e) /\ Starts(t, host) /\ Follows(t, l, e)
      BY <2>1, <2>4, ConcatParts
    <2> HIDE DEF t, l
    <2>7. l + 1 \in 1..Len(t) /\ t[l + 1] = ":"
      BY <2>1, <2>4, <2>6 DEF Follows
    <2>8. ASSUME NEW i \in 1..Len(t), t[i] = ":" PROVE i = l + 1
      <3>1. CASE i <= l
        <4>1. i \in 1..Len(host)
          BY <3>1, <2>1 DEF l
        <4>2. t[i] = host[i]
          BY <2>6, <4>1 DEF Starts
        <4>3. host[i] \in HostChar
          BY <4>1
        <4> QED
          BY <1>1, <2>8, <4>2, <4>3
      <3>2. CASE i > l + 1
        <4>1. i - l \in 2..Len(e) /\ l + (i - l) = i
          BY <2>1, <2>4, <2>6, <3>2
        <4>2. t[i] = e[i - l]
          BY <2>4, <2>6, <4>1 DEF Follows
        <4> QED
          BY <2>5, <2>8, <4>1, <4>2
      <3> QED
        BY <2>1, <3>1, <3>2
    <2>9. {i \in 1..Len(t) : t[i] = ":"} = {l + 1}
      BY <2>7, <2>8
    <2>10. PortRead(t, default) = Number(t, l + 1)
      <3>1. (CHOOSE i \in {l + 1} : TRUE) = l + 1
        BY Zenon
      <3> QED
        BY <2>9, <3>1 DEF PortRead
    <2> QED
      BY <2>3, <2>10 DEF t, e, d
  <1> QED
    BY <1>2, <1>3

LEMMA StartOf ==
    ASSUME NEW S, NEW a \in Seq(S), NEW b \in Seq(S)
    PROVE  SubSeq(a \o b, 1, Len(a)) = a
  OBVIOUS

NamesServer(s, value) ==
    LET c == Parsed[s]
        schema == Copied(c.u, "UF_SCHEMA", s)
        host == Copied(c.u, "UF_HOST", s)
    IN  s \in Strings /\ c.ret = 0 /\ schema \in {<<"http">>, <<"https">>}
        /\ (\A k \in 1..Len(s) : s[k] # "[") /\ Len(s) < UINT16_RANGE
        => /\ SubSeq(value, 1, Len(host)) = host
           /\ PortRead(value, IF schema = <<"http">> THEN 80 ELSE 443) = PortOf(c.u, schema)

LEMMA HostTextNames ==
    ASSUME NEW s \in Strings, NEW r, UrlObject(r), FieldsOf(r, s), r.host # NullPtr
    PROVE  NamesServer(s, HostText(r))
  <1> DEFINE u == Parsed[s].u
             schema == Copied(u, "UF_SCHEMA", s)
             host == Copied(u, "UF_HOST", s)
             port == PortOf(u, schema)
             default == IF schema = <<"http">> THEN 80 ELSE 443
             written == <<":">> \o Decimal(port)
             value == HostText(r)
  <1>1. u.port \in Nat /\ host \in Seq(Char)
    <2>1. u = http_parser_parse_url(s, Garbage(0)).u
      BY DEF Parsed
    <2> HIDE DEF u
    <2> QED
      BY <2>1, GarbageStruct, ParsedOver
  <1>2. r.port = port /\ TextOf(r.schema) = schema /\ TextOf(r.host) = host
    BY Zenon DEF FieldsOf
  <1>3. Parsed[s].ret = 0 /\ Plain(s) => \A k \in 1..Len(host) : host[k] \in HostChar
    <2> HIDE DEF u
    <2> QED
      BY CopiedWords DEF u
  <1> HIDE DEF u, host
  <1>4. port \in Nat
    BY <1>1 DEF PortOf
  <1> HIDE DEF schema, port, value
  <1> SUFFICES ASSUME Parsed[s].ret = 0, schema \in {<<"http">>, <<"https">>}, Plain(s)
               PROVE  /\ SubSeq(value, 1, Len(host)) = host
                      /\ PortRead(value, default) = port
    BY Zenon DEF NamesServer, Plain, u, schema, host, port, value
  <1>5. r.schema = schema /\ r.host = host
    <2>1. schema # <<>>
      OBVIOUS
    <2> QED
      BY <1>2, <2>1 DEF TextOf
  <1>6. host \in Seq(HostChar)
    BY <1>1, <1>3
  <1>7. \/ value = host \o <<>> /\ port = default
        \/ value = host \o written
    <2>1. /\ schema = <<"http">> => schema # <<"https">>
          /\ schema = <<"http">> \/ schema = <<"https">>
      OBVIOUS
    <2> DEFINE named == \/ schema = <<"http">> /\ port # 80
                        \/ schema = <<"https">> /\ port # 443
    <2>2. value = host \o (IF named THEN written ELSE <<>>)
      BY <1>2, <1>5 DEF value, HostText
    <2>3. ~named => port = default
      BY <2>1
    <2> HIDE DEF named, written, default
    <2> QED
      BY <2>2, <2>3
  <1>8. /\ PortRead(host \o <<>>, default) = default
        /\ PortRead(host \o written, default) = port
    <2> HIDE DEF default
    <2> QED
      BY <1>4, <1>6, PortIsRead
  <1>9. written \in Seq(Char)
    <2>1. Digit \subseteq Char /\ ":" \in Char
      BY DEF Char
    <2>2. Decimal(port) \in Seq(Char)
      BY <1>4, <2>1, DecimalText
    <2> QED
      BY <2>1, <2>2
  <1> HIDE DEF written, default
  <1>10. SubSeq(host \o written, 1, Len(host)) = host /\ SubSeq(host \o <<>>, 1, Len(host)) = host
    BY <1>1, <1>9, StartOf
  <1> QED
    BY <1>7, <1>8, <1>10

\* Every Host header names the host of the URL it was added for and leaves out no port but
\* the default (request_builder.c:46-62, HostNamesServer).
THEOREM HostsNamed == BSpec => []HostNamesServer
  <1>1. HostsInv => HostNamesServer
    <2> SUFFICES ASSUME HostsInv, NEW i \in 1..Len(asked)
                 PROVE  NamesServer(asked[i].from, asked[i].value)
      BY Zenon DEF HostNamesServer, NamesServer
    <2>1. CASE asked[i].from \in Strings
      <3>1. PICK r : /\ UrlObject(r) /\ FieldsOf(r, asked[i].from) /\ r.host # NullPtr
                     /\ asked[i].value = HostText(r)
        BY <2>1, Zenon DEF HostsInv, HostOf
      <3> QED
        BY <2>1, <3>1, HostTextNames
    <2>2. CASE asked[i].from \notin Strings
      BY <2>2, Zenon DEF NamesServer
    <2> QED
      BY <2>1, <2>2
  <1> QED
    BY <1>1, HostsInvariance, PTL
=============================================================================
