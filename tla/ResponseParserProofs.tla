------------------------ MODULE ResponseParserProofs ------------------------
(***************************************************************************)
(* The response that the callbacks fill in. RInv has its types, the shapes *)
(* of its arrays, where memory may be missing, and (Linked) which array    *)
(* the last header callback extended, told from the phase of the protocol  *)
(* that HttpParserProofs shows the engine to keep: each handler is *)
(* proved against the states its callback can come in.                     *)
(*                                                                         *)
(* The bytes of a body are accounted for by BodyInv: a byte that the       *)
(* parser passes is delivered by a callback of the step or is pending      *)
(* behind the mark, and what is delivered is counted. WholeInv adds how a  *)
(* message is framed: the body bytes sent and those the parser still       *)
(* expects are the length that was declared, so a message that ends has    *)
(* them all.                                                               *)
(***************************************************************************)
EXTENDS ResponseParser, HttpParserProofs, RecursionLemmas, FiniteSetTheorems

-----------------------------------------------------------------------------
(* Types *)

Block == [text : Seq(Lexeme), size : Nat]
Uint  == 0..(UINT_RANGE - 1)

ResponseType ==
    [status_code : Nat, status_message : Block,
     header_fields : Seq(Block), header_values : Seq(Block),
     headers_count : 0..MAX_HEADERS_COUNT,
     concat_header_field : BOOLEAN, concat_header_value : BOOLEAN,
     expected_content_length : Uint, is_chunked : BOOLEAN, is_message_completed : BOOLEAN,
     body : Nat, body_length : Uint, body_offset : Uint,
     arrays : SUBSET {"fields", "values"},
     live : Int, overrun : BOOLEAN, null : BOOLEAN, oom : BOOLEAN]

Wire == [status : Seq(Lexeme), names : Seq(Seq(Lexeme)), values : Seq(Seq(Lexeme)),
         folds : SUBSET Seq(Seq(Lexeme)), body : Nat, messages : Nat]

-----------------------------------------------------------------------------
(* Sequences and numbers *)

\* Quotient and remainder, and that they are the only ones.
LEMMA DivMod ==
    ASSUME NEW U \in Int, U > 0, NEW x \in Int
    PROVE  x \div U \in Int /\ x % U \in 0..(U - 1) /\ x = (x \div U) * U + (x % U)
  <1>1. x \div U \in Int /\ x % U \in 0..(U - 1)
    OBVIOUS
  <1>2. x = (x \div U) * U + (x % U)
    OBVIOUS
  <1> QED
    BY <1>1, <1>2

LEMMA ModUnique ==
    ASSUME NEW U \in Int, U > 0, NEW q \in Int, NEW r \in 0..(U - 1)
    PROVE  (U * q + r) % U = r
  OBVIOUS

\* Adding to a number that has wrapped.
LEMMA AddModulo ==
    ASSUME NEW U \in Int, U > 0, NEW x \in Int, NEW n \in Int
    PROVE  ((x % U) + n) % U = (x + n) % U
  <1>1. PICK p \in Int, r \in 0..(U - 1) : x = p * U + r /\ r = x % U
    BY DivMod
  <1>2. PICK q \in Int, s \in 0..(U - 1) : r + n = q * U + s /\ s = (r + n) % U
    <2>1. r + n \in Int
      OBVIOUS
    <2> QED
      BY <2>1, DivMod
  <1>3. x + n = U * (p + q) + s /\ p + q \in Int
    BY <1>1, <1>2
  <1>4. (x + n) % U = s
    <2>1. (U * (p + q) + s) % U = s
      BY <1>3, ModUnique
    <2> QED
      BY <1>3, <2>1
  <1> QED
    BY <1>1, <1>2, <1>4

\* Overwriting an element, or adding one at the end.
LEMMA ExceptSeq ==
    ASSUME NEW S, NEW s \in Seq(S), NEW i, NEW b \in S
    PROVE  /\ [s EXCEPT ![i] = b] \in Seq(S)
           /\ Len([s EXCEPT ![i] = b]) = Len(s)
           /\ \A j \in 1..Len(s) : [s EXCEPT ![i] = b][j] = IF j = i THEN b ELSE s[j]
  <1> DEFINE e == [s EXCEPT ![i] = b]
  <1>1. Len(s) \in Nat /\ s \in [1..Len(s) -> S]
    OBVIOUS
  <1>2. e \in [1..Len(s) -> S] /\ \A j \in 1..Len(s) : e[j] = IF j = i THEN b ELSE s[j]
    BY <1>1
  <1>3. e \in Seq(S) /\ Len(e) = Len(s)
    <2> HIDE DEF e
    <2> QED
      BY <1>1, <1>2
  <1> QED
    BY <1>2, <1>3

LEMMA PutSeq ==
    ASSUME NEW S, NEW s \in Seq(S), NEW i, NEW b \in S
    PROVE  /\ Put(s, i, b) \in Seq(S)
           /\ Len(Put(s, i, b)) = IF i = Len(s) + 1 THEN Len(s) + 1 ELSE Len(s)
           /\ \A j \in 1..Len(s) : j # i => Put(s, i, b)[j] = s[j]
           /\ i \in 1..(Len(s) + 1) => Put(s, i, b)[i] = b
  <1>1. CASE i = Len(s) + 1
    BY <1>1 DEF Put
  <1>2. CASE i # Len(s) + 1
    <2>1. Put(s, i, b) = [s EXCEPT ![i] = b]
      BY <1>2 DEF Put
    <2>2. /\ [s EXCEPT ![i] = b] \in Seq(S) /\ Len([s EXCEPT ![i] = b]) = Len(s)
          /\ \A j \in 1..Len(s) : [s EXCEPT ![i] = b][j] = IF j = i THEN b ELSE s[j]
      BY ExceptSeq
    <2>3. Len(s) \in Nat
      OBVIOUS
    <2> HIDE DEF Put
    <2> QED
      BY <1>2, <2>1, <2>2, <2>3
  <1> QED
    BY <1>1, <1>2

\* A string and its block.
LEMMA StrType ==
    ASSUME NEW text \in Seq(Lexeme)
    PROVE  Str(text) \in Block /\ Str(text) # NULL /\ Str(text).text = text
           /\ NULL \in Block
  BY DEF Str, NULL, Block

-----------------------------------------------------------------------------
(* sscanf *)

\* sscanf stops at the first byte that is no digit, or at the end.
LEMMA DigitsEnd ==
    ASSUME NEW text \in Seq(Lexeme)
    PROVE  LET Prefix(k) == \A i \in 1..k : IsNum(text[i])
           IN  \E k \in 0..Len(text) : Prefix(k) /\ (k < Len(text) => ~Prefix(k + 1))
  <1> DEFINE Prefix(k) == \A i \in 1..k : IsNum(text[i])
             T == {k \in Nat : k <= Len(text) => Prefix(k)}
  <1> SUFFICES ASSUME \A k \in 0..Len(text) : Prefix(k) => k < Len(text) /\ Prefix(k + 1)
               PROVE  FALSE
    OBVIOUS
  <1>1. Len(text) \in Nat /\ Prefix(0)
    OBVIOUS
  <1> HIDE DEF Prefix
  <1>2. 0 \in T /\ \A k \in Nat : k \in T => k + 1 \in T
    BY <1>1
  <1>3. T = Nat
    <2>1. T \in SUBSET Nat
      OBVIOUS
    <2> HIDE DEF T
    <2> QED
      BY <1>2, <2>1, SetInduction
  <1>4. Prefix(Len(text))
    BY <1>1, <1>3
  <1> QED
    BY <1>1, <1>4

\* sscanf stores a natural number.
LEMMA ScannedNat ==
    ASSUME NEW text \in Seq(Lexeme) PROVE Scanned(text) \in Nat
  <1> DEFINE Prefix(k) == \A i \in 1..k : IsNum(text[i])
             digits == CHOOSE k \in 0..Len(text) :
                          Prefix(k) /\ (k < Len(text) => ~Prefix(k + 1))
             IsValue(f) == f = [i \in 0..digits |-> IF i = 0 THEN 0 ELSE f[i - 1] * 10 + text[i].v]
  <1>1. digits \in Nat /\ digits <= Len(text)
    <2>1. \E k \in 0..Len(text) : Prefix(k) /\ (k < Len(text) => ~Prefix(k + 1))
      BY DigitsEnd
    <2> HIDE DEF Prefix
    <2> QED
      BY <2>1
  <1> HIDE DEF digits
  <1>2. \A i \in 1..digits : text[i].v \in Nat
    <2>1. \A i \in 1..digits : text[i] \in Lexeme
      BY <1>1
    <2> QED
      BY <2>1 DEF Lexeme
  <1>3. \E f : IsValue(f)
    <2> DEFINE stop == {0}
               base == [i \in 0..digits |-> 0]
               from == [i \in 0..digits |-> IF i = 0 THEN 0 ELSE i - 1]
               step == [i \in 0..digits |-> [x \in Nat |-> IF i = 0 THEN 0 ELSE x * 10 + text[i].v]]
    <2>1. base \in [0..digits -> Nat] /\ from \in [0..digits -> Nat]
      BY <1>1
    <2>2. \A k \in 0..digits : k \notin stop => from[k] < k
      BY <1>1
    <2>3. step \in [0..digits -> [Nat -> Nat]]
      <3>1. ASSUME NEW i \in 0..digits, NEW x \in Nat
            PROVE  (IF i = 0 THEN 0 ELSE x * 10 + text[i].v) \in Nat
        BY <1>1, <1>2
      <3> QED
        BY <3>1
    <2>4. PICK f : IsRecursion(f, digits, Nat, stop, base, from, step)
      <3> HIDE DEF stop, base, from, step
      <3>1. digits \in Nat
        BY <1>1
      <3> QED
        BY <2>1, <2>2, <2>3, <3>1, RecursionExists
    <2>5. ASSUME NEW i \in 0..digits
          PROVE  f[i] = IF i = 0 THEN 0 ELSE f[i - 1] * 10 + text[i].v
      <3>1. f[i] = IF i = 0 THEN 0 ELSE step[i][f[i - 1]]
        BY <1>1, <2>4 DEF IsRecursion
      <3>2. i # 0 => f[i - 1] \in Nat
        BY <1>1, <2>4 DEF IsRecursion
      <3> QED
        BY <3>1, <3>2
    <2>6. IsValue(f)
      BY <2>4, <2>5 DEF IsRecursion
    <2> QED
      BY <2>6
  <1> DEFINE value == CHOOSE f : IsValue(f)
  <1>4. IsValue(value)
    BY <1>3
  <1>5. Scanned(text) = value[digits]
    BY DEF Scanned, digits
  <1> HIDE DEF value
  <1>6. \A i \in 0..digits : value[i] \in Nat
    <2>1. ASSUME NEW i \in 0..digits, \A j \in 0..(i - 1) : value[j] \in Nat
          PROVE  value[i] \in Nat
      <3>1. value[i] = IF i = 0 THEN 0 ELSE value[i - 1] * 10 + text[i].v
        BY <1>4
      <3>2. CASE i = 0
        BY <3>1, <3>2
      <3>3. CASE i # 0
        <4>1. i \in 1..digits /\ i - 1 \in 0..(i - 1)
          BY <1>1, <3>3
        <4>2. value[i - 1] \in Nat /\ text[i].v \in Nat
          BY <1>2, <2>1, <4>1
        <4> QED
          BY <3>1, <3>3, <4>2
      <3> QED
        BY <3>2, <3>3
    <2> QED
      BY <1>1, <2>1, AllValues
  <1> QED
    BY <1>1, <1>5, <1>6

-----------------------------------------------------------------------------
(* The handlers *)

\* The arrays of headers: as long as the count says, or one longer; an array that is
\* continued has an element to continue
Shape(r) ==
    /\ Len(r.header_fields) \in {r.headers_count, r.headers_count + 1}
    /\ Len(r.header_values) \in {r.headers_count, r.headers_count + 1}
    /\ r.concat_header_field => Len(r.header_fields) = r.headers_count + 1
    /\ r.concat_header_value => r.headers_count >= 1
    /\ ~(r.concat_header_field /\ r.concat_header_value)

\* What is continued has not been lost
Continuable(r) ==
    /\ r.concat_header_field => r.header_fields[r.headers_count + 1] # NULL
    /\ r.concat_header_value => r.header_values[r.headers_count] # NULL

\* Null pointers come from memory that ran out
MemoryInv(r) ==
    /\ r.null => r.oom
    /\ r.arrays # {"fields", "values"} => r.oom

SameBody ==
    /\ res'.body = res.body /\ res'.body_length = res.body_length
    /\ res'.body_offset = res.body_offset /\ res'.is_chunked = res.is_chunked
    /\ res'.is_message_completed = res.is_message_completed

\* The block of the body stays as it is; a chunk may be announced.
BlockKept ==
    /\ res'.body = res.body /\ res'.body_offset = res.body_offset
    /\ res'.expected_content_length = res.expected_content_length
    /\ res.is_chunked => res'.is_chunked

SameHeaders ==
    /\ res'.header_fields = res.header_fields /\ res'.header_values = res.header_values
    /\ res'.headers_count = res.headers_count
    /\ res'.concat_header_field = res.concat_header_field
    /\ res'.concat_header_value = res.concat_header_value

\* The response is well-formed
ResInv(r) == r \in ResponseType /\ Shape(r) /\ MemoryInv(r)

LEMMA SameHeadersInv ==
    ASSUME ResInv(res), SameHeaders
    PROVE  Shape(res') /\ (Continuable(res) => Continuable(res'))
  BY DEF ResInv, Shape, SameHeaders, Continuable

\* A status is stored, or there is no memory for it.
LEMMA SetStatusHandled ==
    ASSUME ResInv(res), NEW code \in Nat, NEW text \in Seq(Lexeme), NEW ret,
           SetStatus(code, text, ret)
    PROVE  /\ ResInv(res') /\ SameBody /\ SameHeaders
           /\ res'.expected_content_length = res.expected_content_length
  <1>1. PICK fails \in BOOLEAN :
           res' = [res EXCEPT !.oom = @ \/ fails,
                              !.status_code = code,
                              !.status_message = IF fails THEN NULL ELSE Str(text),
                              !.live = IF fails THEN @ ELSE @ + 1]
    BY MallocAssumption DEF SetStatus
  <1> DEFINE o == res.oom \/ fails
             b == IF fails THEN NULL ELSE Str(text)
             l == IF fails THEN res.live ELSE res.live + 1
  <1>2. b \in Block /\ l \in Int /\ o \in BOOLEAN /\ (res.oom => o)
    BY StrType DEF ResInv, ResponseType
  <1>3. res \in ResponseType /\ MemoryInv(res)
    BY DEF ResInv
  <1> HIDE DEF o, b, l
  <1>4. /\ res' = [res EXCEPT !.oom = o, !.status_code = code, !.status_message = b, !.live = l]
        /\ res' \in ResponseType
    <2>1. res' = [res EXCEPT !.oom = o, !.status_code = code, !.status_message = b, !.live = l]
      BY <1>1 DEF o, b, l
    <2> QED
      BY <1>2, <1>3, <2>1 DEF ResponseType
  <1>5. /\ SameBody /\ SameHeaders /\ MemoryInv(res')
        /\ res'.expected_content_length = res.expected_content_length
    BY <1>2, <1>3, <1>4 DEF ResponseType, SameBody, SameHeaders, MemoryInv
  <1> QED
    BY <1>4, <1>5, SameHeadersInv DEF ResInv

\* A name is stored at the first free place, or the name there goes on.
LEMMA SetHeaderFieldHandled ==
    ASSUME ResInv(res), NEW text \in Seq(Lexeme), NEW ret, SetHeaderField(text, ret)
    PROVE  LET i == res.headers_count + 1
           IN  /\ ResInv(res') /\ SameBody
               /\ res'.expected_content_length = res.expected_content_length
               /\ res'.headers_count = res.headers_count
               /\ res'.header_values = res.header_values
               /\ \A j \in 1..res.headers_count :
                     res'.header_fields[j] = res.header_fields[j]
               /\ ret # 0 /\ Continuable(res) => ret # HTTPS_CLIENT_INVALID_PARAMETER
               /\ ret = 0 =>
                     /\ res'.concat_header_field /\ ~res'.concat_header_value
                     /\ Continuable(res')
                     /\ res'.header_fields[i].text
                           = IF res.concat_header_field
                             THEN res.header_fields[i].text \o text ELSE text
  <1> DEFINE i == res.headers_count + 1
             prev == res.header_fields[i]
  <1>1. /\ res \in ResponseType /\ Shape(res) /\ MemoryInv(res) /\ res.headers_count \in Nat
        /\ res.header_fields \in Seq(Block) /\ res.header_values \in Seq(Block)
        /\ i \in 1..(Len(res.header_fields) + 1)
    BY HeadersAssumption DEF ResInv, ResponseType, Shape
  <1>2. CASE res.concat_header_field /\ prev = NULL
    <2>1. ret = HTTPS_CLIENT_INVALID_PARAMETER /\ res' = [res EXCEPT !.concat_header_value = FALSE]
      BY <1>2 DEF SetHeaderField, ConcatField, NewField
    <2>2. res' \in ResponseType /\ SameBody
          /\ res'.expected_content_length = res.expected_content_length
          /\ res'.headers_count = res.headers_count /\ res'.header_values = res.header_values
          /\ res'.header_fields = res.header_fields
          /\ res'.concat_header_field /\ ~res'.concat_header_value
          /\ res'.oom = res.oom /\ res'.null = res.null /\ res'.arrays = res.arrays
      BY <1>1, <1>2, <2>1 DEF ResponseType, SameBody
    <2>3. ResInv(res')
      BY <1>1, <1>2, <2>2 DEF ResInv, Shape, MemoryInv
    <2> QED
      BY <1>2, <2>1, <2>2, <2>3
         DEF Continuable, HTTPS_CLIENT_INVALID_PARAMETER
  <1>3. CASE res.concat_header_field /\ prev # NULL
    <2>1. PICK fails \in BOOLEAN :
             /\ ret = IF fails THEN HTTPS_CLIENT_NO_MEMORY ELSE HTTPS_CLIENT_OK
             /\ res' = [res EXCEPT !.oom = @ \/ fails,
                         !.concat_header_value = FALSE,
                         !.header_fields[i] = IF fails THEN NULL ELSE Str(prev.text \o text),
                         !.live = IF fails THEN @ - 1 ELSE @]
      BY <1>3, MallocAssumption DEF SetHeaderField, ConcatField, NewField
    <2> DEFINE b == IF fails THEN NULL ELSE Str(prev.text \o text)
               f == [res.header_fields EXCEPT ![i] = b]
    <2>2. i \in 1..Len(res.header_fields) /\ prev.text \in Seq(Lexeme)
      <3>1. i \in 1..Len(res.header_fields)
        BY <1>1, <1>3 DEF Shape
      <3>2. prev \in Block
        BY <1>1, <3>1
      <3> QED
        BY <3>1, <3>2 DEF Block
    <2>3. b \in Block /\ (~fails => b # NULL /\ b.text = prev.text \o text)
      <3>1. prev.text \o text \in Seq(Lexeme)
        BY <2>2
      <3> QED
        BY <3>1, StrType
    <2> HIDE DEF b
    <2>4. /\ f \in Seq(Block) /\ Len(f) = Len(res.header_fields) /\ f[i] = b
          /\ \A j \in 1..res.headers_count : f[j] = res.header_fields[j]
      BY <1>1, <2>2, <2>3, ExceptSeq
    <2> DEFINE o == res.oom \/ fails
               l == IF fails THEN res.live - 1 ELSE res.live
    <2>5. /\ res' = [res EXCEPT !.oom = o, !.concat_header_value = FALSE,
                                !.header_fields = f, !.live = l]
          /\ o \in BOOLEAN /\ l \in Int /\ (res.oom => o)
      BY <1>1, <2>1 DEF b, ResponseType
    <2> HIDE DEF f, o, l
    <2>6. /\ res' \in ResponseType /\ SameBody
          /\ res'.expected_content_length = res.expected_content_length
          /\ res'.headers_count = res.headers_count /\ res'.header_values = res.header_values
          /\ res'.header_fields = f
          /\ res'.concat_header_field /\ ~res'.concat_header_value
          /\ res'.oom = o /\ res'.null = res.null /\ res'.arrays = res.arrays
      BY <1>1, <1>3, <2>4, <2>5 DEF ResponseType, SameBody
    <2>7. ResInv(res')
      BY <1>1, <1>3, <2>4, <2>5, <2>6 DEF ResInv, Shape, MemoryInv
    <2>8. ret = 0 => ~fails
      BY <2>1 DEF HTTPS_CLIENT_NO_MEMORY
    <2>9. ret # HTTPS_CLIENT_INVALID_PARAMETER
      BY <2>1 DEF HTTPS_CLIENT_INVALID_PARAMETER, HTTPS_CLIENT_NO_MEMORY, HTTPS_CLIENT_OK
    <2>10. ret = 0 => /\ Continuable(res')
                      /\ res'.header_fields[i].text = res.header_fields[i].text \o text
      BY <2>3, <2>4, <2>6, <2>8 DEF Continuable
    <2> QED
      BY <1>3, <2>4, <2>6, <2>7, <2>9, <2>10
  <1>4. CASE ~res.concat_header_field /\ res.headers_count >= MAX_HEADERS_COUNT - 1
    <2>1. ret = HTTPS_CLIENT_NO_MEMORY /\ res' = [res EXCEPT !.concat_header_value = FALSE]
      BY <1>4 DEF SetHeaderField, ConcatField, NewField
    <2>2. res' \in ResponseType /\ SameBody
          /\ res'.expected_content_length = res.expected_content_length
          /\ res'.headers_count = res.headers_count /\ res'.header_values = res.header_values
          /\ res'.header_fields = res.header_fields
          /\ ~res'.concat_header_field /\ ~res'.concat_header_value
          /\ res'.oom = res.oom /\ res'.null = res.null /\ res'.arrays = res.arrays
      BY <1>1, <1>4, <2>1, ZenonT(40) DEF ResponseType, SameBody
    <2>3. ResInv(res')
      BY <1>1, <2>2, SMTT(30) DEF ResInv, Shape, MemoryInv
    <2> QED
      BY <2>1, <2>2, <2>3 DEF HTTPS_CLIENT_INVALID_PARAMETER, HTTPS_CLIENT_NO_MEMORY
  <1>5. CASE ~res.concat_header_field /\ ~(res.headers_count >= MAX_HEADERS_COUNT - 1)
    <2>1. PICK fails \in BOOLEAN :
             /\ ret = IF fails THEN HTTPS_CLIENT_NO_MEMORY ELSE HTTPS_CLIENT_OK
             /\ res' = [res EXCEPT !.oom = @ \/ fails,
                         !.concat_header_value = FALSE,
                         !.concat_header_field = ~fails,
                         !.header_fields = Put(@, i, IF fails THEN NULL ELSE Str(text)),
                         !.live = IF fails THEN @ ELSE @ + 1,
                         !.overrun = @ \/ i > HEADER_SLOTS,
                         !.null = @ \/ "fields" \notin res.arrays]
      BY <1>5, MallocAssumption DEF SetHeaderField, ConcatField, NewField
    <2> DEFINE b == IF fails THEN NULL ELSE Str(text)
               f == Put(res.header_fields, i, b)
    <2>2. b \in Block /\ (~fails => b # NULL /\ b.text = text)
      BY StrType
    <2> HIDE DEF b
    <2>3. /\ f \in Seq(Block) /\ Len(f) = i /\ f[i] = b
          /\ \A j \in 1..res.headers_count : f[j] = res.header_fields[j]
      <3>1. /\ f \in Seq(Block)
            /\ Len(f) = IF i = Len(res.header_fields) + 1 THEN Len(res.header_fields) + 1
                                                          ELSE Len(res.header_fields)
            /\ \A j \in 1..Len(res.header_fields) : j # i => f[j] = res.header_fields[j]
            /\ f[i] = b
        BY <1>1, <2>2, PutSeq
      <3>2. Len(res.header_fields) \in {res.headers_count, res.headers_count + 1}
        BY <1>1 DEF Shape
      <3> HIDE DEF f
      <3>3. Len(f) = i
        BY <1>1, <3>1, <3>2
      <3>4. \A j \in 1..res.headers_count : j \in 1..Len(res.header_fields) /\ j # i
        BY <1>1, <3>2
      <3> QED
        BY <3>1, <3>3, <3>4
    <2> DEFINE o == res.oom \/ fails
               l == IF fails THEN res.live ELSE res.live + 1
               w == res.overrun \/ i > HEADER_SLOTS
               z == res.null \/ "fields" \notin res.arrays
               s == ~fails
    <2>4. /\ res' = [res EXCEPT !.oom = o, !.concat_header_value = FALSE,
                                !.concat_header_field = s, !.header_fields = f,
                                !.live = l, !.overrun = w, !.null = z]
          /\ o \in BOOLEAN /\ l \in Int /\ w \in BOOLEAN /\ z \in BOOLEAN /\ s \in BOOLEAN
          /\ (res.oom => o) /\ (z => res.null \/ "fields" \notin res.arrays)
      BY <1>1, <2>1 DEF b, ResponseType
    <2> HIDE DEF f, o, l, w, z, s
    <2>5. res' \in ResponseType
      <3> DEFINE r == [res EXCEPT !.oom = o, !.live = l, !.overrun = w, !.null = z]
      <3>1. r \in ResponseType
        BY <1>1, <2>4 DEF ResponseType
      <3>2. [r EXCEPT !.concat_header_value = FALSE, !.concat_header_field = s,
                      !.header_fields = f] \in ResponseType
        <4> HIDE DEF r
        <4> QED
          BY <2>3, <2>4, <3>1 DEF ResponseType
      <3>3. res' = [r EXCEPT !.concat_header_value = FALSE, !.concat_header_field = s,
                             !.header_fields = f]
        BY <2>4
      <3> QED
        BY <3>2, <3>3
    <2>9. /\ SameBody
          /\ res'.expected_content_length = res.expected_content_length
          /\ res'.headers_count = res.headers_count /\ res'.header_values = res.header_values
          /\ res'.header_fields = f
          /\ res'.concat_header_field = s /\ ~res'.concat_header_value
          /\ res'.oom = o /\ res'.arrays = res.arrays /\ res'.null = z
      BY <1>1, <2>4 DEF ResponseType, SameBody
    <2>6. ResInv(res')
      BY <1>1, <1>5, <2>3, <2>4, <2>5, <2>9 DEF ResInv, Shape, MemoryInv
    <2>7. ret = 0 => ~fails
      BY <2>1 DEF HTTPS_CLIENT_NO_MEMORY
    <2>8. ret # HTTPS_CLIENT_INVALID_PARAMETER
      BY <2>1 DEF HTTPS_CLIENT_INVALID_PARAMETER, HTTPS_CLIENT_NO_MEMORY, HTTPS_CLIENT_OK
    <2>10. ret = 0 => s /\ Continuable(res') /\ res'.header_fields[i].text = text
      BY <2>2, <2>3, <2>7, <2>9 DEF s, Continuable
    <2> QED
      BY <1>5, <2>3, <2>5, <2>6, <2>8, <2>9, <2>10
  <1> QED
    BY <1>2, <1>3, <1>4, <1>5

\* A value is stored beside its name, or the value there goes on.
LEMMA SetHeaderValueHandled ==
    ASSUME ResInv(res), NEW text \in Seq(Lexeme), NEW ret, SetHeaderValue(text, ret),
           res.concat_header_field \/ res.concat_header_value
    PROVE  LET i == res'.headers_count
           IN  /\ ResInv(res') /\ SameBody
               /\ res'.expected_content_length = res.expected_content_length
               /\ res'.header_fields = res.header_fields
               /\ ret # 0 /\ Continuable(res) => ret # HTTPS_CLIENT_INVALID_PARAMETER
               /\ ret = 0 =>
                     /\ ~res'.concat_header_field /\ res'.concat_header_value
                     /\ Continuable(res')
                     /\ i = IF res.concat_header_value THEN res.headers_count
                                                       ELSE res.headers_count + 1
                     /\ i \in 1..Len(res'.header_values)
                     /\ Len(res'.header_values) = IF res.concat_header_value
                                                  THEN Len(res.header_values) ELSE i
                     /\ res'.header_values[i].text
                           = IF res.concat_header_value
                             THEN res.header_values[i].text \o text ELSE text
                     /\ \A j \in 1..(i - 1) : res'.header_values[j] = res.header_values[j]
  <1> DEFINE i == res.headers_count
             prev == res.header_values[i]
  <1>1. /\ res \in ResponseType /\ Shape(res) /\ MemoryInv(res) /\ res.headers_count \in Nat
        /\ res.header_fields \in Seq(Block) /\ res.header_values \in Seq(Block)
        /\ i + 1 \in 1..(Len(res.header_values) + 1)
    BY HeadersAssumption DEF ResInv, ResponseType, Shape
  <1>2. CASE res.concat_header_value /\ prev = NULL
    <2>1. ret = HTTPS_CLIENT_INVALID_PARAMETER /\ res' = [res EXCEPT !.concat_header_field = FALSE]
      BY <1>2 DEF SetHeaderValue, ConcatValue, NewValue
    <2>2. res' \in ResponseType /\ SameBody
          /\ res'.expected_content_length = res.expected_content_length
          /\ res'.headers_count = res.headers_count /\ res'.header_values = res.header_values
          /\ res'.header_fields = res.header_fields
          /\ res'.concat_header_value /\ ~res'.concat_header_field
          /\ res'.oom = res.oom /\ res'.null = res.null /\ res'.arrays = res.arrays
      BY <1>1, <1>2, <2>1 DEF ResponseType, SameBody
    <2>3. ResInv(res')
      BY <1>1, <1>2, <2>2 DEF ResInv, Shape, MemoryInv
    <2> QED
      BY <1>2, <2>1, <2>2, <2>3
         DEF Continuable, HTTPS_CLIENT_INVALID_PARAMETER
  <1>3. CASE res.concat_header_value /\ prev # NULL
    <2>1. PICK fails \in BOOLEAN :
             /\ ret = IF fails THEN HTTPS_CLIENT_NO_MEMORY ELSE HTTPS_CLIENT_OK
             /\ res' = [res EXCEPT !.oom = @ \/ fails,
                         !.concat_header_field = FALSE,
                         !.header_values[i] =
                             IF fails THEN NULL
                             ELSE [text |-> prev.text \o text, size |-> Len(text) + 1],
                         !.overrun = @ \/ (~fails /\ prev.text # <<>>),
                         !.live = IF fails THEN @ - 1 ELSE @]
      BY <1>3, MallocAssumption DEF SetHeaderValue, ConcatValue, NewValue
    <2> DEFINE b == IF fails THEN NULL ELSE [text |-> prev.text \o text, size |-> Len(text) + 1]
               f == [res.header_values EXCEPT ![i] = b]
    <2>2. i \in 1..Len(res.header_values) /\ prev.text \in Seq(Lexeme)
      <3>1. i \in 1..Len(res.header_values)
        BY <1>1, <1>3 DEF Shape
      <3>2. prev \in Block
        BY <1>1, <3>1
      <3> QED
        BY <3>1, <3>2 DEF Block
    <2>3. b \in Block /\ (~fails => b # NULL /\ b.text = prev.text \o text)
      <3>1. prev.text \o text \in Seq(Lexeme) /\ Len(text) \in Nat
        BY <2>2
      <3> QED
        BY <3>1 DEF Block, NULL
    <2> HIDE DEF b
    <2>4. /\ f \in Seq(Block) /\ Len(f) = Len(res.header_values) /\ f[i] = b
          /\ \A j \in 1..(i - 1) : f[j] = res.header_values[j]
      BY <1>1, <2>2, <2>3, ExceptSeq
    <2> DEFINE o == res.oom \/ fails
               w == res.overrun \/ (~fails /\ prev.text # <<>>)
               l == IF fails THEN res.live - 1 ELSE res.live
    <2>5. /\ res' = [res EXCEPT !.oom = o, !.concat_header_field = FALSE,
                                !.header_values = f, !.overrun = w, !.live = l]
          /\ o \in BOOLEAN /\ l \in Int /\ w \in BOOLEAN /\ (res.oom => o)
      BY <1>1, <2>1 DEF b, ResponseType
    <2> HIDE DEF f, o, l, w
    <2>6. /\ res' \in ResponseType
          /\ res'.expected_content_length = res.expected_content_length
          /\ res'.headers_count = res.headers_count /\ res'.header_values = f
          /\ res'.header_fields = res.header_fields
          /\ ~res'.concat_header_field /\ res'.concat_header_value
          /\ res'.oom = o /\ res'.null = res.null /\ res'.arrays = res.arrays
      BY <1>1, <1>3, <2>4, <2>5, ZenonT(40) DEF ResponseType
    <2>11. SameBody
      BY <1>1, <2>5 DEF ResponseType, SameBody
    <2>7. ResInv(res')
      BY <1>1, <1>3, <2>4, <2>5, <2>6 DEF ResInv, Shape, MemoryInv
    <2>8. ret = 0 => ~fails
      BY <2>1 DEF HTTPS_CLIENT_NO_MEMORY
    <2>9. ret # HTTPS_CLIENT_INVALID_PARAMETER
      BY <2>1 DEF HTTPS_CLIENT_INVALID_PARAMETER, HTTPS_CLIENT_NO_MEMORY, HTTPS_CLIENT_OK
    <2>10. ret = 0 => /\ Continuable(res')
                      /\ res'.header_values[i].text = res.header_values[i].text \o text
      BY <2>3, <2>4, <2>6, <2>8 DEF Continuable
    <2> QED
      BY <1>3, <2>2, <2>4, <2>6, <2>7, <2>9, <2>10, <2>11
  <1>4. CASE ~res.concat_header_value /\ res.headers_count >= MAX_HEADERS_COUNT - 1
    <2>1. ret = HTTPS_CLIENT_NO_MEMORY /\ res' = [res EXCEPT !.concat_header_field = FALSE]
      BY <1>4 DEF SetHeaderValue, ConcatValue, NewValue
    <2>2. res' \in ResponseType /\ SameBody
          /\ res'.expected_content_length = res.expected_content_length
          /\ res'.headers_count = res.headers_count /\ res'.header_values = res.header_values
          /\ res'.header_fields = res.header_fields
          /\ ~res'.concat_header_field /\ ~res'.concat_header_value
          /\ res'.oom = res.oom /\ res'.null = res.null /\ res'.arrays = res.arrays
      BY <1>1, <1>4, <2>1, ZenonT(40) DEF ResponseType, SameBody
    <2>3. ResInv(res')
      BY <1>1, <2>2 DEF ResInv, Shape, MemoryInv
    <2> QED
      BY <2>1, <2>2, <2>3 DEF HTTPS_CLIENT_INVALID_PARAMETER, HTTPS_CLIENT_NO_MEMORY
  <1>5. CASE ~res.concat_header_value /\ ~(res.headers_count >= MAX_HEADERS_COUNT - 1)
    <2>0. res.concat_header_field /\ Len(res.header_fields) = i + 1
      BY <1>1, <1>5, SMTT(30) DEF Shape
    <2>1. PICK fails \in BOOLEAN :
             /\ ret = IF fails THEN HTTPS_CLIENT_NO_MEMORY ELSE HTTPS_CLIENT_OK
             /\ res' = [res EXCEPT !.oom = @ \/ fails,
                         !.concat_header_field = FALSE,
                         !.concat_header_value = ~fails,
                         !.header_values = Put(@, i + 1, IF fails THEN NULL ELSE Str(text)),
                         !.headers_count = IF fails THEN @ ELSE @ + 1,
                         !.live = IF fails THEN @ ELSE @ + 1,
                         !.overrun = @ \/ i + 1 > HEADER_SLOTS,
                         !.null = @ \/ "values" \notin res.arrays]
      BY <1>5, MallocAssumption DEF SetHeaderValue, ConcatValue, NewValue
    <2> DEFINE b == IF fails THEN NULL ELSE Str(text)
               f == Put(res.header_values, i + 1, b)
    <2>2. b \in Block /\ (~fails => b # NULL /\ b.text = text)
      BY StrType
    <2> HIDE DEF b
    <2>3. /\ f \in Seq(Block) /\ Len(f) = i + 1 /\ f[i + 1] = b
          /\ \A j \in 1..i : f[j] = res.header_values[j]
      <3>1. /\ f \in Seq(Block)
            /\ Len(f) = IF i + 1 = Len(res.header_values) + 1 THEN Len(res.header_values) + 1
                                                              ELSE Len(res.header_values)
            /\ \A j \in 1..Len(res.header_values) : j # i + 1 => f[j] = res.header_values[j]
            /\ f[i + 1] = b
        BY <1>1, <2>2, PutSeq, SMTT(30)
      <3>2. Len(res.header_values) \in {res.headers_count, res.headers_count + 1}
        BY <1>1 DEF Shape
      <3> HIDE DEF f
      <3>3. Len(f) = i + 1
        BY <1>1, <3>1, <3>2
      <3>4. \A j \in 1..i : j \in 1..Len(res.header_values) /\ j # i + 1
        BY <1>1, <3>2
      <3> QED
        BY <3>1, <3>3, <3>4
    <2> DEFINE o == res.oom \/ fails
               l == IF fails THEN res.live ELSE res.live + 1
               w == res.overrun \/ i + 1 > HEADER_SLOTS
               z == res.null \/ "values" \notin res.arrays
               s == ~fails
               k == IF fails THEN i ELSE i + 1
    <2>4. /\ res' = [res EXCEPT !.oom = o, !.concat_header_field = FALSE,
                                !.concat_header_value = s, !.header_values = f,
                                !.headers_count = k, !.live = l, !.overrun = w, !.null = z]
          /\ o \in BOOLEAN /\ l \in Int /\ w \in BOOLEAN /\ z \in BOOLEAN /\ s \in BOOLEAN
          /\ k \in 0..MAX_HEADERS_COUNT /\ k = (IF s THEN i + 1 ELSE i)
          /\ (res.oom => o) /\ (z => res.null \/ "values" \notin res.arrays)
      BY <1>1, <1>5, <2>1, HeadersAssumption DEF b, ResponseType
    <2> HIDE DEF f, o, l, w, z, s, k
    <2>5. res' \in ResponseType
      <3> DEFINE r == [res EXCEPT !.oom = o, !.live = l, !.overrun = w, !.null = z]
      <3>1. r \in ResponseType
        BY <1>1, <2>4 DEF ResponseType
      <3>2. [r EXCEPT !.concat_header_field = FALSE, !.concat_header_value = s,
                      !.header_values = f, !.headers_count = k] \in ResponseType
        <4> HIDE DEF r
        <4> QED
          BY <2>3, <2>4, <3>1, ZenonT(40) DEF ResponseType
      <3>3. res' = [r EXCEPT !.concat_header_field = FALSE, !.concat_header_value = s,
                             !.header_values = f, !.headers_count = k]
        BY <2>4
      <3> QED
        BY <3>2, <3>3
    <2>9. /\ SameBody
          /\ res'.expected_content_length = res.expected_content_length
          /\ res'.headers_count = k /\ res'.header_values = f
          /\ res'.header_fields = res.header_fields
          /\ res'.concat_header_value = s /\ ~res'.concat_header_field
          /\ res'.oom = o /\ res'.arrays = res.arrays /\ res'.null = z
      BY <1>1, <2>4 DEF ResponseType, SameBody
    <2>6. Shape(res') /\ MemoryInv(res')
      BY <1>1, <1>5, <2>0, <2>3, <2>4, <2>9 DEF Shape, MemoryInv
    <2>7. ret = 0 => ~fails
      BY <2>1 DEF HTTPS_CLIENT_NO_MEMORY
    <2>8. ret # HTTPS_CLIENT_INVALID_PARAMETER
      BY <2>1 DEF HTTPS_CLIENT_INVALID_PARAMETER, HTTPS_CLIENT_NO_MEMORY, HTTPS_CLIENT_OK
    <2>10. ret = 0 => /\ s /\ k = i + 1 /\ Continuable(res')
                      /\ res'.header_values[i + 1].text = text
      BY <2>2, <2>3, <2>4, <2>7, <2>9 DEF s, Continuable
    <2>11. ret = 0 => k \in 1..Len(f)
      BY <1>1, <2>3, <2>10, SMTT(30)
    <2> QED
      BY <1>1, <1>5, <2>3, <2>5, <2>6, <2>8, <2>9, <2>10, <2>11 DEF ResInv
  <1> QED
    BY <1>2, <1>3, <1>4, <1>5

\* The least of a set of numbers is one of them.
LEMMA LeastIn ==
    ASSUME NEW S, S \subseteq Nat, S # {}
    PROVE  (CHOOSE i \in S : \A j \in S : i <= j) \in S
  <1>1. IsWellFoundedOn(OpToRel(<, Nat), Nat)
    BY NatLessThanWellFounded
  <1>2. PICK x \in S : \A y \in S : ~(<<y, x>> \in OpToRel(<, Nat))
    BY <1>1, WFMin
  <1>3. \A y \in S : ~(y < x)
    BY <1>2 DEF OpToRel
  <1>4. \A y \in S : x <= y
    BY <1>3
  <1> QED
    BY <1>4

\* The expected length is all that the end of the headers changes.
LEMMA SetHeadersCompleteHandled ==
    ASSUME ResInv(res), NEW ret, SetHeadersComplete(ret)
    PROVE  /\ ResInv(res') /\ SameBody /\ SameHeaders
           /\ ret \in {0, HTTPS_CLIENT_INVALID_PARAMETER}
  <1> DEFINE named == {i \in 1..res.headers_count : IsContentLength(res.header_fields[i].text)}
             first == CHOOSE i \in named : \A j \in named : i <= j
             text == res.header_values[first].text
  <1>1. /\ res \in ResponseType /\ Shape(res) /\ MemoryInv(res)
        /\ res.headers_count \in Nat /\ res.header_values \in Seq(Block)
    BY HeadersAssumption DEF ResInv, ResponseType
  <1>2. CASE UNCHANGED res /\ ret \in {HTTPS_CLIENT_OK, HTTPS_CLIENT_INVALID_PARAMETER}
    BY <1>2 DEF ResInv, Shape, MemoryInv, SameBody, SameHeaders, HTTPS_CLIENT_OK
  <1>3. CASE /\ named # {} /\ ret = HTTPS_CLIENT_OK
             /\ res' = [res EXCEPT !.expected_content_length = Scanned(text) % UINT_RANGE]
    <2>1. first \in 1..res.headers_count
      <3>1. named \subseteq Nat /\ named # {}
        BY <1>3
      <3>2. first \in named
        <4> HIDE DEF named
        <4> QED
          BY <3>1, LeastIn
      <3> QED
        BY <3>2
    <2> HIDE DEF first
    <2>2. text \in Seq(Lexeme)
      <3>1. first \in 1..Len(res.header_values)
        BY <1>1, <2>1 DEF Shape
      <3>2. res.header_values[first] \in Block
        BY <1>1, <3>1
      <3> QED
        BY <3>2 DEF Block
    <2> DEFINE n == Scanned(text) % UINT_RANGE
    <2>3. n \in Uint
      <3>1. Scanned(text) \in Nat
        BY <2>2, ScannedNat
      <3> QED
        BY <3>1, UintAssumption DEF Uint
    <2> HIDE DEF n
    <2>4. res' = [res EXCEPT !.expected_content_length = n]
      BY <1>3 DEF n
    <2>5. res' \in ResponseType
      BY <1>1, <2>3, <2>4 DEF ResponseType
    <2>6. /\ SameBody /\ SameHeaders
          /\ res'.oom = res.oom /\ res'.null = res.null /\ res'.arrays = res.arrays
      BY <1>1, <2>4 DEF ResponseType, SameBody, SameHeaders
    <2> QED
      BY <1>1, <1>3, <2>5, <2>6, SameHeadersInv DEF ResInv, MemoryInv, HTTPS_CLIENT_OK
  <1> QED
    BY <1>2, <1>3 DEF SetHeadersComplete

\* What the counters of the body are made of n bytes more: the client's callback gets
\* them, or they are stored.
BodyAdded(n, ret) ==
    /\ res'.body_length = (res.body_length + n) % UINT_RANGE
    /\ ret = 0 =>
          IF body_cb = "NULL"
          THEN res'.body_offset = (res.body_offset + n) % UINT_RANGE /\ passed' = passed
          ELSE /\ res'.body_offset = res.body_offset /\ res'.body = res.body
               /\ body_cb = "user" => passed' = passed + n

\* The block n bytes of a body are stored in: freed if it cannot grow, made to fit where the
\* body comes in chunks, and else of the announced length from the first byte on.
Stored(n, ret) ==
    LET h == res.is_chunked \/ res.expected_content_length = 0
    IN  /\ ret # 0 => res'.body = 0
        /\ ret = 0 =>
              /\ res'.is_chunked = h
              /\ \/ res'.body = 0 /\ res'.null
                 \/ /\ h
                    /\ res'.body = IF res.body # 0 THEN res.body_offset + n ELSE n
                 \/ /\ ~h
                    /\ res'.body = IF res.body # 0 THEN res.body
                                                    ELSE res.expected_content_length

\* Body bytes are stored in a block of their own.
LEMMA SetBodyHandled ==
    ASSUME ResInv(res), NEW n \in Nat, n > 0, NEW ret, SetBody(n, ret)
    PROVE  /\ ResInv(res') /\ SameHeaders
           /\ res'.body_length = (res.body_length + n) % UINT_RANGE
           /\ ret = 0 => res'.body_offset = (res.body_offset + n) % UINT_RANGE
           /\ Stored(n, ret)
           /\ ret # HTTPS_CLIENT_INVALID_PARAMETER
           /\ res'.is_message_completed = res.is_message_completed
           /\ res'.expected_content_length = res.expected_content_length
  <1> DEFINE m == (res.body_length + n) % UINT_RANGE
             h == res.is_chunked \/ res.expected_content_length = 0
             r == [res EXCEPT !.body_length = m, !.is_chunked = h]
             allocates == r.is_chunked \/ r.body = 0
  <1>1. res \in ResponseType /\ Shape(res) /\ MemoryInv(res)
    BY DEF ResInv
  <1>2. m \in Uint /\ h \in BOOLEAN
    <2>1. res.body_length + n \in Nat
      BY <1>1, UintAssumption DEF ResponseType, Uint
    <2> QED
      BY <1>1, <2>1, UintAssumption, SMTT(30) DEF ResponseType, Uint
  <1>3. PICK fails \in BOOLEAN :
           IF fails /\ allocates /\ r.body # 0
           THEN /\ ret = HTTPS_CLIENT_NO_MEMORY
                /\ res' = [r EXCEPT !.oom = TRUE, !.body = 0, !.live = @ - 1]
           ELSE /\ ret = HTTPS_CLIENT_OK
                /\ res' = CopyBody([r EXCEPT
                         !.oom = @ \/ (fails /\ allocates),
                         !.body = CASE fails /\ allocates  -> 0
                                    [] ~fails /\ allocates -> BlockSize(r, n)
                                    [] OTHER               -> @,
                         !.live = IF ~fails /\ r.body = 0 THEN @ + 1 ELSE @], n)
    BY MallocAssumption DEF SetBody
  <1> HIDE DEF m, h
  <1>4. /\ r \in ResponseType /\ r.is_chunked = h /\ r.body_length = m /\ r.body = res.body
        /\ r.body_offset = res.body_offset /\ r.oom = res.oom /\ r.null = res.null
        /\ r.arrays = res.arrays /\ r.overrun = res.overrun /\ r.live = res.live
        /\ r.expected_content_length = res.expected_content_length
        /\ r.is_message_completed = res.is_message_completed
        /\ r.header_fields = res.header_fields /\ r.header_values = res.header_values
        /\ r.headers_count = res.headers_count
        /\ r.concat_header_field = res.concat_header_field
        /\ r.concat_header_value = res.concat_header_value
    BY <1>1, <1>2 DEF ResponseType
  <1>5. ~r.is_chunked => r.expected_content_length # 0
    BY <1>4 DEF h
  <1> DEFINE a == allocates
  <1> HIDE DEF r, allocates
  <1>6. CASE fails /\ a /\ r.body # 0
    <2>1. ret = HTTPS_CLIENT_NO_MEMORY /\ res' = [r EXCEPT !.oom = TRUE, !.body = 0, !.live = @ - 1]
      BY <1>3, <1>6 DEF a
    <2>2. res' \in ResponseType
      <3> DEFINE l == r.live - 1
      <3>1. l \in Int /\ r \in ResponseType
        BY <1>4 DEF ResponseType
      <3>2. res' = [r EXCEPT !.oom = TRUE, !.body = 0, !.live = l]
        BY <2>1
      <3> HIDE DEF l
      <3> QED
        BY <3>1, <3>2 DEF ResponseType
    <2>3. /\ SameHeaders /\ res'.oom /\ res'.body_length = m
          /\ res'.is_message_completed = res.is_message_completed
          /\ res'.expected_content_length = res.expected_content_length
      BY <1>4, <2>1 DEF ResponseType, SameHeaders
    <2>4. MemoryInv(res')
      BY <2>3 DEF MemoryInv
    <2>5. Stored(n, ret)
      <3>1. ret # 0 /\ res'.body = 0
        BY <1>4, <2>1 DEF ResponseType, HTTPS_CLIENT_NO_MEMORY
      <3> QED
        BY <3>1 DEF Stored
    <2> QED
      BY <2>1, <2>2, <2>3, <2>4, <2>5, SameHeadersInv
         DEF m, ResInv, HTTPS_CLIENT_NO_MEMORY, HTTPS_CLIENT_INVALID_PARAMETER
  <1>7. CASE ~(fails /\ a /\ r.body # 0)
    <2> DEFINE o == r.oom \/ (fails /\ a)
               b == CASE fails /\ a  -> 0
                      [] ~fails /\ a -> BlockSize(r, n)
                      [] OTHER       -> r.body
               l == IF ~fails /\ r.body = 0 THEN r.live + 1 ELSE r.live
               q == [r EXCEPT !.oom = o, !.body = b, !.live = l]
               t == (q.body_offset + n) % UINT_RANGE
               w == q.overrun \/ q.body_offset + n > q.body
               z == q.null \/ q.body = 0
    <2>1. ret = HTTPS_CLIENT_OK
      BY <1>3, <1>7 DEF a
    <2>2. res' = [q EXCEPT !.body_offset = t, !.overrun = w, !.null = z]
      BY <1>3, <1>7 DEF CopyBody, a
    <2>3. /\ b \in Nat /\ o \in BOOLEAN /\ l \in Int
          /\ r.oom => o
          /\ b = 0 => o
          /\ \/ b = 0 /\ r.body = 0
             \/ b = 0 /\ fails
             \/ h /\ b = IF r.body # 0 THEN r.body_offset + n ELSE n
             \/ ~h /\ b = IF r.body # 0 THEN r.body ELSE r.expected_content_length
      <3>1. r.body \in Nat /\ r.body_offset \in Nat /\ r.expected_content_length \in Nat
            /\ r.is_chunked \in BOOLEAN /\ r.oom \in BOOLEAN /\ r.live \in Int
        BY <1>4, UintAssumption DEF ResponseType, Uint
      <3>2. a <=> r.is_chunked \/ r.body = 0
        BY DEF a, allocates
      <3>3. a => BlockSize(r, n) \in Nat /\ BlockSize(r, n) # 0
        BY <1>5, <3>1, <3>2 DEF BlockSize
      <3>4. a => BlockSize(r, n) = IF h THEN (IF r.body # 0 THEN r.body_offset + n ELSE n)
                                         ELSE r.expected_content_length
        BY <1>4, <3>1 DEF BlockSize
      <3> QED
        BY <1>4, <3>1, <3>2, <3>3, <3>4
    <2> HIDE DEF o, b, l
    <2>4. /\ q \in ResponseType /\ q.body_offset = res.body_offset /\ q.body = b /\ q.oom = o
          /\ q.null = res.null /\ q.overrun = res.overrun /\ q.arrays = res.arrays
          /\ q.is_chunked = h /\ q.body_length = m /\ q.is_message_completed = res.is_message_completed
          /\ q.expected_content_length = res.expected_content_length
          /\ q.header_fields = res.header_fields /\ q.header_values = res.header_values
          /\ q.headers_count = res.headers_count
          /\ q.concat_header_field = res.concat_header_field
          /\ q.concat_header_value = res.concat_header_value
      BY <1>4, <2>3 DEF ResponseType
    <2> HIDE DEF q
    <2>5. t \in Uint /\ w \in BOOLEAN /\ z \in BOOLEAN
      <3>1. q.body_offset \in Nat /\ q.null \in BOOLEAN /\ q.overrun \in BOOLEAN
        BY <2>4, UintAssumption DEF ResponseType, Uint
      <3> QED
        BY <3>1, UintAssumption DEF Uint
    <2>6. z => q.null \/ o
      BY <2>3, <2>4
    <2>7. /\ t = (res.body_offset + n) % UINT_RANGE
          /\ b = 0 => z
      BY <2>4
    <2> HIDE DEF t, w, z
    <2>8. res' \in ResponseType
      BY <2>2, <2>4, <2>5 DEF ResponseType
    <2>9. /\ SameHeaders /\ res'.oom = o /\ res'.null = z /\ res'.arrays = res.arrays
          /\ res'.body_length = m /\ res'.body_offset = t
          /\ res'.body = b /\ res'.is_chunked = h
          /\ res'.is_message_completed = res.is_message_completed
          /\ res'.expected_content_length = res.expected_content_length
      BY <2>2, <2>4 DEF ResponseType, SameHeaders
    <2>10. MemoryInv(res')
      BY <1>1, <1>4, <2>3, <2>4, <2>6, <2>9 DEF MemoryInv
    <2>11. Stored(n, ret)
      <3>1. ret = 0
        BY <2>1 DEF HTTPS_CLIENT_OK
      <3>2. \/ res'.body = 0 /\ res'.null
            \/ h /\ res'.body = IF res.body # 0 THEN res.body_offset + n ELSE n
            \/ ~h /\ res'.body = IF res.body # 0 THEN res.body ELSE res.expected_content_length
        BY <1>4, <2>3, <2>7, <2>9
      <3>3. h = (res.is_chunked \/ res.expected_content_length = 0) /\ res'.is_chunked = h
        BY <2>9 DEF h
      <3> QED
        BY <3>1, <3>2, <3>3 DEF Stored
    <2> QED
      BY <2>1, <2>7, <2>8, <2>9, <2>10, <2>11, SameHeadersInv
         DEF m, ResInv, HTTPS_CLIENT_OK, HTTPS_CLIENT_INVALID_PARAMETER
  <1> QED
    BY <1>6, <1>7

LEMMA BodyCallbackHandled ==
    ASSUME ResInv(res), cb'.n \in Nat, cb'.n > 0, BodyCallback
    PROVE  /\ ResInv(res') /\ SameHeaders /\ BodyAdded(cb'.n, cb'.ret)
           /\ body_cb = "NULL" => Stored(cb'.n, cb'.ret)
           /\ body_cb # "NULL" => BlockKept
           /\ cb'.ret # HTTPS_CLIENT_INVALID_PARAMETER
           /\ res'.is_message_completed = res.is_message_completed
           /\ res'.expected_content_length = res.expected_content_length
  <1>1. CASE body_cb = "NULL"
    <2>1. SetBody(cb'.n, cb'.ret) /\ UNCHANGED passed
      BY <1>1 DEF BodyCallback
    <2> QED
      BY <1>1, <2>1, SetBodyHandled DEF BodyAdded
  <1>2. CASE body_cb # "NULL"
    <2> DEFINE m == (res.body_length + cb'.n) % UINT_RANGE
    <2>1. /\ cb'.ret = 0 /\ res' = [res EXCEPT !.body_length = m]
          /\ body_cb = "user" => passed' = passed + cb'.n
      BY <1>2 DEF BodyCallback
    <2>2. res \in ResponseType /\ m \in Uint
      <3>1. res.body_length + cb'.n \in Nat
        BY UintAssumption DEF ResInv, ResponseType, Uint
      <3> QED
        BY <3>1, UintAssumption DEF ResInv, Uint
    <2>3. res' \in ResponseType
      <3> HIDE DEF m
      <3> QED
        BY <2>1, <2>2 DEF ResponseType
    <2>4. /\ SameHeaders /\ res'.body_length = m /\ res'.body_offset = res.body_offset
          /\ res'.body = res.body /\ res'.oom = res.oom /\ res'.null = res.null
          /\ res'.arrays = res.arrays /\ BlockKept
          /\ res'.is_message_completed = res.is_message_completed
          /\ res'.expected_content_length = res.expected_content_length
      <3> HIDE DEF m
      <3> QED
        BY <2>1, <2>2 DEF ResponseType, SameHeaders, BlockKept
    <2> QED
      BY <1>2, <2>1, <2>3, <2>4, SameHeadersInv
         DEF ResInv, MemoryInv, BodyAdded, HTTPS_CLIENT_INVALID_PARAMETER
  <1> QED
    BY <1>1, <1>2

LEMMA PlainHandled ==
    ASSUME ResInv(res), PlainCallback
    PROVE  /\ ResInv(res') /\ SameHeaders /\ cb'.ret = 0
           /\ res'.body_length = res.body_length /\ BlockKept
  <1>1. res \in ResponseType
    BY DEF ResInv
  <1>2. CASE UNCHANGED res
    BY <1>1, <1>2 DEF ResInv, Shape, MemoryInv, SameHeaders, BlockKept, PlainCallback
  <1>3. CASE SetChunked
    <2>1. res' \in ResponseType
      BY <1>1, <1>3 DEF SetChunked, ResponseType
    <2>2. /\ SameHeaders /\ res'.oom = res.oom /\ res'.null = res.null /\ res'.arrays = res.arrays
          /\ res'.body_length = res.body_length /\ BlockKept
      BY <1>1, <1>3 DEF SetChunked, ResponseType, SameHeaders, BlockKept
    <2> QED
      BY <2>1, <2>2, SameHeadersInv DEF ResInv, MemoryInv, PlainCallback
  <1>4. CASE SetMessageComplete
    <2>1. res' \in ResponseType
      BY <1>1, <1>4 DEF SetMessageComplete, ResponseType
    <2>2. /\ SameHeaders /\ res'.oom = res.oom /\ res'.null = res.null /\ res'.arrays = res.arrays
          /\ res'.body_length = res.body_length /\ BlockKept
      BY <1>1, <1>4 DEF SetMessageComplete, ResponseType, SameHeaders, BlockKept
    <2> QED
      BY <2>1, <2>2, SameHeadersInv DEF ResInv, MemoryInv, PlainCallback
  <1> QED
    BY <1>2, <1>3, <1>4 DEF PlainCallback

\* What is freed is a number of blocks.
LEMMA FreedHandled ==
    ASSUME ResInv(res), FreeResponse
    PROVE  ResInv(res') /\ SameHeaders /\ BlockKept
  <1> DEFINE Live(array) == {i \in 1..res.headers_count : array[i] # NULL}
             k == res.live - Freed
  <1>1. res \in ResponseType /\ res.headers_count \in Nat
    BY HeadersAssumption DEF ResInv, ResponseType
  <1>2. ASSUME NEW array PROVE Cardinality(Live(array)) \in Nat
    <2>1. IsFiniteSet(1..res.headers_count) /\ Live(array) \subseteq 1..res.headers_count
      BY <1>1, FS_Interval
    <2>2. IsFiniteSet(Live(array))
      BY <2>1, FS_Subset
    <2> QED
      BY <2>2, FS_CardinalityType
  <1>3. k \in Int
    <2>1. Cardinality(Live(res.header_fields)) \in Nat /\ Cardinality(Live(res.header_values)) \in Nat
      BY <1>2
    <2>2. Freed = (IF res.body = 0 THEN 0 ELSE 1) + (IF res.status_message = NULL THEN 0 ELSE 1)
                    + Cardinality(Live(res.header_fields)) + Cardinality(Live(res.header_values))
      BY DEF Freed
    <2>3. res.live \in Int
      BY <1>1 DEF ResponseType
    <2> HIDE DEF Live
    <2> QED
      BY <2>1, <2>2, <2>3
  <1> HIDE DEF k
  <1>4. res' = [res EXCEPT !.live = k]
    BY DEF FreeResponse, k
  <1>5. res' \in ResponseType
    BY <1>1, <1>3, <1>4 DEF ResponseType
  <1>6. /\ SameHeaders /\ BlockKept
        /\ res'.oom = res.oom /\ res'.null = res.null /\ res'.arrays = res.arrays
    BY <1>1, <1>4 DEF ResponseType, SameHeaders, BlockKept
  <1> QED
    BY <1>5, <1>6, SameHeadersInv DEF ResInv, MemoryInv

\* A new response.
LEMMA FreshResponse ==
    ASSUME NEW r \in response_parser_init
    PROVE  /\ ResInv(r) /\ Continuable(r)
           /\ ~r.concat_header_field /\ ~r.concat_header_value /\ r.headers_count = 0
           /\ r.header_fields = <<>> /\ r.header_values = <<>>
           /\ r.body = 0 /\ r.body_length = 0 /\ r.body_offset = 0
           /\ r.expected_content_length = 0
  <1>1. PICK failed \in SUBSET {"fields", "values", "parser"} :
           r = [http_response_init({"fields", "values"} \ failed) EXCEPT
                   !.null = "parser" \in failed, !.oom = failed # {}]
    BY DEF response_parser_init
  <1> DEFINE arrays == {"fields", "values"} \ failed
             n == Cardinality(arrays)
             z == "parser" \in failed
             o == failed # {}
  <1>2. n \in Nat
    <2>1. IsFiniteSet({"fields", "values"}) /\ arrays \subseteq {"fields", "values"}
      <3>1. IsFiniteSet({} \cup {"fields"})
        BY FS_EmptySet, FS_AddElement
      <3>2. IsFiniteSet(({} \cup {"fields"}) \cup {"values"})
        <4> DEFINE S == {} \cup {"fields"}
        <4> HIDE DEF S
        <4>1. IsFiniteSet(S)
          BY <3>1 DEF S
        <4>2. IsFiniteSet(S \cup {"values"})
          BY <4>1, FS_AddElement
        <4> QED
          BY <4>2 DEF S
      <3>3. ({} \cup {"fields"}) \cup {"values"} = {"fields", "values"}
        OBVIOUS
      <3> QED
        BY <3>2, <3>3
    <2>2. IsFiniteSet(arrays)
      BY <2>1, FS_Subset
    <2> QED
      BY <2>2, FS_CardinalityType
  <1>3. /\ arrays \in SUBSET {"fields", "values"} /\ z \in BOOLEAN /\ o \in BOOLEAN
        /\ (z => o) /\ (arrays # {"fields", "values"} => o)
    OBVIOUS
  <1>4. r = [status_code |-> 0, status_message |-> NULL,
             header_fields |-> <<>>, header_values |-> <<>>, headers_count |-> 0,
             concat_header_field |-> FALSE, concat_header_value |-> FALSE,
             expected_content_length |-> 0, is_chunked |-> FALSE,
             is_message_completed |-> FALSE,
             body |-> 0, body_length |-> 0, body_offset |-> 0, arrays |-> arrays,
             live |-> n, overrun |-> FALSE, null |-> z, oom |-> o]
    BY <1>1 DEF http_response_init
  <1> HIDE DEF arrays, n, z, o
  <1>5. NULL \in Block /\ <<>> \in Seq(Block) /\ 0 \in Uint /\ 0 \in 0..MAX_HEADERS_COUNT
    <2>1. <<>> \in Seq(Lexeme)
      OBVIOUS
    <2>2. NULL \in Block
      BY <2>1, StrType
    <2> QED
      BY <2>2, HeadersAssumption, UintAssumption DEF Uint
  <1>6. r \in ResponseType
    BY <1>2, <1>3, <1>4, <1>5 DEF ResponseType
  <1> QED
    BY <1>3, <1>4, <1>6 DEF ResInv, Shape, MemoryInv, Continuable

-----------------------------------------------------------------------------
(* The response while it is filled in *)

EngineStep == (\E n \in 1..MaxLen : Execute(n)) \/ Finish \/ Run

\* Which array the last header callback extended, in the terms of the protocol
Linked ==
    phase # "over" =>
        /\ Continuable(res)
        /\ res.concat_header_field <=> phase \in {"name", "tname"}
        /\ phase \in {"value", "tvalue"} => res.concat_header_value

DataOK == data \in Seq(Lexeme) /\ Len(data) <= MaxLen

RInv ==
    /\ PInv
    /\ ResInv(res)
    /\ Linked
    /\ DataOK
    /\ body_cb \in {"NULL", "user", "garbage"}

\* The bytes that are skipped over are of the alphabet too.
LEMMA SliceType ==
    ASSUME DataOK, cb' \in CallbackRecord
    PROVE  Slice \in Seq(Lexeme) /\ Len(Slice) = cb'.n
  <1>1. cb'.n \in Nat /\ cb'.at \in Nat /\ Any \in Lexeme
    BY DEF CallbackRecord, Any, Lexeme, Class
  <1>2. \A i \in 1..cb'.n :
           (IF cb'.at + i <= Len(data) THEN data[cb'.at + i] ELSE Any) \in Lexeme
    BY <1>1 DEF DataOK
  <1> DEFINE n == cb'.n
             s(i) == IF cb'.at + i <= Len(data) THEN data[cb'.at + i] ELSE Any
  <1>3. n \in Nat /\ (\A i \in 1..n : s(i) \in Lexeme) /\ Slice = [i \in 1..n |-> s(i)]
    BY <1>1, <1>2 DEF Slice
  <1> HIDE DEF n, s
  <1>4. Slice \in Seq(Lexeme) /\ Len(Slice) = n
    BY <1>3
  <1> QED
    BY <1>4 DEF n

LEMMA ReadType ==
    ASSUME DataOK, Read, PInv' PROVE DataOK'
  <1> DEFINE n == IF call'.cur = NoByte THEN call'.pos ELSE call'.pos + 1
  <1>1. n \in Nat /\ n <= MaxLen
    <2>1. call'.pos \in 0..MaxLen /\ call'.len \in 0..MaxLen
      BY DEF PInv, IInv, StateInv, Call
    <2>2. call'.cur # NoByte => call'.pos < call'.len
      BY DEF PInv, IInv, StateInv, Offsets, NoCall
    <2> QED
      BY <2>1, <2>2, MaxLenAssumption
  <1>2. call'.pos \in Nat /\ call'.cur \in Lexeme \cup {NoByte} /\ Any \in Lexeme
    <2>1. call' \in Call
      BY DEF PInv, IInv, StateInv
    <2>2. Any \in Lexeme
      BY DEF Any, Lexeme, Class
    <2>3. call'.pos \in 0..MaxLen /\ call'.cur \in Lexeme \cup {NoByte}
      BY <2>1 DEF Call
    <2> QED
      BY <2>2, <2>3, MaxLenAssumption
  <1>3. data' = [i \in 1..n |-> IF i <= Len(data) THEN data[i]
                                ELSE IF i = call'.pos + 1 THEN call'.cur ELSE Any]
    BY DEF Read
  <1>4. ASSUME NEW i \in 1..n
        PROVE  (IF i <= Len(data) THEN data[i]
                ELSE IF i = call'.pos + 1 THEN call'.cur ELSE Any) \in Lexeme
    <2>1. i = call'.pos + 1 => call'.cur # NoByte
      BY <1>2
    <2>2. i <= Len(data) => data[i] \in Lexeme
      BY <1>1 DEF DataOK
    <2> QED
      BY <1>2, <2>1, <2>2
  <1> HIDE DEF n
  <1>5. data' \in Seq(Lexeme) /\ Len(data') = n
    BY <1>1, <1>3, <1>4
  <1> QED
    BY <1>1, <1>5 DEF DataOK

\* The handlers keep the response well-formed, and what they return to the parser agrees
\* with what they stored.
LEMMA RespondHandled ==
    ASSUME RInv, PInv', Protocol!Next, Respond
    PROVE  ResInv(res') /\ Linked'
  <1>1. /\ cb' \in CallbackRecord /\ cb'.n \in Nat /\ parser'.status_code \in Nat
        /\ Slice \in Seq(Lexeme) /\ ResInv(res)
    <2>1. cb' \in CallbackRecord /\ parser' \in Parser
      BY DEF PInv, IInv, StateInv, ParserInv
    <2> QED
      BY <2>1, SliceType DEF RInv, CallbackRecord, Parser
  <1>2. CASE cb' = NoCb
    <2>1. res' = res /\ (phase' # "over" => phase' = phase)
      BY <1>2 DEF Respond, NoCb, Protocol!Next, Protocol!MessageBegin, Protocol!Status,
         Protocol!HeaderField, Protocol!HeaderValue, Protocol!HeadersComplete,
         Protocol!ChunkHeader, Protocol!Body, Protocol!ChunkComplete,
         Protocol!MessageComplete, Protocol!Quiet, Protocol!Fail, Protocol!Calls
    <2>2. ResInv(res')
      BY <1>1, <2>1
    <2>3. Linked'
      BY <2>1 DEF RInv, Linked, Continuable
    <2> QED
      BY <2>2, <2>3
  <1>3. CASE Protocol!HeaderField
    <2>1. /\ cb'.for = "header_field" /\ phase # "over"
          /\ phase' \in {"name", "tname", "over"} /\ (phase' # "over" => cb'.ret = 0)
      BY <1>3 DEF Protocol!HeaderField, Protocol!Calls, Protocol!Then
    <2>2. SetHeaderField(Slice, cb'.ret)
      BY <2>1 DEF Respond
    <2>3. /\ ResInv(res')
          /\ cb'.ret = 0 => /\ res'.concat_header_field /\ ~res'.concat_header_value
                            /\ Continuable(res')
      BY <1>1, <2>2, SetHeaderFieldHandled
    <2> QED
      BY <2>1, <2>3 DEF Linked, Continuable
  <1>4. CASE Protocol!HeaderValue
    <2>1. /\ cb'.for = "header_value" /\ phase \in {"name", "value", "tname", "tvalue"}
          /\ phase' \in {"value", "tvalue", "over"} /\ (phase' # "over" => cb'.ret = 0)
      BY <1>4 DEF Protocol!HeaderValue, Protocol!Calls, Protocol!Then
    <2>2. SetHeaderValue(Slice, cb'.ret)
      BY <2>1 DEF Respond
    <2>3. res.concat_header_field \/ res.concat_header_value
      BY <2>1 DEF RInv, Linked
    <2>4. /\ ResInv(res')
          /\ cb'.ret = 0 => /\ ~res'.concat_header_field /\ res'.concat_header_value
                            /\ Continuable(res')
      BY <1>1, <2>2, <2>3, SetHeaderValueHandled
    <2> QED
      BY <2>1, <2>4 DEF Linked, Continuable
  <1>5. ASSUME ResInv(res'), SameHeaders, phase # "over",
               phase \notin {"name", "tname"} /\ phase' \notin {"name", "tname", "value", "tvalue"}
        PROVE  Linked'
    <2>1. Continuable(res')
      BY <1>1, <1>5, SameHeadersInv DEF RInv, Linked
    <2> QED
      BY <1>5, <2>1 DEF RInv, Linked, SameHeaders, Continuable
  <1>6. CASE Protocol!Body
    <2>1. /\ cb'.for = "body" /\ cb'.n > 0 /\ phase \in {"body", "chunk", "close"}
          /\ phase' \in {"body", "chunk", "close", "done", "over"}
      BY <1>6 DEF Protocol!Body, Protocol!Calls, Protocol!Then
    <2>2. BodyCallback
      BY <2>1 DEF Respond
    <2>3. ResInv(res') /\ SameHeaders
      BY <1>1, <2>1, <2>2, BodyCallbackHandled
    <2> QED
      BY <1>5, <2>1, <2>3
  <1>7. CASE Protocol!Status
    <2>1. cb'.for = "status" /\ phase \in {"begun", "status"} /\ phase' \in {"status", "over"}
      BY <1>7 DEF Protocol!Status, Protocol!Calls, Protocol!Then
    <2>2. ResInv(res') /\ SameHeaders
      BY <1>1, <2>1, SetStatusHandled DEF Respond
    <2> QED
      BY <1>5, <2>1, <2>2
  <1>8. CASE Protocol!HeadersComplete
    <2>1. /\ cb'.for = "headers_complete" /\ phase \in {"begun", "status", "value"}
          /\ phase' \in {"body", "close", "chunks", "done", "over"}
      BY <1>8 DEF Protocol!HeadersComplete, Protocol!Calls
    <2>2. ResInv(res') /\ SameHeaders
      BY <1>1, <2>1, SetHeadersCompleteHandled DEF Respond
    <2> QED
      BY <1>5, <2>1, <2>2
  <1>9. CASE Protocol!MessageBegin \/ Protocol!ChunkHeader \/ Protocol!ChunkComplete
             \/ Protocol!MessageComplete
    <2>1. /\ cb'.for \in {"message_begin", "chunk_header", "chunk_complete", "message_complete"}
          /\ phase \notin {"over", "name", "tname"}
          /\ phase' \in {"begun", "chunk", "trailers", "chunks", "done", "idle", "over"}
      BY <1>9 DEF Protocol!MessageBegin, Protocol!ChunkHeader, Protocol!ChunkComplete,
         Protocol!MessageComplete, Protocol!Calls, Protocol!Then
    <2>2. PlainCallback
      BY <2>1 DEF Respond
    <2>3. ResInv(res') /\ SameHeaders
      BY <1>1, <2>2, PlainHandled
    <2> QED
      BY <1>5, <2>1, <2>3
  <1> QED
    BY <1>2, <1>3, <1>4, <1>6, <1>7, <1>8, <1>9
       DEF Protocol!Next, Protocol!Quiet, Protocol!Fail

LEMMA RInitInv ==
    ASSUME RInit PROVE RInv
  <1>1. PInv /\ phase = "idle"
    BY PInitImplements DEF RInit, Protocol!Init
  <1>2. res \in response_parser_init
    BY DEF RInit
  <1>3. ResInv(res) /\ Linked
    BY <1>1, <1>2, FreshResponse DEF Linked
  <1>4. DataOK
    BY MaxLenAssumption DEF RInit, DataOK
  <1> QED
    BY <1>1, <1>3, <1>4, BodyCbAssumption DEF RInit, RInv

\* A step of the engine with what the callback's handler does, whenever it is taken: the
\* bounds of Parse left out
Handled ==
    /\ ~freed /\ ~res.null
    /\ EngineStep
    /\ Respond
    /\ History
    /\ UNCHANGED <<body_cb, freed>>

RStep == Handled \/ Free \/ UNCHANGED rvars

LEMMA StepsHandled == [RNext]_rvars => RStep
  <1>1. Parse => Handled
    BY DEF Parse, Handled, EngineStep
  <1> QED
    BY <1>1 DEF RNext, RStep, Ended

LEMMA RNextInv ==
    ASSUME RInv, RStep PROVE RInv'
  <1>1. CASE Handled
    <2>1. EngineStep /\ last' = (IF cb' = NoCb THEN last ELSE cb'.for) /\ Respond /\ Read
          /\ body_cb' = body_cb
      BY <1>1 DEF Handled, History
    <2>2. PInv' /\ Protocol!Next
      BY <2>1, EngineImplements DEF RInv, EngineStep
    <2> QED
      BY <2>1, <2>2, RespondHandled, ReadType DEF RInv
  <1>2. ASSUME UNCHANGED pvars PROVE PInv' /\ phase' = phase
    <2>1. PInv'
      BY <1>2, PNextImplements DEF RInv
    <2>2. parser' = parser /\ last' = last /\ eof' = eof
      BY <1>2 DEF pvars, vars
    <2> QED
      BY <2>1, <2>2, Mapping
  <1>3. CASE Free
    <2>1. PInv' /\ phase' = phase /\ ResInv(res') /\ SameHeaders
      BY <1>2, <1>3, FreedHandled DEF Free, RInv
    <2>2. Linked'
      BY <2>1, SameHeadersInv DEF RInv, Linked, SameHeaders, Continuable
    <2> QED
      BY <1>3, <2>1, <2>2 DEF Free, RInv, DataOK
  <1>4. CASE UNCHANGED rvars
    BY <1>2, <1>4 DEF rvars, RInv, DataOK, Linked, Continuable, ResInv, Shape, MemoryInv
  <1> QED
    BY <1>1, <1>3, <1>4 DEF RStep

-----------------------------------------------------------------------------
(* The bytes of a body *)

BodyReading == {"s_body_identity", "s_body_identity_eof", "s_chunk_data"}

\* Body bytes passed and not delivered in call c, those passed by a step, and delivered
Pending(c) == IF c.mark["body"] = 0 THEN 0 ELSE c.pos + 1 - c.mark["body"]

Passed ==
    IF call.active /\ call.cur # NoByte /\ parser.state \in BodyReading
    THEN IF parser.state = "s_body_identity_eof" THEN call.len - call.pos ELSE ToRead
    ELSE 0

Delivery == IF cb'.for = "body" THEN cb'.n ELSE 0

\* The calls that the macros make of a call
CallLike == [active : BOOLEAN, len : Nat, pos : Nat, cur : Lexeme \cup {NoByte},
             mark : [DataCb -> Nat], run : Nat]

LEMMA CallLikes ==
    ASSUME Within
    PROVE  /\ call \in CallLike /\ NextByte \in CallLike /\ NoCall \in CallLike
           /\ NextByte = [call EXCEPT !.pos = call.pos + 1, !.cur = NoByte, !.run = 0]
           /\ NextByte.mark = call.mark /\ NextByte.pos = call.pos + 1
           /\ NoCall.mark["body"] = 0
  <1>1. call \in CallLike
    <2>1. call \in Call
      BY WithinFacts
    <2>2. 0..MaxLen \subseteq Nat
      BY MaxLenAssumption
    <2> QED
      BY <2>1, <2>2 DEF Call, CallLike
  <1>2. NextByte = [call EXCEPT !.pos = call.pos + 1, !.cur = NoByte, !.run = 0]
    BY DEF NextByte
  <1>3. NextByte \in CallLike /\ NextByte.mark = call.mark /\ NextByte.pos = call.pos + 1
    <2> DEFINE k == call.pos + 1
    <2>1. k \in Nat /\ NextByte = [call EXCEPT !.pos = k, !.cur = NoByte, !.run = 0]
      BY <1>1, <1>2 DEF CallLike
    <2> HIDE DEF k
    <2>2. NextByte \in CallLike /\ NextByte.mark = call.mark /\ NextByte.pos = k
      BY <1>1, <2>1 DEF CallLike
    <2> QED
      BY <2>2 DEF k
  <1>4. NoCall \in CallLike /\ NoCall.mark["body"] = 0
    BY DEF NoCall, NoMark, CallLike, DataCb
  <1> QED
    BY <1>1, <1>2, <1>3, <1>4

LEMMA MarkedLike ==
    ASSUME NEW c \in CallLike, NEW f \in DataCb, call.pos \in Nat
    PROVE  /\ Marked(c, f) \in CallLike
           /\ Marked(c, f) = [c EXCEPT !.mark = Marked(c, f).mark]
           /\ Marked(c, f).mark[f] = IF c.mark[f] = 0 THEN call.pos + 1 ELSE c.mark[f]
           /\ \A g \in DataCb : g # f => Marked(c, f).mark[g] = c.mark[g]
           /\ Marked(c, f).pos = c.pos /\ Marked(c, f).cur = c.cur /\ Marked(c, f).run = c.run
  <1> DEFINE m == [c.mark EXCEPT ![f] = IF c.mark[f] = 0 THEN call.pos + 1 ELSE c.mark[f]]
  <1>1. m \in [DataCb -> Nat]
    BY DEF CallLike
  <1>2. /\ m[f] = IF c.mark[f] = 0 THEN call.pos + 1 ELSE c.mark[f]
        /\ \A g \in DataCb : g # f => m[g] = c.mark[g]
    BY DEF CallLike
  <1>3. Marked(c, f) = [c EXCEPT !.mark = m]
    BY DEF Marked, CallLike
  <1> HIDE DEF m
  <1> QED
    BY <1>1, <1>2, <1>3 DEF CallLike

\* No body byte is delivered, and the mark of a body stays or goes.
NoBodyMark == call'.mark["body"] \in {0, call.mark["body"]} /\ cb'.for # "body"

LEMMA ContinueNoMark ==
    ASSUME Within, cb'.for # "body", NEW p, NEW c, NEW er, Continue(p, c, er),
           c.mark["body"] \in {0, call.mark["body"]}
    PROVE  NoBodyMark
  <1>1. call' \in {c, NoCall}
    BY DEF Continue, Return
  <1> QED
    BY <1>1, CallLikes DEF NoBodyMark

LEMMA StepNoMark ==
    ASSUME Within, NEW p, Step(p) \/ Reexecute(p) PROVE NoBodyMark
  <1>1. cb'.for # "body"
    BY DEF Step, Reexecute, NoCb
  <1>2. \/ Continue(p, NextByte, call.pos)
        \/ Continue(p, call, call.pos)
    BY DEF Step, Reexecute
  <1> QED
    BY <1>1, <1>2, CallLikes, ContinueNoMark

LEMMA NotifyNoMark ==
    ASSUME Within, NEW f \in NotifyCb, NEW p, NEW er, NEW c \in {call, NextByte},
           Notify(f, p, c, er)
    PROVE  NoBodyMark
  <1>1. PICK ret \in CbRet :
           /\ cb' = [for |-> f, at |-> 0, n |-> 0, ret |-> ret]
           /\ Continue(Called(p, p, ret), c, er)
    BY DEF Notify
  <1>2. cb'.for # "body"
    BY <1>1 DEF NotifyCb
  <1> QED
    BY <1>1, <1>2, CallLikes, ContinueNoMark

LEMMA DataNoMark ==
    ASSUME Within, NEW f \in DataCb, f # "body", NEW n, NEW p, NEW er, NEW q, NEW eq,
           NEW c \in CallLike, c.mark["body"] = call.mark["body"], DataThen(f, n, p, er, q, eq, c)
    PROVE  NoBodyMark
  <1>1. CASE c.mark[f] = 0
    <2>1. cb'.for # "body" /\ Continue(q, c, eq)
      BY <1>1 DEF DataThen, NoCb
    <2> QED
      BY <2>1, ContinueNoMark
  <1>2. CASE c.mark[f] # 0
    <2>1. PICK ret \in CbRet :
             /\ cb' = [for |-> f, at |-> c.mark[f] - 1, n |-> n, ret |-> ret]
             /\ Continue(Called(p, q, ret), [c EXCEPT !.mark[f] = 0],
                         IF ret = 0 THEN eq ELSE er)
      BY <1>2 DEF DataThen
    <2>2. cb'.for # "body"
      BY <2>1
    <2>3. [c EXCEPT !.mark[f] = 0].mark["body"] = call.mark["body"]
      BY DEF CallLike, DataCb
    <2> QED
      BY <2>1, <2>2, <2>3, ContinueNoMark
  <1> QED
    BY <1>1, <1>2

LEMMA MarkedNotBody ==
    ASSUME Within
    PROVE  /\ Marked(NextByte, "status").mark["body"] = call.mark["body"]
           /\ Marked(NextByte, "header_field").mark["body"] = call.mark["body"]
           /\ Marked(NextByte, "header_value").mark["body"] = call.mark["body"]
           /\ Marked(call, "header_value").mark["body"] = call.mark["body"]
           /\ Marked(call, "header_value") \in CallLike
  <1>1. call \in CallLike /\ NextByte \in CallLike /\ NextByte.mark = call.mark /\ call.pos \in Nat
    BY CallLikes DEF CallLike
  <1>2. ASSUME NEW c \in CallLike, c.mark = call.mark,
               NEW f \in {"status", "header_field", "header_value"}
        PROVE  Marked(c, f).mark["body"] = call.mark["body"] /\ Marked(c, f) \in CallLike
    <2>1. f \in DataCb /\ "body" \in DataCb /\ f # "body"
      BY DEF DataCb
    <2>2. \A g \in DataCb : g # f => Marked(c, f).mark[g] = c.mark[g]
      BY <1>1, <2>1, MarkedLike
    <2>3. Marked(c, f) \in CallLike
      BY <1>1, <2>1, MarkedLike
    <2> QED
      BY <1>2, <2>1, <2>2, <2>3
  <1> QED
    BY <1>1, <1>2

LEMMA HeadNoMark ==
    ASSUME Within,
           \/ Dead \/ StartRes \/ Version \/ FirstStatusCode \/ StatusCode
           \/ StatusStart \/ Status \/ ResLineAlmostDone
           \/ HeaderFieldStart \/ HeaderField
    PROVE  NoBodyMark
  <1>1. /\ call \in CallLike /\ NextByte \in CallLike /\ NextByte.mark = call.mark
        /\ call.pos \in Nat /\ NoCb.for # "body"
        /\ {"message_begin"} \subseteq NotifyCb
        /\ {"status", "header_field"} \subseteq DataCb /\ "body" \in DataCb
    BY CallLikes DEF CallLike, NotifyCb, DataCb, NoCb
  <1>2. /\ Marked(NextByte, "status").mark["body"] = call.mark["body"]
        /\ Marked(NextByte, "header_field").mark["body"] = call.mark["body"]
    BY MarkedNotBody
  <1>3. CASE Dead \/ Version \/ FirstStatusCode \/ StatusCode \/ ResLineAlmostDone
    BY <1>3, StepNoMark DEF Dead, Version, FirstStatusCode, StatusCode, ResLineAlmostDone
  <1>4. CASE StartRes
    BY <1>1, <1>4, StepNoMark, NotifyNoMark DEF StartRes
  <1>5. CASE StatusStart
    BY <1>1, <1>2, <1>5, StepNoMark, ContinueNoMark DEF StatusStart
  <1>6. CASE Status
    BY <1>1, <1>6, StepNoMark, DataNoMark DEF Status, Data
  <1>7. CASE HeaderFieldStart
    BY <1>1, <1>2, <1>7, StepNoMark, ContinueNoMark DEF HeaderFieldStart
  <1>8. CASE HeaderField
    <2>1. [NextByte EXCEPT !.run = call.run + 1].mark = call.mark
      BY <1>1 DEF CallLike
    <2> QED
      BY <1>1, <1>8, <2>1, StepNoMark, ContinueNoMark, DataNoMark DEF HeaderField, Data
  <1> QED
    BY <1>3, <1>4, <1>5, <1>6, <1>7, <1>8

LEMMA ValueNoMark ==
    ASSUME Within,
           \/ HeaderValueDiscardWs \/ HeaderValueStart
           \/ HeaderValueCR \/ HeaderValueLF \/ HeaderValueByte \/ HeaderValueSkip
           \/ HeaderAlmostDone \/ HeaderValueLws \/ HeaderValueDiscardWsAlmostDone
           \/ HeaderValueDiscardLws
    PROVE  NoBodyMark
  <1>1. /\ call \in CallLike /\ NextByte \in CallLike /\ NextByte.mark = call.mark
        /\ call.pos \in Nat /\ NoCb.for # "body" /\ "header_value" \in DataCb
    BY CallLikes DEF CallLike, DataCb, NoCb
  <1>2. /\ Marked(NextByte, "header_value").mark["body"] = call.mark["body"]
        /\ Marked(call, "header_value").mark["body"] = call.mark["body"]
        /\ Marked(call, "header_value") \in CallLike
    BY MarkedNotBody
  <1>3. ASSUME StartValue PROVE NoBodyMark
    BY <1>1, <1>2, <1>3, ContinueNoMark DEF StartValue
  <1>4. CASE \/ HeaderValueDiscardWs \/ HeaderValueStart \/ HeaderAlmostDone \/ HeaderValueLws
             \/ HeaderValueDiscardWsAlmostDone
    BY <1>3, <1>4, StepNoMark DEF HeaderValueDiscardWs, HeaderValueStart, HeaderAlmostDone,
       HeaderValueLws, HeaderValueDiscardWsAlmostDone
  <1>5. CASE HeaderValueCR
    BY <1>1, <1>5, DataNoMark DEF HeaderValueCR
  <1>6. CASE HeaderValueLF
    <2> DEFINE p == Count(Move(parser, "s_header_almost_done"), call.run)
               c == [call EXCEPT !.run = 0]
    <2>1. c \in CallLike /\ c.mark = call.mark
      BY <1>1 DEF CallLike
    <2>2. CASE p.http_errno # "HPE_OK"
      <3>1. cb' = NoCb /\ call' = NoCall
        BY <1>6, <2>2 DEF HeaderValueLF, Return
      <3> QED
        BY <1>1, <3>1, CallLikes DEF NoBodyMark
    <2>3. CASE p.http_errno = "HPE_OK"
      <3>1. DataThen("header_value", Length("header_value", call), p, call.pos, p, call.pos, c)
        BY <1>6, <2>3 DEF HeaderValueLF, Data
      <3> HIDE DEF p, c
      <3> QED
        BY <1>1, <2>1, <3>1, DataNoMark
    <2> QED
      BY <2>2, <2>3
  <1>7. CASE HeaderValueByte
    <2>1. [NextByte EXCEPT !.run = call.run + 1].mark = call.mark
      BY <1>1 DEF CallLike
    <2> QED
      BY <1>1, <1>7, <2>1, ContinueNoMark DEF HeaderValueByte
  <1>8. CASE HeaderValueSkip
    <2> DEFINE Skip(k, ch) == [call EXCEPT !.pos = @ + k, !.run = @ + k, !.cur = ch]
    <2>1. cb' = NoCb
      BY <1>8 DEF HeaderValueSkip
    <2>2. ASSUME NEW k, NEW ch, Continue(parser, Skip(k, ch), call.pos) PROVE NoBodyMark
      <3>1. Skip(k, ch).mark = call.mark
        BY <1>1 DEF CallLike
      <3> QED
        BY <1>1, <2>1, <2>2, <3>1, ContinueNoMark
    <2>3. \E k, ch : Continue(parser, Skip(k, ch), call.pos)
      BY <1>8 DEF HeaderValueSkip
    <2> HIDE DEF Skip
    <2> QED
      BY <2>2, <2>3
  <1>9. CASE HeaderValueDiscardLws
    BY <1>1, <1>2, <1>9, StepNoMark, DataNoMark DEF HeaderValueDiscardLws, Data
  <1> QED
    BY <1>4, <1>5, <1>6, <1>7, <1>8, <1>9

LEMMA EndNoMark ==
    ASSUME Within,
           \/ HeadersAlmostDone \/ HeadersDone \/ MessageDone \/ ChunkSizeStart \/ ChunkSize
           \/ ChunkParameters \/ ChunkSizeAlmostDone \/ ChunkDataDone
           \/ Fetch \/ LeaveInnerLoop
    PROVE  NoBodyMark
  <1>1. /\ call \in CallLike /\ NextByte.mark = call.mark /\ NoCall.mark["body"] = 0
        /\ NoCb.for # "body"
        /\ {"chunk_complete", "chunk_header"} \subseteq NotifyCb
    BY CallLikes DEF NotifyCb, NoCb
  <1>2. CASE ChunkSizeStart \/ ChunkSize \/ ChunkParameters \/ ChunkSizeAlmostDone \/ ChunkDataDone
    BY <1>1, <1>2, StepNoMark, NotifyNoMark
       DEF ChunkSizeStart, ChunkSize, ChunkParameters, ChunkSizeAlmostDone, ChunkDataDone
  <1>3. ASSUME NEW p, MessageComplete(p) PROVE NoBodyMark
    <2>1. PICK ret \in CbRet :
             /\ cb' = [for |-> "message_complete", at |-> 0, n |-> 0, ret |-> ret]
             /\ LET q == Called(NewMessage(p), NewMessage(p), ret)
                IN  IF p.upgrade THEN Return(q, call.pos + 1)
                    ELSE Continue(q, NextByte, call.pos + 1)
      BY <1>3 DEF MessageComplete
    <2>2. cb'.for # "body" /\ call' \in {NoCall, NextByte}
      BY <2>1 DEF Return, Continue
    <2> QED
      BY <1>1, <2>2 DEF NoBodyMark
  <1>4. ASSUME NEW p, HeadersComplete(p) PROVE NoBodyMark
    <2>1. cb'.for # "body" /\ call' \in {NoCall, call}
      BY <1>4 DEF HeadersComplete, Continue, Return
    <2> QED
      BY <1>1, <2>1 DEF NoBodyMark
  <1>5. CASE HeadersAlmostDone
    BY <1>1, <1>4, <1>5, StepNoMark, NotifyNoMark DEF HeadersAlmostDone
  <1>6. CASE HeadersDone
    BY <1>3, <1>6, StepNoMark DEF HeadersDone
  <1>7. CASE MessageDone
    BY <1>3, <1>7 DEF MessageDone
  <1>8. CASE Fetch
    <2>1. PICK ch \in Offered(parser) :
             Continue(IF call.run = 0 /\ ParsingHeader(parser.state)
                      THEN Count(parser, 1) ELSE parser,
                      [call EXCEPT !.cur = ch], call.pos)
      BY <1>8 DEF Fetch
    <2>2. [call EXCEPT !.cur = ch].mark = call.mark /\ cb'.for # "body"
      BY <1>1, <1>8 DEF CallLike, Fetch
    <2> QED
      BY <2>1, <2>2, ContinueNoMark
  <1>9. CASE LeaveInnerLoop
    <2>1. [call EXCEPT !.run = 0].mark = call.mark
      BY <1>1 DEF CallLike
    <2> QED
      BY <1>1, <1>9, <2>1, ContinueNoMark DEF LeaveInnerLoop
  <1> QED
    BY <1>2, <1>5, <1>6, <1>7, <1>8, <1>9

BodyMarked == {"s_body_identity", "s_body_identity_eof", "s_chunk_data",
               "s_chunk_data_almost_done"}

\* The bytes of a body passed by a step are delivered or pending.
PassedOn == Pending(call') + Delivery = Pending(call) + Passed

LEMMA PendingType ==
    ASSUME Within
    PROVE  /\ Pending(call) \in Nat /\ Pending(call) <= call.pos
           /\ call.mark["body"] \in Nat /\ call.pos \in Nat /\ call.len \in Nat
           /\ parser.state \notin BodyMarked => call.mark["body"] = 0
  <1>1. call \in CallLike /\ call.mark["body"] <= call.pos /\ MarkInv(parser, call)
    BY CallLikes, WithinFacts DEF StringOpen, Within
  <1>2. call.mark["body"] \in Nat /\ call.pos \in Nat /\ call.len \in Nat
    BY <1>1 DEF CallLike, DataCb
  <1>3. parser.state \notin BodyMarked => call.mark["body"] = 0
    BY <1>1, MarkStatesOf DEF MarkInv, DataCb, BodyMarked
  <1> QED
    BY <1>1, <1>2, <1>3 DEF Pending

LEMMA NothingPassed ==
    ASSUME Within, NoBodyMark, parser.state \notin BodyMarked PROVE PassedOn
  <1>1. Pending(call) = 0 /\ Pending(call') = 0 /\ Delivery = 0 /\ Passed = 0
    BY PendingType DEF NoBodyMark, Pending, Delivery, Passed, BodyMarked, BodyReading
  <1> QED
    BY <1>1 DEF PassedOn

LEMMA BodyIdentityPasses ==
    ASSUME Within, BodyIdentity, parser'.http_errno = "HPE_OK" PROVE PassedOn
  <1> DEFINE p == [parser EXCEPT !.content_length = parser.content_length - ToRead]
             k == call.pos + ToRead - 1
             a == Advance(ToRead)
             c == Marked(a, "body")
             d == [c EXCEPT !.pos = @ + 1, !.cur = NoByte]
             q == Move(p, "s_message_done")
             m == c.mark["body"]
  <1>1. /\ call.active /\ call.cur # NoByte /\ parser.state = "s_body_identity"
        /\ At("s_body_identity") /\ IInv /\ parser.http_errno = "HPE_OK" /\ "body" \in DataCb
        /\ call \in CallLike /\ call.mark["body"] \in Nat /\ call.pos \in Nat
        /\ call.mark["body"] <= call.pos
    BY WithinFacts, CallLikes, PendingType DEF BodyIdentity, At, Within, PInv, DataCb, StringOpen
  <1>2. /\ ToRead \in Nat /\ ToRead >= 1 /\ p \in Parser /\ p.http_errno = "HPE_OK"
    BY <1>1, ToReadInv
  <1>3. a \in CallLike /\ a.mark = call.mark /\ a.pos = k
    <2>1. k \in Nat /\ a = [call EXCEPT !.pos = k]
      BY <1>1, <1>2 DEF Advance
    <2> HIDE DEF k, a
    <2> QED
      BY <1>1, <2>1 DEF CallLike
  <1>4. q.http_errno = "HPE_OK"
    BY <1>2 DEF Move, Parser
  <1>5. Passed = ToRead
    BY <1>1 DEF Passed, BodyReading
  <1> HIDE DEF p, q, a
  <1>6. /\ c \in CallLike /\ c.pos = k
        /\ m = (IF call.mark["body"] = 0 THEN call.pos + 1 ELSE call.mark["body"])
    BY <1>1, <1>3, MarkedLike
  <1>7. d.pos = k + 1 /\ d.mark = c.mark
    BY <1>6 DEF CallLike
  <1> HIDE DEF c
  <1>8. m # 0 /\ m \in Nat
    BY <1>1, <1>6
  <1>9. CASE p.content_length = 0 /\ Data("body", c.pos + 2 - m, q, c.pos, c)
    <2>1. /\ cb'.for = "body" /\ cb'.n = c.pos + 2 - m
          /\ cb'.ret = 0 => call' = [c EXCEPT !.mark["body"] = 0]
          /\ cb'.ret # 0 => parser'.http_errno # "HPE_OK"
      BY <1>1, <1>4, <1>8, <1>9, Delivered DEF Data
    <2>2. call'.mark["body"] = 0
      BY <1>1, <1>6, <2>1 DEF CallLike
    <2> QED
      BY <1>1, <1>2, <1>5, <1>6, <2>1, <2>2 DEF PassedOn, Pending, Delivery
  <1>10. CASE cb' = NoCb /\ Continue(p, d, call.pos)
    <2> HIDE DEF d
    <2>1. call' = d /\ cb'.for # "body"
      BY <1>2, <1>10, Continued DEF NoCb
    <2> QED
      BY <1>1, <1>2, <1>5, <1>6, <1>7, <1>8, <2>1 DEF PassedOn, Pending, Delivery
  <1> QED
    BY <1>9, <1>10 DEF BodyIdentity, p, q, a, c, d

LEMMA BodyIdentityEofPasses ==
    ASSUME Within, BodyIdentityEof, parser'.http_errno = "HPE_OK" PROVE PassedOn
  <1> DEFINE c == Marked(call, "body")
             d == [c EXCEPT !.pos = call.len, !.cur = NoByte]
             m == c.mark["body"]
  <1>1. /\ call.active /\ call.cur # NoByte /\ parser.state = "s_body_identity_eof"
        /\ parser.http_errno = "HPE_OK" /\ "body" \in DataCb /\ cb'.for # "body"
        /\ call \in CallLike /\ call.mark["body"] \in Nat /\ call.pos \in Nat
        /\ call.mark["body"] <= call.pos /\ Continue(parser, d, call.pos) /\ call.len \in Nat
    BY WithinFacts, CallLikes, PendingType
       DEF BodyIdentityEof, At, Within, DataCb, StringOpen, NoCb
  <1>2. Passed = call.len - call.pos
    BY <1>1 DEF Passed, BodyReading
  <1>3. /\ c \in CallLike
        /\ m = (IF call.mark["body"] = 0 THEN call.pos + 1 ELSE call.mark["body"])
    BY <1>1, MarkedLike
  <1>4. d.pos = call.len /\ d.mark = c.mark
    BY <1>3 DEF CallLike
  <1> HIDE DEF c, d
  <1>5. call' = d
    BY <1>1, Continued
  <1> QED
    BY <1>1, <1>2, <1>3, <1>4, <1>5 DEF PassedOn, Pending, Delivery

LEMMA ChunkDataPasses ==
    ASSUME Within, ChunkData, parser'.http_errno = "HPE_OK" PROVE PassedOn
  <1> DEFINE p == [parser EXCEPT !.content_length = parser.content_length - ToRead]
             q == IF p.content_length = 0 THEN Move(p, "s_chunk_data_almost_done") ELSE p
             c == Marked(call, "body")
             d == [c EXCEPT !.pos = @ + ToRead, !.cur = NoByte]
             m == c.mark["body"]
  <1>1. /\ call.active /\ call.cur # NoByte /\ parser.state = "s_chunk_data"
        /\ At("s_chunk_data") /\ IInv /\ parser.http_errno = "HPE_OK" /\ "body" \in DataCb
        /\ call \in CallLike /\ call.mark["body"] \in Nat /\ call.pos \in Nat
        /\ call.mark["body"] <= call.pos /\ cb'.for # "body" /\ Continue(q, d, call.pos)
    BY WithinFacts, CallLikes, PendingType
       DEF ChunkData, At, Within, PInv, DataCb, StringOpen, NoCb
  <1>2. ToRead \in Nat /\ p \in Parser /\ p.http_errno = "HPE_OK"
    BY <1>1, ToReadInv
  <1> HIDE DEF p
  <1>3. q.http_errno = "HPE_OK"
    BY <1>2 DEF Move, Parser
  <1> HIDE DEF q
  <1>4. Passed = ToRead
    BY <1>1 DEF Passed, BodyReading
  <1>5. /\ c \in CallLike /\ c.pos = call.pos
        /\ m = (IF call.mark["body"] = 0 THEN call.pos + 1 ELSE call.mark["body"])
    BY <1>1, MarkedLike
  <1> HIDE DEF c
  <1>6. d.pos = call.pos + ToRead /\ d.mark = c.mark
    BY <1>5 DEF CallLike
  <1> HIDE DEF d
  <1>7. call' = d
    BY <1>1, <1>3, Continued
  <1> QED
    BY <1>1, <1>2, <1>4, <1>5, <1>6, <1>7 DEF PassedOn, Pending, Delivery, c

LEMMA ChunkDataAlmostDonePasses ==
    ASSUME Within, ChunkDataAlmostDone, parser'.http_errno = "HPE_OK" PROVE PassedOn
  <1> DEFINE q == Move(parser, "s_chunk_data_done")
  <1>1. /\ parser.state = "s_chunk_data_almost_done" /\ parser.http_errno = "HPE_OK"
        /\ "body" \in DataCb /\ NextByte \in CallLike /\ NextByte.mark = call.mark
        /\ call.mark["body"] \in Nat /\ call.pos \in Nat
    BY WithinFacts, CallLikes, PendingType DEF ChunkDataAlmostDone, At, DataCb
  <1>2. Passed = 0
    BY <1>1 DEF Passed, BodyReading
  <1>3. q.http_errno = "HPE_OK"
    BY <1>1, MoveFacts
  <1>4. ~Step(Error(parser, "HPE_STRICT"))
    <2>1. SUFFICES ASSUME Step(Error(parser, "HPE_STRICT")) PROVE FALSE
      OBVIOUS
    <2>2. parser' = Error(parser, "HPE_STRICT")
      BY <2>1, Stepped, WithinFacts DEF At, ChunkDataAlmostDone
    <2> QED
      BY <2>2, WithinFacts DEF Error, Parser
  <1>5. DataThen("body", Length("body", call), q, call.pos + 1, q, call.pos + 1, NextByte)
    BY <1>4 DEF ChunkDataAlmostDone, Data
  <1> HIDE DEF q
  <1> DEFINE c == NextByte
  <1>6. c \in CallLike /\ c.mark = call.mark
        /\ DataThen("body", Length("body", call), q, call.pos + 1, q, call.pos + 1, c)
    BY <1>1, <1>5
  <1> HIDE DEF c
  <1>7. CASE call.mark["body"] # 0
    <2>1. /\ cb'.for = "body" /\ cb'.n = Length("body", call)
          /\ cb'.ret = 0 => call' = [c EXCEPT !.mark["body"] = 0]
          /\ cb'.ret # 0 => parser'.http_errno # "HPE_OK"
      BY <1>1, <1>3, <1>6, <1>7, Delivered
    <2>2. call'.mark["body"] = 0
      BY <1>1, <1>6, <2>1 DEF CallLike
    <2> QED
      BY <1>1, <1>2, <1>7, <2>1, <2>2 DEF PassedOn, Pending, Delivery, Length
  <1>8. CASE call.mark["body"] = 0
    <2>1. cb'.for # "body" /\ call' = c
      BY <1>3, <1>6, <1>8, Continued DEF DataThen, NoCb
    <2> QED
      BY <1>2, <1>6, <1>8, <2>1 DEF PassedOn, Pending, Delivery
  <1> QED
    BY <1>7, <1>8

LEMMA EndOfBufferPasses ==
    ASSUME Within, EndOfBuffer, parser'.http_errno = "HPE_OK" PROVE PassedOn
  <1>1. /\ call \in CallLike /\ parser.http_errno = "HPE_OK" /\ call.mark["body"] \in Nat
        /\ call.pos \in Nat /\ "body" \in DataCb /\ MarkInv(parser, call)
    BY CallLikes, PendingType, WithinFacts DEF DataCb
  <1>2. Passed = 0
    BY DEF EndOfBuffer, Passed
  <1>3. ASSUME NEW f \in DataCb, call.mark[f] # 0, f # "body",
               Data(f, Length(f, call), parser, call.len, call)
        PROVE  PassedOn
    <2>1. NoBodyMark
      BY <1>1, <1>3, DataNoMark DEF Data
    <2>2. parser.state \notin BodyMarked
      BY <1>1, <1>3, MarkStatesOf DEF MarkInv, BodyMarked
    <2> QED
      BY <2>1, <2>2, NothingPassed
  <1>4. CASE call.mark["body"] # 0 /\ Data("body", Length("body", call), parser, call.len, call)
    <2>1. /\ cb'.for = "body" /\ cb'.n = Length("body", call)
          /\ cb'.ret = 0 => call' = [call EXCEPT !.mark["body"] = 0]
          /\ cb'.ret # 0 => parser'.http_errno # "HPE_OK"
      BY <1>1, <1>4, Delivered DEF Data
    <2>2. call'.mark["body"] = 0
      BY <1>1, <2>1 DEF CallLike
    <2> QED
      BY <1>1, <1>2, <1>4, <2>1, <2>2 DEF PassedOn, Pending, Delivery, Length
  <1>5. CASE call.mark = NoMark /\ cb' = NoCb /\ Return(parser, call.len)
    <2>1. call.mark["body"] = 0 /\ call'.mark["body"] = 0 /\ cb'.for # "body"
      BY <1>5, CallLikes DEF NoMark, DataCb, Return, NoCb
    <2> QED
      BY <1>2, <2>1 DEF PassedOn, Pending, Delivery
  <1> QED
    BY <1>3, <1>4, <1>5 DEF EndOfBuffer

LEMMA RunPasses ==
    ASSUME Within, Run, parser'.http_errno = "HPE_OK" PROVE PassedOn
  <1>1. CASE Fetch
    <2>1. /\ call \in CallLike /\ call.cur = NoByte /\ cb'.for # "body"
          /\ \E p, ch : Continue(p, [call EXCEPT !.cur = ch], call.pos)
      BY <1>1, CallLikes DEF Fetch, NoCb
    <2>2. ASSUME NEW p, NEW ch, Continue(p, [call EXCEPT !.cur = ch], call.pos)
          PROVE  call' = [call EXCEPT !.cur = ch]
      BY <2>2 DEF Continue, Return
    <2>3. \E ch : call' = [call EXCEPT !.cur = ch]
      BY <2>1, <2>2
    <2>4. call'.mark = call.mark /\ call'.pos = call.pos
      BY <2>1, <2>3 DEF CallLike
    <2> QED
      BY <2>1, <2>4 DEF PassedOn, Pending, Delivery, Passed
  <1>2. CASE LeaveInnerLoop
    <2>1. /\ call \in CallLike /\ call.cur = NoByte /\ cb'.for # "body"
          /\ call' = [call EXCEPT !.run = 0]
      BY <1>2, CallLikes DEF LeaveInnerLoop, NoCb, Continue, Return
    <2>2. call'.mark = call.mark /\ call'.pos = call.pos
      BY <2>1 DEF CallLike
    <2> QED
      BY <2>1, <2>2 DEF PassedOn, Pending, Delivery, Passed
  <1>3. CASE EndOfBuffer
    BY <1>3, EndOfBufferPasses
  <1>4. CASE Switch
    <2>1. CASE Dead \/ StartRes \/ Version \/ FirstStatusCode \/ StatusCode
               \/ StatusStart \/ Status \/ ResLineAlmostDone
               \/ HeaderFieldStart \/ HeaderField
      <3>1. parser.state \notin BodyMarked
        BY <2>1 DEF Dead, StartRes, Version, FirstStatusCode, StatusCode, StatusStart, Status,
           ResLineAlmostDone, HeaderFieldStart, HeaderField, At, BodyMarked
      <3> QED
        BY <2>1, <3>1, HeadNoMark, NothingPassed
    <2>2. CASE HeaderValueDiscardWs \/ HeaderValueStart
               \/ HeaderValueCR \/ HeaderValueLF \/ HeaderValueByte \/ HeaderValueSkip
               \/ HeaderAlmostDone \/ HeaderValueLws \/ HeaderValueDiscardWsAlmostDone
               \/ HeaderValueDiscardLws
      <3>1. parser.state \notin BodyMarked
        BY <2>2 DEF HeaderValueDiscardWs, HeaderValueStart, HeaderValueCR, HeaderValueLF,
           HeaderValueByte, HeaderValueSkip, HeaderAlmostDone, HeaderValueLws,
           HeaderValueDiscardWsAlmostDone, HeaderValueDiscardLws, InValue, At, BodyMarked
      <3> QED
        BY <2>2, <3>1, ValueNoMark, NothingPassed
    <2>3. CASE HeadersAlmostDone \/ HeadersDone \/ MessageDone \/ ChunkSizeStart \/ ChunkSize
               \/ ChunkParameters \/ ChunkSizeAlmostDone \/ ChunkDataDone
      <3>1. parser.state \notin BodyMarked
        BY <2>3 DEF HeadersAlmostDone, HeadersDone, MessageDone, ChunkSizeStart, ChunkSize,
           ChunkParameters, ChunkSizeAlmostDone, ChunkDataDone, At, BodyMarked
      <3> QED
        BY <2>3, <3>1, EndNoMark, NothingPassed
    <2>4. CASE BodyIdentity \/ BodyIdentityEof \/ ChunkData \/ ChunkDataAlmostDone
      BY <2>4, BodyIdentityPasses, BodyIdentityEofPasses, ChunkDataPasses,
         ChunkDataAlmostDonePasses
    <2> QED
      BY <1>4, <2>1, <2>2, <2>3, <2>4 DEF Switch
  <1> QED
    BY <1>1, <1>2, <1>3, <1>4 DEF Run

-----------------------------------------------------------------------------
(* What was sent *)

\* More of the last string.
LEMMA ExtendSeq ==
    ASSUME NEW s \in Seq(Seq(Lexeme)), NEW t \in Seq(Lexeme)
    PROVE  /\ Extend(s, t) \in Seq(Seq(Lexeme)) /\ Len(Extend(s, t)) = Len(s)
           /\ Len(s) > 0 => Extend(s, t)[Len(s)] = s[Len(s)] \o t
           /\ \A i \in 1..(Len(s) - 1) : Extend(s, t)[i] = s[i]
  <1> DEFINE n == Len(s)
             b == s[n] \o t
  <1>1. n \in Nat /\ Extend(s, t) = [s EXCEPT ![n] = b]
    BY DEF Extend
  <1>2. CASE n = 0
    <2>1. s = <<>>
      BY <1>2
    <2> HIDE DEF b
    <2>2. [s EXCEPT ![n] = b] = s
      <3>1. DOMAIN s = 1..0
        BY <2>1
      <3> QED
        BY <1>2, <2>1, <3>1
    <2>3. Extend(s, t) = s /\ ~(Len(s) > 0) /\ \A i : i \notin 1..(Len(s) - 1)
      BY <1>1, <1>2, <2>2, SMTT(30)
    <2> QED
      BY <2>3
  <1>3. CASE n > 0
    <2>1. b \in Seq(Lexeme)
      <3>1. s[n] \in Seq(Lexeme)
        BY <1>1, <1>3
      <3> QED
        BY <3>1
    <2> HIDE DEF b
    <2>2. /\ [s EXCEPT ![n] = b] \in Seq(Seq(Lexeme)) /\ Len([s EXCEPT ![n] = b]) = n
          /\ \A j \in 1..n : [s EXCEPT ![n] = b][j] = IF j = n THEN b ELSE s[j]
      BY <2>1, ExceptSeq
    <2>3. /\ Extend(s, t)[n] = b
          /\ \A i \in 1..(n - 1) : Extend(s, t)[i] = s[i]
      BY <1>1, <1>3, <2>2
    <2> QED
      BY <1>1, <2>2, <2>3 DEF b
  <1> QED
    BY <1>1, <1>2, <1>3

LEMMA ValueSentType ==
    ASSUME NEW w \in Wire, NEW t \in Seq(Lexeme)
    PROVE  ValueSent(w, t) \in Wire /\ ValueSent(w, t).body = w.body
  <1>1. w.values \in Seq(Seq(Lexeme))
    BY DEF Wire
  <1>2. CASE Len(w.values) < Len(w.names)
    <2> DEFINE v == Append(w.values, t)
    <2>1. v \in Seq(Seq(Lexeme)) /\ ValueSent(w, t) = [w EXCEPT !.values = v]
      BY <1>1, <1>2 DEF ValueSent
    <2> HIDE DEF v
    <2> QED
      BY <2>1 DEF Wire
  <1>3. CASE ~(Len(w.values) < Len(w.names))
    <2> DEFINE v == Extend(w.values, t)
    <2>1. v \in Seq(Seq(Lexeme)) /\ ValueSent(w, t) = [w EXCEPT !.values = v]
      BY <1>1, <1>3, ExtendSeq DEF ValueSent
    <2> HIDE DEF v
    <2> QED
      BY <2>1 DEF Wire
  <1> QED
    BY <1>2, <1>3

\* The byte under the switch, or the body, is added to what was sent.
LEMMA SentType ==
    ASSUME wire \in Wire, Within, call.cur # NoByte, call' \in Call
    PROVE  Sent \in Wire /\ Sent.body = wire.body + Passed /\ Sent.messages = wire.messages
  <1> DEFINE s == parser.state
             ch == call.cur
             t == <<ch>>
  <1>1. /\ ch \in Lexeme /\ t \in Seq(Lexeme) /\ call.active /\ parser \in Parser
        /\ call \in CallLike /\ call.pos <= call.len /\ wire.body \in Nat
        /\ call'.run \in Int /\ call.run \in Int
        /\ wire.status \in Seq(Lexeme) /\ wire.names \in Seq(Seq(Lexeme))
    <2>1. call \in CallLike /\ Offsets(call) /\ parser \in Parser
      BY CallLikes, WithinFacts
    <2>2. ch \in Lexeme
      BY <2>1 DEF CallLike
    <2>3. call'.run \in Int
      BY MaxLenAssumption DEF Call
    <2> QED
      BY <2>1, <2>2, <2>3 DEF CallLike, Offsets, Wire, Within
  <1>2. CASE s \in {"s_res_status_start", "s_res_status"}
    <2> DEFINE x == wire.status \o t
    <2>0. x \in Seq(Lexeme)
      BY <1>1
    <2>1. Sent = [wire EXCEPT !.status = x] \/ Sent = wire
      <3>1. CASE ch.c \in {"CR", "LF"}
        BY <1>2, <3>1 DEF Sent
      <3>2. CASE ch.c \notin {"CR", "LF"}
        BY <1>2, <3>2 DEF Sent
      <3> QED
        BY <3>1, <3>2
    <2> HIDE DEF x
    <2>2. Passed = 0
      BY <1>2 DEF Passed, BodyReading
    <2> DEFINE w == [wire EXCEPT !.status = x]
    <2>3. w \in Wire /\ w.body = wire.body /\ w.messages = wire.messages
      BY <2>0 DEF Wire
    <2>4. Sent = w \/ Sent = wire
      BY <2>1
    <2> HIDE DEF w
    <2> QED
      BY <1>1, <2>2, <2>3, <2>4
  <1>3. CASE s = "s_header_field_start"
    <2> DEFINE x == Append(wire.names, t)
    <2>0. x \in Seq(Seq(Lexeme))
      BY <1>1
    <2>1. Sent = [wire EXCEPT !.names = x] \/ Sent = wire
      <3>1. CASE Token(ch)
        BY <1>3, <3>1 DEF Sent
      <3>2. CASE ~Token(ch)
        BY <1>3, <3>2 DEF Sent
      <3> QED
        BY <3>1, <3>2
    <2> HIDE DEF x
    <2>2. Passed = 0
      BY <1>3 DEF Passed, BodyReading
    <2> DEFINE w == [wire EXCEPT !.names = x]
    <2>3. w \in Wire /\ w.body = wire.body /\ w.messages = wire.messages
      BY <2>0 DEF Wire
    <2>4. Sent = w \/ Sent = wire
      BY <2>1
    <2> HIDE DEF w
    <2> QED
      BY <1>1, <2>2, <2>3, <2>4
  <1>4. CASE s = "s_header_field"
    <2> DEFINE x == Extend(wire.names, t)
    <2>0. x \in Seq(Seq(Lexeme))
      BY <1>1, ExtendSeq
    <2>1. Sent = [wire EXCEPT !.names = x] \/ Sent = wire
      <3>1. CASE Token(ch)
        BY <1>4, <3>1 DEF Sent
      <3>2. CASE ~Token(ch)
        BY <1>4, <3>2 DEF Sent
      <3> QED
        BY <3>1, <3>2
    <2> HIDE DEF x
    <2>2. Passed = 0
      BY <1>4 DEF Passed, BodyReading
    <2> DEFINE w == [wire EXCEPT !.names = x]
    <2>3. w \in Wire /\ w.body = wire.body /\ w.messages = wire.messages
      BY <2>0 DEF Wire
    <2>4. Sent = w \/ Sent = wire
      BY <2>1
    <2> HIDE DEF w
    <2> QED
      BY <1>1, <2>2, <2>3, <2>4
  <1>5. CASE s \in {"s_header_value_discard_ws", "s_header_value_start", "s_header_value",
                    "s_header_value_discard_lws"}
    <2> DEFINE k == call'.run - call.run - 1
               r == [i \in 1..k |-> Any]
    <2>1. r \in Seq(Lexeme)
      <3>1. Any \in Lexeme
        BY DEF Any, Lexeme, Class
      <3>2. k \in Int
        BY <1>1
      <3> HIDE DEF k
      <3>3. CASE k >= 0
        BY <3>1, <3>2, <3>3
      <3>4. CASE k < 0
        <4>1. 1..k = {}
          BY <3>2, <3>4
        <4>2. r = <<>>
          BY <4>1
        <4> HIDE DEF r
        <4> QED
          BY <4>2
      <3> QED
        BY <3>2, <3>3, <3>4
    <2> HIDE DEF r
    <2>2. t \o r \in Seq(Lexeme) /\ <<>> \in Seq(Lexeme)
      BY <1>1, <2>1
    <2>3. Sent \in {wire, ValueSent(wire, t), ValueSent(wire, t \o r), ValueSent(wire, <<>>),
                   Folded(wire, t)}
      BY <1>5 DEF Sent, r
    <2>4. /\ ValueSent(wire, t) \in Wire /\ ValueSent(wire, t).body = wire.body
          /\ ValueSent(wire, t \o r) \in Wire /\ ValueSent(wire, t \o r).body = wire.body
          /\ ValueSent(wire, <<>>) \in Wire /\ ValueSent(wire, <<>>).body = wire.body
      BY <1>1, <2>2, ValueSentType
    <2>5. \A x : ValueSent(wire, x).messages = wire.messages
      BY DEF ValueSent, Wire
    <2>6. Passed = 0
      BY <1>5 DEF Passed, BodyReading
    <2>7. /\ Folded(wire, t) \in Wire /\ Folded(wire, t).body = wire.body
          /\ Folded(wire, t).messages = wire.messages
      <3> DEFINE w == ValueSent(wire, t)
                 f == w.folds \cup {wire.values}
      <3>1. w \in Wire /\ w.body = wire.body /\ w.messages = wire.messages
        BY <2>4, <2>5
      <3>2. f \in SUBSET Seq(Seq(Lexeme))
        BY <3>1 DEF Wire
      <3>3. Folded(wire, t) = [w EXCEPT !.folds = f]
        BY DEF Folded
      <3> HIDE DEF w, f
      <3> QED
        BY <3>1, <3>2, <3>3 DEF Wire
    <2> QED
      BY <1>1, <2>3, <2>4, <2>5, <2>6, <2>7
  <1>6. CASE s \in BodyReading
    <2> DEFINE x == wire.body + Passed
    <2>1. x \in Nat
      <3>1. parser.content_length \in Nat /\ call.len \in Nat /\ call.pos \in Nat
        BY <1>1 DEF Parser, CallLike
      <3>2. ToRead \in Nat /\ call.len - call.pos \in Nat
        BY <1>1, <3>1 DEF ToRead, Lesser
      <3> QED
        BY <1>1, <3>2 DEF Passed
    <2>2. Sent = [wire EXCEPT !.body = x]
      <3>1. CASE s = "s_body_identity_eof"
        <4>1. x = wire.body + call.len - call.pos
          BY <1>1, <3>1 DEF Passed, BodyReading, CallLike
        <4>2. Sent = [wire EXCEPT !.body = @ + call.len - call.pos]
          BY <3>1 DEF Sent
        <4> QED
          BY <4>1, <4>2
      <3>2. CASE s \in {"s_body_identity", "s_chunk_data"}
        BY <1>1, <3>2 DEF Sent, Passed, BodyReading
      <3> QED
        BY <1>6, <3>1, <3>2 DEF BodyReading
    <2> HIDE DEF x
    <2>3. Sent \in Wire /\ Sent.body = x /\ Sent.messages = wire.messages
      BY <2>1, <2>2 DEF Wire
    <2> QED
      BY <2>3 DEF x
  <1>7. CASE s \notin {"s_res_status_start", "s_res_status", "s_header_field_start",
                       "s_header_field", "s_header_value_discard_ws", "s_header_value_start",
                       "s_header_value", "s_header_value_discard_lws", "s_body_identity",
                       "s_body_identity_eof", "s_chunk_data"}
    <2>1. Sent = wire
      BY <1>7 DEF Sent
    <2> QED
      BY <1>1, <1>7, <2>1 DEF Passed, BodyReading
  <1> QED
    BY <1>2, <1>3, <1>4, <1>5, <1>6, <1>7 DEF BodyReading

\* Where the parser has no error, the message is not over.
LEMMA NotOver ==
    ASSUME parser'.http_errno = "HPE_OK", parser' \in Parser PROVE phase' # "over"
  <1>1. phase' = PhaseFor(parser', last', eof')
    BY Mapping
  <1>2. \A s : PhaseOf(s) # "over" \/ s \notin
             {"s_body_identity", "s_body_identity_eof", "s_chunk_size_start", "s_chunk_size",
              "s_chunk_parameters", "s_chunk_size_almost_done", "s_chunk_data",
              "s_chunk_data_almost_done", "s_chunk_data_done", "s_message_done", "none"}
    BY DEF PhaseOf
  <1>3. BodyState(parser') \in {"s_body_identity", "s_body_identity_eof", "s_chunk_size_start",
                                "s_message_done", "none"}
    BY DEF BodyState
  <1>4. HeadPhaseOf(last') # "over" /\ TrailerPhaseOf(last') # "over"
    BY DEF HeadPhaseOf, TrailerPhaseOf
  <1> QED
    BY <1>1, <1>2, <1>3, <1>4 DEF PhaseFor, BodyStates

SameCounts ==
    /\ res'.body_length = res.body_length /\ res'.body_offset = res.body_offset
    /\ res'.body = res.body /\ passed' = passed

\* Every handler but the one of the body leaves its counters alone.
LEMMA RespondCounts ==
    ASSUME RInv, PInv', Protocol!Next, Respond, parser'.http_errno = "HPE_OK"
    PROVE  IF cb'.for = "body" THEN BodyAdded(cb'.n, 0) /\ cb'.n \in Nat ELSE SameCounts
  <1>1. /\ cb' \in CallbackRecord /\ cb'.n \in Nat /\ parser'.status_code \in Nat
        /\ Slice \in Seq(Lexeme) /\ ResInv(res) /\ parser' \in Parser
    <2>1. cb' \in CallbackRecord /\ parser' \in Parser
      BY DEF PInv, IInv, StateInv, ParserInv
    <2> QED
      BY <2>1, SliceType DEF RInv, CallbackRecord, Parser
  <1>2. phase' # "over"
    BY <1>1, NotOver
  <1>3. CASE cb' = NoCb
    BY <1>3 DEF Respond, NoCb, SameCounts
  <1>4. CASE Protocol!HeaderField
    <2>1. cb'.for = "header_field"
      BY <1>4 DEF Protocol!HeaderField, Protocol!Calls
    <2>2. SameBody /\ passed' = passed
      BY <1>1, <2>1, SetHeaderFieldHandled DEF Respond
    <2> QED
      BY <2>1, <2>2 DEF SameBody, SameCounts
  <1>5. CASE Protocol!HeaderValue
    <2>1. cb'.for = "header_value" /\ phase \in {"name", "value", "tname", "tvalue"}
      BY <1>5 DEF Protocol!HeaderValue, Protocol!Calls
    <2>2. res.concat_header_field \/ res.concat_header_value
      BY <2>1 DEF RInv, Linked
    <2>3. SameBody /\ passed' = passed
      BY <1>1, <2>1, <2>2, SetHeaderValueHandled DEF Respond
    <2> QED
      BY <2>1, <2>3 DEF SameBody, SameCounts
  <1>6. CASE Protocol!Body
    <2>1. cb'.for = "body" /\ cb'.n > 0 /\ cb'.ret = 0
      BY <1>2, <1>6 DEF Protocol!Body, Protocol!Calls, Protocol!Then
    <2>2. BodyCallback
      BY <2>1 DEF Respond
    <2> QED
      BY <1>1, <2>1, <2>2, BodyCallbackHandled
  <1>7. CASE Protocol!Status
    <2>1. cb'.for = "status"
      BY <1>7 DEF Protocol!Status, Protocol!Calls
    <2>2. SameBody /\ passed' = passed
      BY <1>1, <2>1, SetStatusHandled DEF Respond
    <2> QED
      BY <2>1, <2>2 DEF SameBody, SameCounts
  <1>8. CASE Protocol!HeadersComplete
    <2>1. cb'.for = "headers_complete"
      BY <1>8 DEF Protocol!HeadersComplete, Protocol!Calls
    <2>2. SameBody /\ passed' = passed
      BY <1>1, <2>1, SetHeadersCompleteHandled DEF Respond
    <2> QED
      BY <2>1, <2>2 DEF SameBody, SameCounts
  <1>9. CASE Protocol!MessageBegin \/ Protocol!ChunkHeader \/ Protocol!ChunkComplete
             \/ Protocol!MessageComplete
    <2>1. cb'.for \in {"message_begin", "chunk_header", "chunk_complete", "message_complete"}
      BY <1>9 DEF Protocol!MessageBegin, Protocol!ChunkHeader, Protocol!ChunkComplete,
         Protocol!MessageComplete, Protocol!Calls
    <2>2. PlainCallback /\ passed' = passed
      BY <2>1 DEF Respond
    <2> QED
      BY <1>1, <2>1, <2>2, PlainHandled DEF SameCounts, BlockKept
  <1> QED
    BY <1>3, <1>4, <1>5, <1>6, <1>7, <1>8, <1>9
       DEF Protocol!Next, Protocol!Quiet, Protocol!Fail

LEMMA PendingNat ==
    ASSUME NEW p, NEW c, StateInv(p, c), StringOpen(p, c)
    PROVE  Pending(c) \in Nat /\ (~c.active => Pending(c) = 0)
  <1>1. c \in Call /\ (~c.active => c = NoCall) /\ "body" \in DataCb
    BY DEF StateInv, DataCb
  <1>2. CASE ~c.active
    BY <1>1, <1>2 DEF Pending, NoCall, NoMark
  <1>3. CASE c.active
    <2>1. c.mark["body"] \in Nat /\ c.pos \in Nat /\ c.mark["body"] <= c.pos
      BY <1>1, <1>3, MaxLenAssumption DEF Call, StringOpen
    <2> QED
      BY <1>3, <2>1 DEF Pending
  <1> QED
    BY <1>2, <1>3

\* Before a buffer is read nothing is pending, and after the end of the connection.
LEMMA CallPasses ==
    ASSUME PInv, PInv', (\E n \in 1..MaxLen : Execute(n)) \/ Finish
    PROVE  /\ ~call.active /\ Passed = 0 /\ Delivery = 0
           /\ Pending(call) = 0 /\ Pending(call') = 0
           /\ parser'.http_errno = "HPE_OK" => parser.http_errno = "HPE_OK"
  <1>1. ~call.active /\ Pending(call) = 0 /\ Passed = 0
    BY PendingNat DEF Execute, Finish, PInv, IInv, Passed
  <1>2. CASE \E n \in 1..MaxLen : Execute(n)
    <2>1. PICK n \in 1..MaxLen : Execute(n)
      BY <1>2
    <2>2. Delivery = 0 /\ parser' = parser
      BY <2>1 DEF Execute, Delivery, NoCb
    <2>3. CASE call' = call
      BY <1>1, <2>2, <2>3
    <2>4. CASE call' = [NoCall EXCEPT !.active = TRUE, !.len = n, !.mark = OpenMark(parser.state)]
      <3>1. call'.mark["body"] = 0
        BY <2>4 DEF NoCall, OpenMark, DataCb
      <3> QED
        BY <1>1, <2>2, <3>1 DEF Pending
    <2> QED
      BY <2>1, <2>3, <2>4 DEF Execute
  <1>3. CASE Finish
    <2>1. call' = NoCall /\ cb'.for # "body"
      BY <1>3 DEF Finish, Return, NoCb
    <2>2. parser.http_errno # "HPE_OK" => parser' = parser
      BY <1>3 DEF Finish, Return
    <2> QED
      BY <1>1, <2>1, <2>2 DEF Delivery, Pending, NoCall, NoMark, DataCb
  <1> QED
    BY <1>2, <1>3

LEMMA PassedNat ==
    ASSUME Within PROVE Passed \in Nat
  <1>1. /\ call \in CallLike /\ call.pos <= call.len /\ parser.content_length \in Nat
        /\ call.active
    BY CallLikes, WithinFacts DEF Offsets, Within, Parser
  <1>2. call.len \in Nat /\ call.pos \in Nat /\ call.len - call.pos \in Nat
    BY <1>1 DEF CallLike
  <1>3. ToRead \in Nat
    BY <1>1, <1>2 DEF ToRead, Lesser
  <1> QED
    BY <1>2, <1>3 DEF Passed

\* What was sent grows by what is passed, and passed bytes are delivered or pending.
LEMMA StepPasses ==
    ASSUME RInv, PInv', EngineStep, History, wire \in Wire
    PROVE  /\ wire' \in Wire /\ wire'.body = wire.body + Passed
           /\ wire'.messages = IF cb'.for = "message_complete" THEN wire.messages + 1
                                                              ELSE wire.messages
           /\ Passed \in Nat /\ Pending(call) \in Nat /\ Pending(call') \in Nat
           /\ parser'.http_errno = "HPE_OK" => PassedOn /\ parser.http_errno = "HPE_OK"
  <1>1. /\ call' \in Call /\ cb' \in CallbackRecord /\ wire.body \in Nat
        /\ last' = IF cb' = NoCb THEN last ELSE cb'.for
    BY DEF PInv, IInv, StateInv, History, Wire
  <1>2. Pending(call) \in Nat /\ Pending(call') \in Nat
    BY PendingNat DEF RInv, PInv, IInv
  <1> DEFINE w == IF call.active /\ call.cur # NoByte THEN Sent ELSE wire
             k == IF cb'.for = "message_complete" THEN w.messages + 1 ELSE w.messages
  <1>3. wire' = [w EXCEPT !.messages = k]
    BY DEF History
  <1>4. ASSUME w \in Wire, w.body = wire.body + Passed, w.messages = wire.messages
        PROVE  /\ wire' \in Wire /\ wire'.body = wire.body + Passed
               /\ wire'.messages = IF cb'.for = "message_complete" THEN wire.messages + 1
                                                                  ELSE wire.messages
    <2>1. k \in Nat /\ k = IF cb'.for = "message_complete" THEN wire.messages + 1
                                                           ELSE wire.messages
      BY <1>4 DEF Wire
    <2> HIDE DEF w, k
    <2> QED
      BY <1>3, <1>4, <2>1 DEF Wire
  <1>5. CASE Run
    <2>1. Within
      BY <1>1, <1>5, RunInCall DEF Within, RInv, PInv
    <2>2. w \in Wire /\ w.body = wire.body + Passed /\ w.messages = wire.messages
      <3>1. CASE call.cur # NoByte
        <4>1. w = Sent
          BY <2>1, <3>1 DEF Within
        <4> HIDE DEF w
        <4> QED
          BY <1>1, <2>1, <3>1, <4>1, SentType
      <3>2. CASE call.cur = NoByte
        <4>1. w = wire /\ Passed = 0
          BY <3>2 DEF Passed
        <4> HIDE DEF w
        <4> QED
          BY <1>1, <4>1
      <3> QED
        BY <3>1, <3>2
    <2>3. /\ wire' \in Wire /\ wire'.body = wire.body + Passed
          /\ wire'.messages = IF cb'.for = "message_complete" THEN wire.messages + 1
                                                             ELSE wire.messages
      BY <1>4, <2>2
    <2>4. parser'.http_errno = "HPE_OK" => PassedOn /\ parser.http_errno = "HPE_OK"
      BY <1>5, <2>1, RunPasses, WithinFacts
    <2>5. Passed \in Nat
      BY <2>1, PassedNat
    <2> QED
      BY <1>2, <2>3, <2>4, <2>5
  <1>6. CASE (\E n \in 1..MaxLen : Execute(n)) \/ Finish
    <2>1. /\ ~call.active /\ Passed = 0 /\ Delivery = 0
          /\ Pending(call) = 0 /\ Pending(call') = 0
          /\ parser'.http_errno = "HPE_OK" => parser.http_errno = "HPE_OK"
      BY <1>6, CallPasses DEF RInv
    <2>2. w = wire
      BY <2>1
    <2>3. /\ wire' \in Wire /\ wire'.body = wire.body + Passed
          /\ wire'.messages = IF cb'.for = "message_complete" THEN wire.messages + 1
                                                             ELSE wire.messages
      BY <1>1, <1>4, <2>1, <2>2
    <2> QED
      BY <1>2, <2>1, <2>3 DEF PassedOn
  <1> QED
    BY <1>5, <1>6 DEF EngineStep

-----------------------------------------------------------------------------
(* Where the bytes of the body are *)

\* The bytes that are no longer pending are counted, and in one place
BodyCounted ==
    LET n == wire.body - Pending(call)
    IN  /\ n \in Nat
        /\ res.body_length = n % UINT_RANGE
        /\ body_cb = "NULL" => res.body_offset = res.body_length
        /\ body_cb = "user" => passed = n /\ res.body = 0

BodyInv ==
    /\ RInv
    /\ wire \in Wire /\ passed \in Nat
    /\ NoError => BodyCounted

LEMMA BodyStep ==
    ASSUME BodyInv, RInv', PInv', EngineStep, Protocol!Next, Respond, History, NoError',
           body_cb' = body_cb
    PROVE  BodyCounted'
  <1> DEFINE n == wire.body - Pending(call)
             m == wire'.body - Pending(call')
  <1>1. /\ wire'.body = wire.body + Passed /\ NoError
        /\ Passed \in Nat /\ Pending(call) \in Nat /\ Pending(call') \in Nat
        /\ Pending(call') + Delivery = Pending(call) + Passed
    BY StepPasses DEF BodyInv, NoError, PassedOn
  <1>2. /\ BodyCounted /\ wire.body \in Nat /\ passed \in Nat
        /\ res.body_length \in Int /\ res.body_offset \in Int
    BY <1>1, UintAssumption DEF BodyInv, Wire, RInv, ResInv, ResponseType, Uint
  <1>3. IF cb'.for = "body" THEN BodyAdded(cb'.n, 0) /\ cb'.n \in Nat ELSE SameCounts
    BY RespondCounts DEF BodyInv, NoError
  <1>4. Delivery \in Nat
    BY <1>3 DEF Delivery
  <1>5. m = n + Delivery /\ n \in Nat /\ m \in Nat
    <2>1. n \in Nat
      BY <1>2 DEF BodyCounted
    <2>2. m = n + Delivery
      BY <1>1, <1>2, <1>4
    <2> HIDE DEF n, m
    <2> QED
      BY <1>4, <2>1, <2>2
  <1>6. CASE cb'.for = "body"
    <2> DEFINE d == cb'.n
    <2>1. d \in Nat /\ Delivery = d /\ BodyAdded(d, 0)
      BY <1>3, <1>6 DEF Delivery
    <2>2. /\ res.body_length = n % UINT_RANGE
          /\ body_cb = "NULL" => res.body_offset = res.body_length
          /\ body_cb = "user" => passed = n /\ res.body = 0
      BY <1>2 DEF BodyCounted
    <2> HIDE DEF n, m, d
    <2>3. ((n % UINT_RANGE) + d) % UINT_RANGE = m % UINT_RANGE
      <3>1. UINT_RANGE \in Int /\ UINT_RANGE > 0 /\ n \in Int /\ d \in Int /\ m = n + d
        BY <1>5, <2>1, UintAssumption
      <3> QED
        BY <3>1, AddModulo
    <2>4. /\ m \in Nat /\ res'.body_length = m % UINT_RANGE
          /\ body_cb' = "NULL" => res'.body_offset = res'.body_length
          /\ body_cb' = "user" => passed' = m /\ res'.body = 0
      BY <1>5, <2>1, <2>2, <2>3 DEF BodyAdded
    <2> QED
      BY <2>4 DEF BodyCounted, m
  <1>7. CASE cb'.for # "body"
    <2>1. Delivery = 0 /\ SameCounts
      BY <1>3, <1>7 DEF Delivery
    <2>2. m = n /\ m \in Nat
      BY <1>5, <2>1
    <2> QED
      BY <1>2, <2>1, <2>2 DEF SameCounts, BodyCounted
  <1> QED
    BY <1>6, <1>7

LEMMA PassedType ==
    ASSUME RInv, PInv', Protocol!Next, Respond, passed \in Nat PROVE passed' \in Nat
  <1>1. cb'.n \in Nat
    BY DEF PInv, IInv, CallbackRecord
  <1> QED
    BY <1>1 DEF Respond, BodyCallback

LEMMA BodyInvInit ==
    ASSUME RInit PROVE BodyInv
  <1>1. RInv
    BY RInitInv
  <1>2. wire \in Wire /\ wire.body = 0 /\ passed = 0
    BY DEF RInit, Wire
  <1>3. Pending(call) = 0
    BY DEF RInit, PInit, Init, Pending, NoCall, NoMark, DataCb
  <1>4. res.body_length = 0 /\ res.body_offset = 0 /\ res.body = 0
    BY DEF RInit, response_parser_init, http_response_init
  <1>5. 0 % UINT_RANGE = 0
    BY UintAssumption
  <1> QED
    BY <1>1, <1>2, <1>3, <1>4, <1>5 DEF BodyInv, BodyCounted

LEMMA BodyInvNext ==
    ASSUME BodyInv, RStep PROVE BodyInv'
  <1>1. RInv'
    BY RNextInv DEF BodyInv
  <1>2. CASE Handled
    <2>1. /\ EngineStep /\ last' = (IF cb' = NoCb THEN last ELSE cb'.for) /\ Respond
          /\ History /\ body_cb' = body_cb
      BY <1>2 DEF Handled, History
    <2>2. PInv' /\ Protocol!Next
      BY <2>1, EngineImplements DEF BodyInv, RInv, EngineStep
    <2>3. wire' \in Wire
      BY <2>1, <2>2, StepPasses DEF BodyInv
    <2>4. passed' \in Nat
      BY <2>1, <2>2, PassedType DEF BodyInv
    <2>5. NoError' => BodyCounted'
      BY <1>1, <2>1, <2>2, BodyStep
    <2> QED
      BY <1>1, <2>3, <2>4, <2>5 DEF BodyInv
  <1>3. CASE Free
    <2>1. /\ parser' = parser /\ call' = call /\ wire' = wire /\ passed' = passed
          /\ body_cb' = body_cb
      BY <1>3 DEF Free, pvars, vars
    <2>2. res'.body_length = res.body_length /\ res'.body_offset = res.body_offset
          /\ res'.body = res.body
      BY <1>3 DEF Free, FreeResponse, BodyInv, RInv, ResInv, ResponseType
    <2> QED
      BY <1>1, <2>1, <2>2 DEF BodyInv, BodyCounted, NoError, Pending
  <1>4. CASE UNCHANGED rvars
    <2>1. /\ parser' = parser /\ call' = call /\ wire' = wire /\ passed' = passed
          /\ body_cb' = body_cb /\ res' = res
      BY <1>4 DEF rvars, pvars, vars
    <2> QED
      BY <1>1, <2>1 DEF BodyInv, BodyCounted, NoError, Pending
  <1> QED
    BY <1>2, <1>3, <1>4 DEF RStep

-----------------------------------------------------------------------------
(* How a message is framed *)

\* The states between the first byte of a message and the last of its headers
HeadSet == HeaderPhaseStates \ (ChunkStates \cup {"s_start_res", "s_dead", "s_headers_done"})

\* What the parser still expects of the first message, b bytes of whose body have passed
\* and whose announced length is d: without chunks, b and what is left add up to d
Framed(p, b, d) ==
    /\ "F_SKIPBODY" \notin p.flags
    /\ "F_TRAILING" \in p.flags => "F_CHUNKED" \in p.flags
    /\ p.state \in {"s_start_res", "s_dead"} => b = 0
    /\ "F_CHUNKED" \notin p.flags =>
          /\ p.state \in HeadSet => b = 0
          /\ p.state = "s_headers_done" => b = 0 /\ d = p.content_length
          /\ p.state = "s_body_identity" => b + p.content_length = d
          /\ p.state = "s_body_identity_eof" => d = ULLONG_MAX
          /\ p.state = "s_message_done" => b = d

\* A step inside the headers: flags are added, but not these two
HeadKept(q) ==
    /\ q.state \in HeadSet
    /\ parser.flags \subseteq q.flags
    /\ {"F_SKIPBODY", "F_TRAILING"} \cap q.flags \subseteq parser.flags

LEMMA StepMoves ==
    ASSUME NEW p, Step(p) \/ Reexecute(p) PROVE parser' = p /\ cb' = NoCb
  BY DEF Step, Reexecute, Continue, Return

LEMMA ContinueMoves ==
    ASSUME NEW p, NEW c, NEW er, Continue(p, c, er) PROVE parser' = p
  BY DEF Continue, Return

LEMMA NotifyMoves ==
    ASSUME NEW f, NEW p \in Parser, NEW c, NEW er, Notify(f, p, c, er),
           parser'.http_errno = "HPE_OK"
    PROVE  parser' = p /\ cb'.for = f
  <1>1. PICK ret \in CbRet :
           /\ cb' = [for |-> f, at |-> 0, n |-> 0, ret |-> ret]
           /\ Continue(Called(p, p, ret), c, er)
    BY DEF Notify
  <1>2. parser' = Called(p, p, ret) /\ cb'.for = f
    BY <1>1, ContinueMoves
  <1> QED
    BY <1>2 DEF Called, Error, Parser

LEMMA DataMoves ==
    ASSUME NEW f, NEW n, NEW p \in Parser, NEW er, NEW q, NEW eq, NEW c,
           DataThen(f, n, p, er, q, eq, c), parser'.http_errno = "HPE_OK"
    PROVE  parser' = q /\ cb'.for \in {f, "none"}
  <1>1. CASE c.mark[f] = 0
    BY <1>1, ContinueMoves DEF DataThen, NoCb
  <1>2. CASE c.mark[f] # 0
    <2>1. PICK ret \in CbRet :
             /\ cb' = [for |-> f, at |-> c.mark[f] - 1, n |-> n, ret |-> ret]
             /\ Continue(Called(p, q, ret), [c EXCEPT !.mark[f] = 0],
                         IF ret = 0 THEN eq ELSE er)
      BY <1>2 DEF DataThen
    <2>2. parser' = Called(p, q, ret) /\ cb'.for = f
      BY <2>1, ContinueMoves
    <2> QED
      BY <2>2 DEF Called, Error, Parser
  <1> QED
    BY <1>1, <1>2

LEMMA CountType ==
    ASSUME NEW p \in Parser, NEW n \in Nat
    PROVE  /\ Count(p, n) \in Parser /\ Count(p, n).flags = p.flags
           /\ Count(p, n).state = p.state /\ Count(p, n).content_length = p.content_length
           /\ Count(p, n).header_state = p.header_state
  <1> DEFINE k == p.nread + n
             e == IF p.nread + n > HTTP_MAX_HEADER_SIZE THEN "HPE_HEADER_OVERFLOW"
                                                        ELSE p.http_errno
  <1>1. k \in Nat /\ e \in Errno
    BY DEF Parser, Errno
  <1>2. Count(p, n) = [p EXCEPT !.nread = k, !.http_errno = e]
    BY DEF Count
  <1> HIDE DEF k, e
  <1> QED
    BY <1>1, <1>2 DEF Parser

\* The state of the parser on its way through the headers.
LEMMA HeadForms ==
    ASSUME parser \in Parser, parser.state \in HeadSet, NEW n \in Nat
    PROVE  /\ HeadKept(parser) /\ HeadKept(Count(parser, n))
           /\ \A s \in HeadSet : /\ HeadKept(Move(parser, s)) /\ HeadKept(Count(Move(parser, s), n))
                                 /\ HeadKept(Move(Count(parser, n), s))
                                 /\ Move(parser, s) \in Parser
                                 /\ Count(Move(parser, s), n) \in Parser
                                 /\ Move(Count(parser, n), s) \in Parser
           /\ \A e \in Errno \ {"HPE_OK"} : Error(parser, e).http_errno # "HPE_OK"
           /\ \A e \in Errno \ {"HPE_OK"} : Error(Count(parser, n), e).http_errno # "HPE_OK"
  <1>1. HeadSet \subseteq State
    BY DEF HeadSet, State
  <1> HIDE DEF HeadSet
  <1>2. Count(parser, n) \in Parser /\ Count(parser, n).flags = parser.flags
        /\ Count(parser, n).state = parser.state
    BY CountType
  <1>3. ASSUME NEW p \in Parser, p.flags = parser.flags, NEW s \in HeadSet
        PROVE  /\ Move(p, s) \in Parser /\ Move(p, s).flags = parser.flags
               /\ Move(p, s).state = s
    BY <1>1, <1>3 DEF Move, Parser
  <1>4. ASSUME NEW p \in Parser
        PROVE  /\ Count(p, n) \in Parser /\ Count(p, n).flags = p.flags
               /\ Count(p, n).state = p.state
    BY CountType
  <1>5. ASSUME NEW p \in Parser, NEW e \in Errno, e # "HPE_OK"
        PROVE  Error(p, e).http_errno # "HPE_OK"
    BY <1>5 DEF Error, Parser
  <1> QED
    BY <1>2, <1>3, <1>4, <1>5 DEF HeadKept

LEMMA LineKept ==
    ASSUME Within, parser'.http_errno = "HPE_OK",
           \/ Version \/ FirstStatusCode \/ StatusCode
           \/ StatusStart \/ Status \/ ResLineAlmostDone
           \/ HeaderFieldStart \/ HeaderField
    PROVE  HeadKept(parser') /\ cb'.for \in {"none", "status", "header_field"}
  <1>1. parser \in Parser /\ call.run \in Nat /\ NoCb.for = "none"
    BY CallLikes, WithinFacts DEF CallLike, NoCb
  <1>2. /\ {"s_res_H", "s_res_first_status_code", "s_res_status_code",
            "s_res_status_start", "s_res_status", "s_res_line_almost_done",
            "s_header_field_start", "s_header_field", "s_header_value_discard_ws",
            "s_headers_almost_done"} \subseteq HeadSet
        /\ {"HPE_INVALID_VERSION", "HPE_STRICT", "HPE_INVALID_STATUS",
            "HPE_INVALID_HEADER_TOKEN"} \subseteq Errno \ {"HPE_OK"}
    BY DEF HeadSet, HeaderPhaseStates, ChunkStates, Errno
  <1>3. parser.state \in HeadSet
    BY <1>2 DEF Version, FirstStatusCode, StatusCode, StatusStart, Status, ResLineAlmostDone,
       HeaderFieldStart, HeaderField, At
  <1> HIDE DEF HeadSet
  <1>4. CASE Version
    <2>1. PICK e \in {"HPE_STRICT", "HPE_INVALID_VERSION"} :
             Step(IF call.cur.c = "ver"
                  THEN [Move(parser, "s_res_first_status_code") EXCEPT
                            !.http11 = call.cur.v > 0]
                  ELSE Error(parser, e))
      BY <1>4 DEF Version
    <2>2. cb' = NoCb
      BY <2>1, StepMoves
    <2>3. parser' = [Move(parser, "s_res_first_status_code") EXCEPT !.http11 = call.cur.v > 0]
      BY <1>1, <1>2, <1>3, <2>1, StepMoves, HeadForms
    <2> DEFINE b == call.cur.v > 0
    <2>4. parser' = [Move(parser, "s_res_first_status_code") EXCEPT !.http11 = b]
      BY <2>3
    <2> HIDE DEF b
    <2>5. parser'.state = "s_res_first_status_code" /\ parser'.flags = parser.flags
      BY <1>1, <2>4 DEF Move, Parser
    <2> QED
      BY <1>1, <1>2, <2>2, <2>5 DEF HeadKept
  <1>5. CASE FirstStatusCode
    <2> DEFINE v == call.cur.v
    <2>1. cb' = NoCb /\ parser' \in {parser, [Move(parser, "s_res_status_code") EXCEPT !.status_code = v]}
      BY <1>1, <1>2, <1>3, <1>5, StepMoves, HeadForms DEF FirstStatusCode
    <2> HIDE DEF v
    <2>2. parser'.state \in HeadSet /\ parser'.flags = parser.flags
      BY <1>1, <1>2, <1>3, <2>1 DEF Move, Parser
    <2> QED
      BY <1>1, <2>1, <2>2 DEF HeadKept
  <1>6. CASE StatusCode \/ ResLineAlmostDone
    BY <1>1, <1>2, <1>3, <1>6, StepMoves, HeadForms DEF StatusCode, ResLineAlmostDone
  <1>7. CASE StatusStart
    BY <1>1, <1>2, <1>3, <1>7, StepMoves, ContinueMoves, HeadForms DEF StatusStart
  <1>8. CASE Status
    BY <1>1, <1>2, <1>3, <1>8, StepMoves, DataMoves, HeadForms DEF Status, Data
  <1>9. CASE HeaderFieldStart
    <2> DEFINE h == NameStart(call.cur)
    <2>1. /\ cb' = NoCb
          /\ \/ parser' = Move(parser, "s_headers_almost_done")
             \/ parser' = [Move(parser, "s_header_field") EXCEPT !.header_state = h]
      BY <1>1, <1>2, <1>3, <1>9, StepMoves, ContinueMoves, HeadForms DEF HeaderFieldStart
    <2> HIDE DEF h
    <2>2. parser'.state \in HeadSet /\ parser'.flags = parser.flags
      BY <1>1, <1>2, <2>1 DEF Move, Parser
    <2> QED
      BY <1>1, <2>1, <2>2 DEF HeadKept
  <1>10. CASE HeaderField
    <2> DEFINE p == Count(parser, call.run)
               h == [parser EXCEPT !.header_state = NameStep(@, call.cur)]
    <2>1. h.state = parser.state /\ h.flags = parser.flags
      BY <1>1 DEF Parser
    <2>2. \/ cb' = NoCb /\ Continue(h, [NextByte EXCEPT !.run = call.run + 1], call.pos)
          \/ Step(p)
          \/ Data("header_field", Length("header_field", call),
                  Move(p, "s_header_value_discard_ws"), call.pos + 1, NextByte)
          \/ Step(Error(p, "HPE_INVALID_HEADER_TOKEN"))
      BY <1>10 DEF HeaderField
    <2> HIDE DEF h
    <2>3. parser' = h /\ cb' = NoCb => HeadKept(parser') /\ cb' = NoCb
      BY <1>3, <2>1 DEF HeadKept
    <2> QED
      BY <1>1, <1>2, <1>3, <2>2, <2>3, StepMoves, ContinueMoves, DataMoves, HeadForms DEF Data
  <1> QED
    BY <1>4, <1>5, <1>6, <1>7, <1>8, <1>9, <1>10

\* The flag of a recognised value.
LEMMA FlagOfIs == \A h : "F_SKIPBODY" \notin FlagOf(h) /\ "F_TRAILING" \notin FlagOf(h)
  BY DEF FlagOf

LEMMA ValueStartKept ==
    ASSUME Within, parser.state \in HeadSet, NEW ch, ValueStart(ch).http_errno = "HPE_OK"
    PROVE  HeadKept(ValueStart(ch))
  <1> DEFINE p == Move(parser, "s_header_value")
             To(s) == [p EXCEPT !.header_state = s]
             Adds(f) == [To("h_general") EXCEPT !.flags = @ \cup {f}]
             v == ch.v
             l == [p EXCEPT !.flags = @ \cup {"F_CONTENTLENGTH"}, !.content_length = v]
  <1>1. /\ parser \in Parser /\ p.state = "s_header_value" /\ p.flags = parser.flags
        /\ "s_header_value" \in HeadSet
    BY WithinFacts DEF Move, Parser, HeadSet, HeaderPhaseStates, ChunkStates
  <1>2. \A e : Error(p, e).http_errno = e
    BY <1>1 DEF Move, Error, Parser
  <1>3. /\ ValueStart(ch) \in {p, Adds("F_UPGRADE"), l} \/ \E s : ValueStart(ch) = To(s)
    BY <1>2 DEF ValueStart
  <1>4. \A s : To(s).state = "s_header_value" /\ To(s).flags = parser.flags
    BY <1>1 DEF Move, Parser
  <1>5. /\ Adds("F_UPGRADE").state = "s_header_value"
        /\ Adds("F_UPGRADE").flags = parser.flags \cup {"F_UPGRADE"}
    BY <1>1 DEF Move, Parser
  <1>6. l.state = "s_header_value" /\ l.flags = parser.flags \cup {"F_CONTENTLENGTH"}
    <2> HIDE DEF v
    <2> QED
      BY <1>1 DEF Move, Parser
  <1> HIDE DEF p, To, Adds, l, HeadSet
  <1> QED
    BY <1>1, <1>3, <1>4, <1>5, <1>6 DEF HeadKept

LEMMA ValueByteKept ==
    ASSUME Within, parser.state \in HeadSet, NEW ch,
           ValueByte(parser, ch).http_errno = "HPE_OK"
    PROVE  HeadKept(ValueByte(parser, ch))
  <1> DEFINE l == parser.content_length * 10 + ch.v
             h == ValueStep(parser.header_state, ch)
             f == IF ch.c = "," /\ parser.header_state # "h_transfer_encoding_chunked"
                  THEN parser.flags \cup FlagOf(parser.header_state) ELSE parser.flags
  <1>1. parser \in Parser /\ \A e : Error(parser, e).http_errno = e
    BY WithinFacts DEF Error, Parser
  <1>2. ValueByte(parser, ch) \in {parser, [parser EXCEPT !.content_length = l],
                                   [parser EXCEPT !.header_state = h, !.flags = f]}
    BY <1>1 DEF ValueByte, LengthDigit
  <1>3. /\ parser.flags \subseteq f
        /\ {"F_SKIPBODY", "F_TRAILING"} \cap f \subseteq parser.flags
    BY FlagOfIs
  <1> HIDE DEF l, h, f, HeadSet
  <1> QED
    BY <1>1, <1>2, <1>3 DEF HeadKept, Parser

LEMMA ValueKept ==
    ASSUME Within, parser'.http_errno = "HPE_OK",
           \/ HeaderValueDiscardWs \/ HeaderValueStart
           \/ HeaderValueCR \/ HeaderValueLF \/ HeaderValueByte \/ HeaderValueSkip
           \/ HeaderAlmostDone \/ HeaderValueLws \/ HeaderValueDiscardWsAlmostDone
           \/ HeaderValueDiscardLws
    PROVE  HeadKept(parser') /\ cb'.for \in {"none", "header_value"}
  <1>1. parser \in Parser /\ call.run \in Nat /\ NoCb.for = "none"
    BY CallLikes, WithinFacts DEF CallLike, NoCb
  <1>2. /\ {"s_header_value_discard_ws", "s_header_value_discard_ws_almost_done",
            "s_header_value_discard_lws", "s_header_value_start", "s_header_value",
            "s_header_value_lws", "s_header_almost_done", "s_header_field_start"} \subseteq HeadSet
        /\ {"HPE_STRICT", "HPE_LF_EXPECTED"} \subseteq Errno \ {"HPE_OK"}
    BY DEF HeadSet, HeaderPhaseStates, ChunkStates, Errno
  <1>3. parser.state \in HeadSet
    BY <1>2 DEF HeaderValueDiscardWs, HeaderValueStart, HeaderValueCR, HeaderValueLF,
       HeaderValueByte, HeaderValueSkip, HeaderAlmostDone, HeaderValueLws,
       HeaderValueDiscardWsAlmostDone, HeaderValueDiscardLws, InValue, At
  <1> HIDE DEF HeadSet
  <1>4. ASSUME StartValue PROVE HeadKept(parser') /\ cb' = NoCb
    <2>1. parser' = ValueStart(call.cur) /\ cb' = NoCb
      BY <1>4, ContinueMoves DEF StartValue
    <2> QED
      BY <1>3, <2>1, ValueStartKept
  <1>5. CASE \/ HeaderValueDiscardWs \/ HeaderValueStart \/ HeaderAlmostDone
             \/ HeaderValueDiscardWsAlmostDone
    BY <1>1, <1>2, <1>3, <1>4, <1>5, StepMoves, HeadForms
       DEF HeaderValueDiscardWs, HeaderValueStart, HeaderAlmostDone,
           HeaderValueDiscardWsAlmostDone
  <1>6. ASSUME NEW f \in SUBSET Flag, f = parser.flags \cup FlagOf(parser.header_state)
        PROVE  LET q == [Move(parser, "s_header_field_start") EXCEPT !.flags = f]
               IN  HeadKept(q) /\ q \in Parser
    <2> DEFINE q == [Move(parser, "s_header_field_start") EXCEPT !.flags = f]
    <2>1. q.state = "s_header_field_start" /\ q.flags = f /\ q \in Parser
      BY <1>1, <1>6 DEF Move, Parser, State, HeaderPhaseStates
    <2> HIDE DEF q
    <2>2. HeadKept(q)
      BY <1>2, <1>6, <2>1, FlagOfIs DEF HeadKept
    <2> QED
      BY <2>1, <2>2 DEF q
  <1> DEFINE f == parser.flags \cup FlagOf(parser.header_state)
             ended == [Move(parser, "s_header_field_start") EXCEPT !.flags = f]
  <1>7. f \in SUBSET Flag
    BY <1>1 DEF Parser, FlagOf, Flag
  <1>8. HeadKept(ended) /\ ended \in Parser
    <2> HIDE DEF f
    <2> QED
      BY <1>6, <1>7 DEF f
  <1>9. ended = [Move(parser, "s_header_field_start") EXCEPT
                     !.flags = @ \cup FlagOf(parser.header_state)]
    BY <1>1 DEF Move, Parser
  <1>10. CASE HeaderValueLws
    <2>1. \/ Reexecute(Move(parser, "s_header_value_start"))
          \/ Reexecute(ended)
      BY <1>9, <1>10 DEF HeaderValueLws
    <2> HIDE DEF ended
    <2> QED
      BY <1>1, <1>2, <1>3, <1>8, <2>1, StepMoves, HeadForms
  <1>11. CASE HeaderValueDiscardLws
    <2>1. \/ Step(Move(parser, "s_header_value_discard_ws"))
          \/ Data("header_value", 0, ended, call.pos, Marked(call, "header_value"))
      BY <1>9, <1>11 DEF HeaderValueDiscardLws
    <2> HIDE DEF ended
    <2> QED
      BY <1>1, <1>2, <1>3, <1>8, <2>1, StepMoves, DataMoves, HeadForms DEF Data
  <1>12. CASE HeaderValueCR
    BY <1>1, <1>2, <1>3, <1>12, DataMoves, HeadForms DEF HeaderValueCR
  <1>13. CASE HeaderValueLF
    BY <1>1, <1>2, <1>3, <1>13, DataMoves, HeadForms DEF HeaderValueLF, Data, Return
  <1>14. CASE HeaderValueByte
    BY <1>1, <1>3, <1>14, ContinueMoves, ValueByteKept DEF HeaderValueByte
  <1>15. CASE HeaderValueSkip
    BY <1>1, <1>3, <1>15, ContinueMoves, HeadForms DEF HeaderValueSkip
  <1> QED
    BY <1>5, <1>10, <1>11, <1>12, <1>13, <1>14, <1>15

\* The step of a message that changes nothing about its framing
SameFrame(q) ==
    /\ q.state = parser.state /\ q.flags = parser.flags
    /\ q.content_length = parser.content_length /\ q.header_state = parser.header_state

\* Where chunks are read, nothing but a trailer is added
ChunksKept(q) ==
    /\ {"F_CHUNKED"} \subseteq q.flags /\ q.flags \subseteq parser.flags \cup {"F_TRAILING"}
    /\ parser.flags \subseteq q.flags
    /\ q.state \in ChunkStates \/ (q.state = "s_header_field_start" /\ "F_TRAILING" \in q.flags)

LEMMA HeadFramed ==
    ASSUME NEW b, NEW d, parser.state \in HeadSet, Framed(parser, b, d), HeadKept(parser')
    PROVE  Framed(parser', b, d)
  BY DEF Framed, HeadKept, HeadSet, HeaderPhaseStates

LEMMA SameFramed ==
    ASSUME NEW b, NEW d, Framed(parser, b, d), SameFrame(parser')
    PROVE  Framed(parser', b, d)
  BY DEF Framed, SameFrame

LEMMA ChunksFramed ==
    ASSUME NEW b, NEW d, NEW c, NEW e, Framed(parser, b, d), ChunksKept(parser')
    PROVE  Framed(parser', c, e)
  BY DEF Framed, ChunksKept, ChunkStates

LEMMA BetweenBytes ==
    ASSUME Within, parser'.http_errno = "HPE_OK", Fetch \/ LeaveInnerLoop \/ EndOfBuffer
    PROVE  /\ SameFrame(parser') /\ Passed = 0
           /\ cb'.for \notin {"headers_complete", "message_complete"}
  <1>1. parser \in Parser /\ call \in CallLike
    BY CallLikes, WithinFacts
  <1>2. ASSUME NEW n \in Nat PROVE SameFrame(Count(parser, n)) /\ SameFrame(parser)
    BY <1>1, CountType DEF SameFrame
  <1>3. CASE Fetch
    <2>1. PICK ch \in Offered(parser) :
             Continue(IF call.run = 0 /\ ParsingHeader(parser.state)
                      THEN Count(parser, 1) ELSE parser,
                      [call EXCEPT !.cur = ch], call.pos)
      BY <1>3 DEF Fetch
    <2>2. parser' \in {parser, Count(parser, 1)}
      BY <2>1, ContinueMoves
    <2>3. Passed = 0 /\ cb' = NoCb
      BY <1>3 DEF Fetch, Passed
    <2> QED
      BY <1>2, <2>2, <2>3 DEF NoCb
  <1>4. CASE LeaveInnerLoop
    <2>1. parser' = Count(parser, call.run) /\ cb' = NoCb /\ Passed = 0
      BY <1>4, ContinueMoves DEF LeaveInnerLoop, Passed
    <2>2. call.run \in Nat
      BY <1>1 DEF CallLike
    <2> QED
      BY <1>2, <2>1, <2>2 DEF NoCb
  <1>5. CASE EndOfBuffer
    <2>1. Passed = 0
      BY <1>5 DEF EndOfBuffer, Passed
    <2>2. ASSUME NEW f \in DataCb, Data(f, Length(f, call), parser, call.len, call)
          PROVE  parser' = parser /\ cb'.for \in {f, "none"}
      BY <1>1, <2>2, DataMoves DEF Data
    <2>3. parser' = parser /\ cb'.for \in DataCb \cup {"none"}
      BY <1>5, <2>2 DEF EndOfBuffer, Return, NoCb
    <2> QED
      BY <1>2, <2>1, <2>3 DEF DataCb
  <1> QED
    BY <1>3, <1>4, <1>5

\* A message begins.
LEMMA StartFramed ==
    ASSUME Within, parser'.http_errno = "HPE_OK", Dead \/ StartRes, NEW d,
           Framed(parser, 0, d)
    PROVE  Framed(parser', 0, d) /\ cb'.for \in {"none", "message_begin"}
  <1>1. parser \in Parser
    BY WithinFacts
  <1>2. CASE Dead
    <2>1. parser' = parser /\ cb' = NoCb
      BY <1>1, <1>2, StepMoves DEF Dead, Error, Parser
    <2> QED
      BY <2>1 DEF NoCb
  <1>3. CASE StartRes
    <2> DEFINE p == [parser EXCEPT !.flags = {}, !.content_length = ULLONG_MAX]
               m == Move(p, "s_res_H")
    <2>1. /\ p \in Parser /\ p.flags = {} /\ p.state = "s_start_res"
          /\ m \in Parser /\ m.flags = {} /\ m.state = "s_res_H"
      BY <1>1, <1>3, LengthAssumption DEF StartRes, At, Parser, Flag, Move, State, HeaderPhaseStates
    <2>2. Error(p, "HPE_INVALID_CONSTANT").http_errno # "HPE_OK"
      BY <2>1 DEF Error, Parser
    <2>3. \/ Notify("message_begin", m, NextByte, call.pos + 1)
          \/ Notify("message_begin", p, NextByte, call.pos + 1)
          \/ Step(Error(p, "HPE_INVALID_CONSTANT"))
      BY <1>3 DEF StartRes
    <2> HIDE DEF p, m
    <2>4. parser' \in {p, m} /\ cb'.for = "message_begin"
      BY <2>1, <2>2, <2>3, NotifyMoves, StepMoves
    <2> QED
      BY <2>1, <2>4 DEF Framed
  <1> QED
    BY <1>2, <1>3

\* The headers are complete, or the trailer of a chunked body.
LEMMA HeadersFramed ==
    ASSUME Within, parser'.http_errno = "HPE_OK", HeadersAlmostDone,
           cb'.for = "headers_complete" => cb'.ret \notin {1, 2},
           NEW b, NEW d, Framed(parser, b, d)
    PROVE  /\ Framed(parser', b, IF cb'.for = "headers_complete"
                                 THEN parser'.content_length ELSE d)
           /\ cb'.for # "message_complete"
  <1>1. parser \in Parser /\ parser.state = "s_headers_almost_done"
        /\ parser.state \in HeadSet
    BY WithinFacts DEF HeadersAlmostDone, At, HeadSet, HeaderPhaseStates, ChunkStates
  <1> DEFINE u == {"F_UPGRADE", "F_CONNECTION_UPGRADE"} \subseteq parser.flags
             p == [Move(parser, "s_headers_done") EXCEPT !.upgrade = u]
             m == Move(parser, "s_message_done")
  <1>2. /\ p \in Parser /\ p.flags = parser.flags /\ p.state = "s_headers_done"
        /\ m \in Parser /\ m.flags = parser.flags /\ m.state = "s_message_done"
    <2> HIDE DEF u
    <2>1. u \in BOOLEAN
      BY DEF u
    <2> QED
      BY <1>1, <2>1 DEF Move, Parser, State, HeaderPhaseStates, BodyStates
  <1>3. \/ Step(Error(parser, "HPE_STRICT"))
        \/ "F_TRAILING" \in parser.flags /\ Notify("chunk_complete", m, call, call.pos)
        \/ Step(Error(parser, "HPE_UNEXPECTED_CONTENT_LENGTH"))
        \/ HeadersComplete(p)
    BY DEF HeadersAlmostDone
  <1> HIDE DEF p, m
  <1>4. ~Step(Error(parser, "HPE_STRICT"))
        /\ ~Step(Error(parser, "HPE_UNEXPECTED_CONTENT_LENGTH"))
    BY <1>1, StepMoves DEF Error, Parser
  <1>5. CASE "F_TRAILING" \in parser.flags /\ Notify("chunk_complete", m, call, call.pos)
    <2>1. parser' = m /\ cb'.for = "chunk_complete"
      BY <1>2, <1>5, NotifyMoves
    <2> QED
      BY <1>2, <1>5, <2>1 DEF Framed
  <1>6. CASE HeadersComplete(p)
    <2>1. cb'.for = "headers_complete" /\ cb'.ret \notin {1, 2}
      BY <1>6 DEF HeadersComplete
    <2>2. parser' \in {p, Error(p, "HPE_CB")}
      BY <1>6, <2>1, ContinueMoves DEF HeadersComplete
    <2>3. parser' = p
      BY <1>2, <2>2 DEF Error, Parser
    <2> QED
      BY <1>1, <1>2, <2>1, <2>3 DEF Framed, HeadSet
  <1> QED
    BY <1>3, <1>4, <1>5, <1>6

\* A message is complete.
LEMMA Completed ==
    ASSUME NEW p \in Parser, MessageComplete(p), parser'.http_errno = "HPE_OK"
    PROVE  /\ cb'.for = "message_complete" /\ parser'.flags = p.flags
           /\ parser'.state \in {"s_start_res", "s_dead"}
  <1>1. PICK ret \in CbRet :
           /\ cb' = [for |-> "message_complete", at |-> 0, n |-> 0, ret |-> ret]
           /\ LET q == Called(NewMessage(p), NewMessage(p), ret)
              IN  IF p.upgrade THEN Return(q, call.pos + 1)
                  ELSE Continue(q, NextByte, call.pos + 1)
    BY DEF MessageComplete
  <1>2. parser' = Called(NewMessage(p), NewMessage(p), ret)
    BY <1>1, ContinueMoves DEF Return
  <1>3. \E s \in {"s_start_res", "s_dead"} : NewMessage(p) = Move(p, s)
    BY DEF NewMessage
  <1>4. /\ NewMessage(p).flags = p.flags /\ Error(NewMessage(p), "HPE_CB").flags = p.flags
        /\ {NewMessage(p).state, Error(NewMessage(p), "HPE_CB").state}
              \subseteq {"s_start_res", "s_dead"}
    BY <1>3 DEF Move, Error, Parser
  <1> QED
    BY <1>1, <1>2, <1>4 DEF Called

\* The body follows, or the message ends with its headers.
LEMMA BodyFramed ==
    ASSUME Within, parser'.http_errno = "HPE_OK", HeadersDone,
           NEW b \in Nat, NEW d, Framed(parser, b, d)
    PROVE  \/ cb' = NoCb /\ Framed(parser', b, d)
           \/ /\ cb'.for = "message_complete"
              /\ "F_CHUNKED" \notin parser'.flags /\ d # ULLONG_MAX => b = d
  <1> DEFINE p == [parser EXCEPT !.nread = 0]
  <1>1. /\ p \in Parser /\ SameFrame(p) /\ p.state = "s_headers_done"
        /\ parser.state = "s_headers_done"
        /\ Error(parser, "HPE_STRICT").http_errno # "HPE_OK"
    BY WithinFacts DEF HeadersDone, At, Parser, SameFrame, Error
  <1>2. /\ "F_SKIPBODY" \notin p.flags
        /\ "F_TRAILING" \in p.flags => "F_CHUNKED" \in p.flags
        /\ "F_CHUNKED" \notin p.flags => b = 0 /\ d = p.content_length
    BY <1>1 DEF Framed, SameFrame
  <1>3. \/ BodyState(p) # "none" /\ Step(Move(p, BodyState(p)))
        \/ BodyState(p) = "none" /\ MessageComplete(p)
    BY <1>1, StepMoves DEF HeadersDone
  <1> HIDE DEF p
  <1>4. CASE BodyState(p) # "none" /\ Step(Move(p, BodyState(p)))
    <2> DEFINE s == BodyState(p)
    <2>1. /\ s \in {"s_chunk_size_start", "s_body_identity", "s_body_identity_eof"}
          /\ s = "s_chunk_size_start" => "F_CHUNKED" \in p.flags
          /\ s = "s_body_identity_eof" => p.content_length = ULLONG_MAX
      BY <1>4 DEF BodyState
    <2> HIDE DEF s
    <2>2. parser' = Move(p, s) /\ cb' = NoCb
      BY <1>4, StepMoves DEF s
    <2>3. parser'.state = s /\ parser'.flags = p.flags /\ parser'.content_length = p.content_length
      BY <1>1, <2>2 DEF Move, Parser
    <2>4. p.content_length \in Nat
      BY <1>1 DEF Parser
    <2> QED
      BY <1>2, <2>1, <2>2, <2>3, <2>4
         DEF Framed, HeadSet, HeaderPhaseStates, ChunkStates
  <1>5. CASE BodyState(p) = "none" /\ MessageComplete(p)
    <2>1. cb'.for = "message_complete" /\ parser'.flags = p.flags
      BY <1>1, <1>5, Completed
    <2>2. "F_CHUNKED" \notin p.flags => p.content_length \in {0, ULLONG_MAX}
      BY <1>1, <1>2, <1>5 DEF BodyState, Parser
    <2> QED
      BY <1>2, <2>1, <2>2
  <1> QED
    BY <1>3, <1>4, <1>5

\* What is left of a body by length shrinks by what passes.
LEMMA IdentityFramed ==
    ASSUME Within, parser'.http_errno = "HPE_OK", BodyIdentity,
           NEW b \in Nat, NEW d, Framed(parser, b, d)
    PROVE  Framed(parser', b + Passed, d) /\ cb'.for \in {"none", "body"}
  <1> DEFINE k == parser.content_length - ToRead
             p == [parser EXCEPT !.content_length = k]
             m == Move(p, "s_message_done")
             c == Marked(Advance(ToRead), "body")
  <1>1. /\ parser \in Parser /\ call \in CallLike /\ call.pos <= call.len /\ call.active
        /\ call.cur # NoByte /\ parser.state = "s_body_identity" /\ Passed = ToRead
        /\ "F_CHUNKED" \notin parser.flags
    BY CallLikes, WithinFacts
       DEF BodyIdentity, At, Offsets, Passed, BodyReading, ParserInv, FlagsInv
  <1>2. /\ ToRead \in Nat /\ ToRead <= parser.content_length
        /\ parser.content_length \in Nat /\ k \in Nat
    <2>1. parser.content_length \in Nat /\ call.len - call.pos \in Nat
      BY <1>1 DEF Parser, CallLike
    <2>2. ToRead \in Nat /\ ToRead <= parser.content_length
      BY <2>1 DEF ToRead, Lesser
    <2> QED
      BY <2>1, <2>2
  <1>3. \/ k = 0 /\ Data("body", c.pos + 2 - c.mark["body"], m, c.pos, c)
        \/ /\ cb' = NoCb
           /\ Continue(p, [c EXCEPT !.pos = @ + 1, !.cur = NoByte], call.pos)
    BY <1>1 DEF BodyIdentity, Parser
  <1>4. b + parser.content_length = d
    BY <1>1 DEF Framed
  <1>5. b + ToRead + k = d /\ b + ToRead \in Nat
    BY <1>2, <1>4
  <1> HIDE DEF k, c
  <1>6. /\ p \in Parser /\ p.flags = parser.flags /\ p.state = parser.state
        /\ p.content_length = k
        /\ m \in Parser /\ m.flags = parser.flags /\ m.state = "s_message_done"
    BY <1>1, <1>2 DEF Move, Parser, State, BodyStates
  <1> HIDE DEF p, m
  <1>7. \/ k = 0 /\ parser' = m /\ cb'.for \in {"none", "body"}
        \/ parser' = p /\ cb' = NoCb
    BY <1>3, <1>6, DataMoves, ContinueMoves DEF Data
  <1>8. cb'.for \in {"none", "body"}
    BY <1>7 DEF NoCb
  <1>9. CASE k = 0 /\ parser' = m
    <2>1. b + ToRead = d
      BY <1>5, <1>9
    <2> QED
      BY <1>1, <1>6, <1>8, <1>9, <2>1 DEF Framed, HeadSet, HeaderPhaseStates
  <1>10. CASE parser' = p
    BY <1>1, <1>5, <1>6, <1>8, <1>10 DEF Framed, HeadSet, HeaderPhaseStates
  <1> QED
    BY <1>7, <1>9, <1>10

LEMMA EofFramed ==
    ASSUME Within, BodyIdentityEof, NEW b, NEW d, Framed(parser, b, d), NEW c
    PROVE  Framed(parser', c, d) /\ cb' = NoCb
  <1>1. parser' = parser /\ cb' = NoCb /\ parser.state = "s_body_identity_eof"
    BY ContinueMoves DEF BodyIdentityEof, At
  <1> QED
    BY <1>1 DEF Framed, HeadSet, HeaderPhaseStates

\* Chunks are read in a chunked message only.
LEMMA ChunkSteps ==
    ASSUME Within, parser'.http_errno = "HPE_OK",
           \/ ChunkSizeStart \/ ChunkSize \/ ChunkParameters \/ ChunkSizeAlmostDone
           \/ ChunkData \/ ChunkDataAlmostDone \/ ChunkDataDone
    PROVE  ChunksKept(parser') /\ cb'.for \notin {"headers_complete", "message_complete"}
  <1>1. parser \in Parser /\ "F_CHUNKED" \in parser.flags /\ parser.state \in ChunkStates
    BY WithinFacts DEF ParserInv, FlagsInv, ChunkSizeStart, ChunkSize, ChunkParameters,
       ChunkSizeAlmostDone, ChunkData, ChunkDataAlmostDone, ChunkDataDone, At, ChunkStates
  <1>2. ASSUME NEW p, p.flags = parser.flags, p.state \in ChunkStates
        PROVE  ChunksKept(p)
    BY <1>1, <1>2 DEF ChunksKept
  <1>3. ASSUME NEW s \in State PROVE Move(parser, s) \in Parser /\ Move(parser, s).flags = parser.flags
                                     /\ Move(parser, s).state = s
    BY <1>1 DEF Move, Parser
  <1>4. /\ {"s_chunk_size_start", "s_chunk_size", "s_chunk_parameters",
            "s_chunk_size_almost_done", "s_chunk_data", "s_chunk_data_almost_done",
            "s_chunk_data_done", "s_header_field_start"} \subseteq State
        /\ ChunkStates = {"s_chunk_size_start", "s_chunk_size", "s_chunk_parameters",
                           "s_chunk_size_almost_done", "s_chunk_data",
                           "s_chunk_data_almost_done", "s_chunk_data_done"}
    BY <1>1 DEF State, HeaderPhaseStates, BodyStates, ChunkStates
  <1>5. \A e : Error(parser, e).http_errno = e
    BY <1>1 DEF Error, Parser
  <1>6. CASE ChunkSizeStart
    <2> DEFINE v == call.cur.v
    <2>1. cb' = NoCb /\ parser' = [Move(parser, "s_chunk_size") EXCEPT !.content_length = v]
      BY <1>5, <1>6, StepMoves DEF ChunkSizeStart
    <2> HIDE DEF v
    <2>2. parser'.flags = parser.flags /\ parser'.state = "s_chunk_size"
      BY <1>1, <2>1 DEF Move, Parser
    <2>3. ChunksKept(parser')
      BY <1>2, <1>4, <2>2
    <2> QED
      BY <2>1, <2>3 DEF NoCb
  <1>7. CASE ChunkSize
    <2> DEFINE v == parser.content_length * 16 + call.cur.v
    <2>1. /\ cb' = NoCb
          /\ parser' \in {Move(parser, "s_chunk_size_almost_done"),
                          Move(parser, "s_chunk_parameters"),
                          [parser EXCEPT !.content_length = v]}
      <3>1. \/ Step(Move(parser, "s_chunk_size_almost_done"))
            \/ Step(Move(parser, "s_chunk_parameters"))
            \/ \E e \in Errno \ {"HPE_OK"} : Step(Error(parser, e))
            \/ Step([parser EXCEPT !.content_length = v])
        BY <1>1, <1>7 DEF ChunkSize, Parser, Errno
      <3> QED
        BY <1>5, <3>1, StepMoves
    <2> HIDE DEF v
    <2>2. parser'.flags = parser.flags
      BY <1>1, <2>1 DEF Move, Parser
    <2>3. parser'.state \in ChunkStates
      BY <1>1, <1>4, <2>1 DEF Move, Parser
    <2> QED
      BY <1>2, <2>1, <2>2, <2>3 DEF NoCb
  <1>8. CASE ChunkParameters
    <2>1. cb' = NoCb /\ parser' \in {parser, Move(parser, "s_chunk_size_almost_done")}
      BY <1>8, StepMoves DEF ChunkParameters
    <2> QED
      BY <1>1, <1>2, <1>3, <1>4, <2>1 DEF NoCb
  <1>9. CASE ChunkSizeAlmostDone
    <2> DEFINE p == [parser EXCEPT !.nread = 0]
               f == parser.flags \cup {"F_TRAILING"}
               t == [Move(p, "s_header_field_start") EXCEPT !.flags = f]
               m == Move(p, "s_chunk_data")
    <2>1. /\ f \in SUBSET Flag
          /\ t = [Move(p, "s_header_field_start") EXCEPT !.flags = @ \cup {"F_TRAILING"}]
      BY <1>1 DEF Parser, Flag, Move
    <2>2. \/ Step(Error(parser, "HPE_STRICT"))
          \/ Notify("chunk_header", t, NextByte, call.pos + 1)
          \/ Notify("chunk_header", m, NextByte, call.pos + 1)
      BY <1>9, <2>1 DEF ChunkSizeAlmostDone
    <2> HIDE DEF f
    <2>3. /\ t \in Parser /\ t.flags = f /\ t.state = "s_header_field_start"
          /\ m \in Parser /\ m.flags = parser.flags /\ m.state = "s_chunk_data"
      BY <1>1, <1>4, <2>1 DEF Parser, Move
    <2> HIDE DEF t, m
    <2>4. parser' \in {t, m} /\ cb'.for = "chunk_header"
      BY <1>5, <2>2, <2>3, StepMoves, NotifyMoves
    <2>5. ChunksKept(t) /\ ChunksKept(m)
      BY <1>1, <1>4, <2>3 DEF ChunksKept, f
    <2> QED
      BY <2>4, <2>5
  <1>10. CASE ChunkData
    <2> DEFINE k == parser.content_length - ToRead
               p == [parser EXCEPT !.content_length = k]
    <2>1. cb' = NoCb /\ parser' \in {p, Move(p, "s_chunk_data_almost_done")}
      BY <1>10, ContinueMoves DEF ChunkData
    <2> HIDE DEF k
    <2>2. parser'.flags = parser.flags /\ parser'.state \in ChunkStates
      BY <1>1, <1>4, <2>1 DEF Move, Parser
    <2> QED
      BY <1>2, <2>1, <2>2 DEF NoCb
  <1>11. CASE ChunkDataAlmostDone
    <2>1. \/ Data("body", Length("body", call), Move(parser, "s_chunk_data_done"),
                  call.pos + 1, NextByte)
          \/ Step(Error(parser, "HPE_STRICT"))
      BY <1>11 DEF ChunkDataAlmostDone
    <2>2. parser' = Move(parser, "s_chunk_data_done") /\ cb'.for \in {"body", "none"}
      BY <1>3, <1>4, <1>5, <2>1, StepMoves, DataMoves DEF Data
    <2> QED
      BY <1>2, <1>3, <1>4, <2>2
  <1>12. CASE ChunkDataDone
    <2> DEFINE q == [Move(parser, "s_chunk_size_start") EXCEPT !.nread = 0]
    <2>1. \/ Notify("chunk_complete", q, NextByte, call.pos + 1)
          \/ Step(Error(parser, "HPE_STRICT"))
      BY <1>12 DEF ChunkDataDone
    <2>2. q \in Parser /\ q.flags = parser.flags /\ q.state = "s_chunk_size_start"
      BY <1>1, <1>4 DEF Move, Parser
    <2> HIDE DEF q
    <2>3. parser' = q /\ cb'.for = "chunk_complete"
      BY <1>5, <2>1, <2>2, StepMoves, NotifyMoves
    <2> QED
      BY <1>2, <1>4, <2>2, <2>3
  <1> QED
    BY <1>6, <1>7, <1>8, <1>9, <1>10, <1>11, <1>12

\* Every step of a call keeps a message framed, and where the message is complete, all of a
\* body announced by its length has passed.
LEMMA RunFramed ==
    ASSUME Within, Run, parser'.http_errno = "HPE_OK",
           cb'.for = "headers_complete" => cb'.ret \notin {1, 2},
           NEW b \in Nat, NEW d, Framed(parser, b, d)
    PROVE  \/ /\ cb'.for # "message_complete"
              /\ Framed(parser', b + Passed, IF cb'.for = "headers_complete"
                                             THEN parser'.content_length ELSE d)
           \/ /\ cb'.for = "message_complete" /\ parser.state \notin BodyMarked /\ Passed = 0
              /\ "F_CHUNKED" \notin parser'.flags /\ d # ULLONG_MAX => b = d
  <1>1. parser \in Parser
    BY WithinFacts
  <1>2. ASSUME parser.state \notin BodyReading PROVE Passed = 0 /\ b + Passed = b
    BY <1>2 DEF Passed
  <1>3. CASE Fetch \/ LeaveInnerLoop \/ EndOfBuffer
    BY <1>3, BetweenBytes, SameFramed
  <1>4. CASE Dead \/ StartRes
    <2>1. parser.state \in {"s_dead", "s_start_res"}
      BY <1>4 DEF Dead, StartRes, At
    <2>2. b = 0 /\ Passed = 0 /\ b + Passed = 0
      BY <1>2, <2>1 DEF Framed, BodyReading
    <2> QED
      BY <1>4, <2>2, StartFramed
  <1>5. CASE \/ Version \/ FirstStatusCode \/ StatusCode
             \/ StatusStart \/ Status \/ ResLineAlmostDone
             \/ HeaderFieldStart \/ HeaderField
    <2>1. HeadKept(parser') /\ cb'.for \in {"none", "status", "header_field"}
      BY <1>5, LineKept
    <2>2. parser.state \in HeadSet
      BY <1>5 DEF Version, FirstStatusCode, StatusCode, StatusStart, Status, ResLineAlmostDone,
         HeaderFieldStart, HeaderField, At, HeadSet, HeaderPhaseStates, ChunkStates
    <2>3. parser.state \notin BodyReading
      BY <2>2 DEF HeadSet, HeaderPhaseStates, BodyReading
    <2> QED
      BY <1>2, <2>1, <2>2, <2>3, HeadFramed
  <1>6. CASE \/ HeaderValueDiscardWs \/ HeaderValueStart
             \/ HeaderValueCR \/ HeaderValueLF \/ HeaderValueByte \/ HeaderValueSkip
             \/ HeaderAlmostDone \/ HeaderValueLws \/ HeaderValueDiscardWsAlmostDone
             \/ HeaderValueDiscardLws
    <2>1. HeadKept(parser') /\ cb'.for \in {"none", "header_value"}
      BY <1>6, ValueKept
    <2>2. parser.state \in HeadSet
      BY <1>6 DEF HeaderValueDiscardWs, HeaderValueStart, HeaderValueCR, HeaderValueLF,
         HeaderValueByte, HeaderValueSkip, HeaderAlmostDone, HeaderValueLws, InValue,
         HeaderValueDiscardWsAlmostDone, HeaderValueDiscardLws, At, HeadSet,
         HeaderPhaseStates, ChunkStates
    <2>3. parser.state \notin BodyReading
      BY <2>2 DEF HeadSet, HeaderPhaseStates, BodyReading
    <2> QED
      BY <1>2, <2>1, <2>2, <2>3, HeadFramed
  <1>7. CASE HeadersAlmostDone
    <2>1. parser.state \notin BodyReading
      BY <1>7 DEF HeadersAlmostDone, At, BodyReading
    <2> QED
      BY <1>2, <1>7, <2>1, HeadersFramed
  <1>8. CASE HeadersDone
    <2>1. parser.state \notin BodyReading /\ parser.state \notin BodyMarked
      BY <1>8 DEF HeadersDone, At, BodyReading, BodyMarked
    <2>2. NoCb.for = "none"
      BY DEF NoCb
    <2> QED
      BY <1>2, <1>8, <2>1, <2>2, BodyFramed
  <1>9. CASE BodyIdentity
    BY <1>9, IdentityFramed
  <1>10. CASE BodyIdentityEof
    BY <1>10, EofFramed DEF NoCb
  <1>11. CASE MessageDone
    <2>1. parser.state = "s_message_done" /\ MessageComplete(parser)
      BY <1>11 DEF MessageDone, At
    <2>2. cb'.for = "message_complete" /\ parser'.flags = parser.flags
      BY <1>1, <2>1, Completed
    <2> QED
      BY <1>2, <2>1, <2>2 DEF Framed, BodyReading, BodyMarked
  <1>12. CASE \/ ChunkSizeStart \/ ChunkSize \/ ChunkParameters \/ ChunkSizeAlmostDone
              \/ ChunkData \/ ChunkDataAlmostDone \/ ChunkDataDone
    BY <1>12, ChunkSteps, ChunksFramed
  <1> QED
    BY <1>3, <1>4, <1>5, <1>6, <1>7, <1>8, <1>9, <1>10, <1>11, <1>12 DEF Run, Switch

\* Between two calls a message stays framed.
LEMMA CallFramed ==
    ASSUME PInv, (\E n \in 1..MaxLen : Execute(n)) \/ Finish, parser'.http_errno = "HPE_OK",
           NEW b, NEW d, Framed(parser, b, d)
    PROVE  /\ Framed(parser', b, d)
           /\ cb'.for \in {"none", "message_complete"}
           /\ cb'.for = "message_complete" => d = ULLONG_MAX
  <1>1. parser \in Parser /\ ParserInv(parser)
    BY DEF PInv, IInv, StateInv, ParserInv
  <1>2. CASE \E n \in 1..MaxLen : Execute(n)
    <2>1. parser' = parser /\ cb' = NoCb
      BY <1>2 DEF Execute
    <2> QED
      BY <2>1 DEF NoCb
  <1>3. CASE Finish
    <2>1. \A e : Error(parser, e).http_errno = e
      BY <1>1 DEF Error, Parser
    <2>2. \/ cb' = NoCb /\ parser' = parser
          \/ /\ cb'.for = "message_complete" /\ parser.state = "s_body_identity_eof"
             /\ parser' \in {parser, Error(parser, "HPE_CB")}
          \/ parser' = Error(parser, "HPE_INVALID_EOF_STATE")
      BY <1>3 DEF Finish, Return, Called
    <2>3. \/ cb' = NoCb /\ parser' = parser
          \/ /\ cb'.for = "message_complete" /\ parser.state = "s_body_identity_eof"
             /\ parser' = parser
      BY <2>1, <2>2
    <2>4. parser.state = "s_body_identity_eof" => d = ULLONG_MAX
      BY <1>1 DEF Framed, ParserInv, FlagsInv
    <2> QED
      BY <2>3, <2>4 DEF NoCb
  <1> QED
    BY <1>2, <1>3

WholeInv ==
    /\ BodyInv
    /\ NoError /\ wire.messages = 0 => Framed(parser, wire.body, declared)

LEMMA WholeInvInit ==
    ASSUME RInit PROVE WholeInv
  <1>1. BodyInv
    BY BodyInvInit
  <1>2. parser.state = "s_start_res" /\ parser.flags = {} /\ wire.body = 0
    BY DEF RInit, PInit, Init, http_parser_init
  <1> QED
    BY <1>1, <1>2 DEF WholeInv, Framed, HeadSet

\* The handlers never return what would make the parser skip a body.
LEMMA NoSkip ==
    ASSUME Respond, cb'.for = "headers_complete" PROVE cb'.ret \notin {1, 2}
  <1>1. SetHeadersComplete(cb'.ret)
    BY SMTT(30) DEF Respond
  <1> DEFINE ret == cb'.ret
             named == {i \in 1..res.headers_count : IsContentLength(res.header_fields[i].text)}
             first == CHOOSE i \in named : \A j \in named : i <= j
             text == res.header_values[first].text
             wrong == text # <<>> /\ ~IsNum(text[1])
  <1>2. IF named = {} THEN ret = HTTPS_CLIENT_OK /\ UNCHANGED res
        ELSE IF wrong THEN ret = HTTPS_CLIENT_INVALID_PARAMETER /\ UNCHANGED res
        ELSE /\ ret = HTTPS_CLIENT_OK
             /\ res' = [res EXCEPT !.expected_content_length = Scanned(text) % UINT_RANGE]
    BY <1>1 DEF SetHeadersComplete
  <1> HIDE DEF named, wrong, text
  <1>3. ret \in {HTTPS_CLIENT_OK, HTTPS_CLIENT_INVALID_PARAMETER}
    BY <1>2
  <1> QED
    BY <1>3 DEF HTTPS_CLIENT_OK, HTTPS_CLIENT_INVALID_PARAMETER

\* What a step does to the first message, and what holds where it ends.
LEMMA WholeStep ==
    ASSUME WholeInv, PInv', EngineStep, Respond, History, NoError', wire.messages = 0
    PROVE  /\ cb'.for # "message_complete" => Framed(parser', wire'.body, declared')
           /\ cb'.for = "message_complete" /\ "F_CHUNKED" \notin parser'.flags
              /\ declared # ULLONG_MAX => wire.body = declared /\ Pending(call) = 0
           /\ wire'.messages = IF cb'.for = "message_complete" THEN 1 ELSE 0
  <1>1. /\ wire.body \in Nat /\ BodyInv /\ parser'.http_errno = "HPE_OK"
        /\ wire'.body = wire.body + Passed /\ NoError
        /\ wire'.messages = IF cb'.for = "message_complete" THEN 1 ELSE 0
    BY StepPasses DEF WholeInv, BodyInv, Wire, NoError
  <1>2. /\ declared' = IF cb'.for = "headers_complete" THEN parser'.content_length ELSE declared
        /\ last' = IF cb' = NoCb THEN last ELSE cb'.for
    BY DEF History
  <1>3. Framed(parser, wire.body, declared)
    BY <1>1 DEF WholeInv
  <1>4. CASE Run
    <2>1. Within
      BY <1>1, <1>2, <1>4, RunInCall DEF Within, BodyInv, RInv, PInv
    <2>2. parser.state \notin BodyMarked => Pending(call) = 0
      BY <2>1, PendingType DEF Pending
    <2> QED
      BY <1>1, <1>2, <1>3, <1>4, <2>1, <2>2, NoSkip, RunFramed
  <1>5. CASE (\E n \in 1..MaxLen : Execute(n)) \/ Finish
    <2>1. wire'.body = wire.body
      BY <1>1, <1>5, CallPasses DEF BodyInv, RInv
    <2>2. /\ Framed(parser', wire.body, declared)
          /\ cb'.for \in {"none", "message_complete"}
          /\ cb'.for = "message_complete" => declared = ULLONG_MAX
      BY <1>1, <1>3, <1>5, CallFramed DEF BodyInv, RInv
    <2> QED
      BY <1>1, <1>2, <2>1, <2>2
  <1> QED
    BY <1>4, <1>5 DEF EngineStep

LEMMA WholeInvNext ==
    ASSUME WholeInv, RStep PROVE WholeInv'
  <1>1. BodyInv'
    BY BodyInvNext DEF WholeInv
  <1>2. CASE Handled
    <2>1. EngineStep /\ Respond /\ History
      BY <1>2 DEF Handled
    <2>2. PInv'
      BY <1>1 DEF BodyInv, RInv
    <2>3. wire.messages \in Nat
      BY DEF WholeInv, BodyInv, Wire
    <2>4. wire'.messages = IF cb'.for = "message_complete" THEN wire.messages + 1
                                                           ELSE wire.messages
      BY <2>1, <2>2, StepPasses DEF WholeInv, BodyInv
    <2>5. wire'.messages = 0 => wire.messages = 0 /\ cb'.for # "message_complete"
      BY <2>3, <2>4
    <2> QED
      BY <1>1, <2>1, <2>2, <2>5, WholeStep DEF WholeInv
  <1>3. CASE UNCHANGED <<parser, wire, declared>>
    BY <1>1, <1>3 DEF WholeInv, NoError
  <1> QED
    BY <1>2, <1>3 DEF RStep, Free, rvars, pvars, vars

\* The parser goes on after a message that is complete.
LEMMA CompleteGoesOn ==
    ASSUME Protocol!Next, Respond, cb'.for = "message_complete" PROVE NoError'
  <1>1. cb'.ret = 0
    BY DEF Respond, PlainCallback
  <1>2. phase' = "idle"
    BY <1>1 DEF Protocol!Next, Protocol!MessageBegin, Protocol!Status,
         Protocol!HeaderField, Protocol!HeaderValue, Protocol!HeadersComplete,
         Protocol!ChunkHeader, Protocol!Body, Protocol!ChunkComplete,
         Protocol!MessageComplete, Protocol!Quiet, Protocol!Fail, Protocol!Calls,
         Protocol!Then, NoCb
  <1>3. phase' = PhaseFor(parser', last', eof')
    BY Mapping
  <1> QED
    BY <1>2, <1>3 DEF PhaseFor, NoError

LEMMA WholeAtEnd ==
    ASSUME WholeInv, RStep, wire'.messages = 1, wire.messages = 0,
           declared # ULLONG_MAX, "F_CHUNKED" \notin parser'.flags
    PROVE  res'.body_length = declared % UINT_RANGE
  <1>1. Handled
    BY DEF RStep, Free, rvars
  <1>2. EngineStep /\ Respond /\ History /\ last' = (IF cb' = NoCb THEN last ELSE cb'.for)
    BY <1>1 DEF Handled, History
  <1>3. PInv' /\ Protocol!Next
    BY <1>2, EngineImplements DEF WholeInv, BodyInv, RInv, EngineStep
  <1>4. cb'.for = "message_complete"
    BY <1>2, <1>3, StepPasses DEF WholeInv, BodyInv
  <1>5. NoError'
    BY <1>2, <1>3, <1>4, CompleteGoesOn
  <1>6. wire.body = declared /\ Pending(call) = 0
    BY <1>2, <1>3, <1>4, <1>5, WholeStep
  <1>7. SameCounts
    BY <1>2, <1>3, <1>4, <1>5, RespondCounts DEF WholeInv, BodyInv, NoError
  <1>8. NoError /\ wire.body \in Nat
    BY <1>2, <1>3, <1>5, StepPasses DEF WholeInv, BodyInv, NoError, Wire
  <1>9. res.body_length = wire.body % UINT_RANGE
    <2>1. BodyCounted
      BY <1>8 DEF WholeInv, BodyInv
    <2>2. wire.body - Pending(call) = wire.body
      BY <1>6, <1>8
    <2> QED
      BY <2>1, <2>2 DEF BodyCounted
  <1> QED
    BY <1>6, <1>7, <1>9 DEF SameCounts

\* Between two calls no byte of the body is waiting.
LEMMA BodyInvSent ==
    ASSUME BodyInv PROVE BodyAsSent
  <1>1. ~call.active => Pending(call) = 0
    BY PendingNat DEF BodyInv, RInv, PInv, IInv
  <1>2. wire.body \in Nat
    BY DEF BodyInv, Wire
  <1> QED
    BY <1>1, <1>2 DEF BodyInv, BodyCounted, BodyAsSent

-----------------------------------------------------------------------------
(* Theorems *)

\* The invariant holds in every reachable state of a response being parsed.
THEOREM ResponseInvariance == RSpec => []RInv
  <1>1. RInit => RInv
    BY RInitInv
  <1>2. RInv /\ [RNext]_rvars => RInv'
    BY RNextInv, StepsHandled
  <1> QED
    BY <1>1, <1>2, PTL DEF RSpec

\* The types of the response: no counter leaves its width, and the arrays of headers are
\* as long as their count says, whatever the peer sends and wherever memory runs out.
THEOREM ResponseTypes == RSpec => []ResponseTypeOK
  <1>1. ASSUME RInv PROVE ResponseTypeOK
    <2>1. TypeOK
      BY <1>1 DEF RInv, PInv, IInv, StateInv, ParserInv, TypeOK, CallbackRecord
    <2>2. res \in ResponseType /\ Shape(res)
      BY <1>1 DEF RInv, ResInv
    <2> QED
      BY <1>1, <2>1, <2>2 DEF ResponseTypeOK, RInv, DataOK, ResponseType, Shape, Uint
  <1> QED
    BY <1>1, ResponseInvariance, PTL

\* The process writes through a null pointer only once an allocation has failed.
THEOREM NullMeansNoMemory == RSpec => []NullOnlyOutOfMemory
  <1>1. RInv => NullOnlyOutOfMemory
    BY DEF RInv, ResInv, MemoryInv, NullOnlyOutOfMemory
  <1> QED
    BY <1>1, ResponseInvariance, PTL

\* What the counters of a body add up to, in every reachable state.
THEOREM BodyInvariance == RSpec => []BodyInv
  <1>1. RInit => BodyInv
    BY BodyInvInit
  <1>2. BodyInv /\ [RNext]_rvars => BodyInv'
    BY BodyInvNext, StepsHandled
  <1> QED
    BY <1>1, <1>2, PTL DEF RSpec

\* However the buffers cut a body, and however it is framed: between two calls every byte
\* of it has been counted, and handed to the client or stored.
THEOREM BodyDelivered == RSpec => []BodyAsSent
  BY BodyInvSent, BodyInvariance, PTL

\* Where the first message ends with a length announced and no chunks, the response has
\* counted as many bytes: a client that stops reading there has missed none.
THEOREM CompleteMeansWhole == RSpec => CompletedIsWhole
  <1>1. RInit => WholeInv
    BY WholeInvInit
  <1>2. WholeInv /\ [RNext]_rvars => WholeInv'
    BY WholeInvNext, StepsHandled
  <1>3. WholeInv /\ [RNext]_rvars
           => [/\ wire'.messages = 1 /\ wire.messages = 0 /\ declared # ULLONG_MAX
               /\ "F_CHUNKED" \notin parser'.flags
               => res'.body_length = declared % UINT_RANGE]_rvars
    BY WholeAtEnd, StepsHandled
  <1> QED
    BY <1>1, <1>2, <1>3, PTL DEF RSpec, CompletedIsWhole
=============================================================================
