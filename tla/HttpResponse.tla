---------------------------- MODULE HttpResponse ----------------------------
(***************************************************************************)
(* The accumulator of src/http_response.c: the handlers that the parser's  *)
(* callbacks call, with the memory they allocate.                          *)
(*                                                                         *)
(* A block of memory is its size and, for a string, the text it reads as.  *)
(* Every malloc and realloc may fail when TRUE \in MallocFails.  Four      *)
(* history fields of res are about memory only: live counts the blocks     *)
(* allocated and not freed, oom says that an allocation has failed,        *)
(* overrun that a write went past the end of its block and null that one   *)
(* went through a null pointer, or into a block of no bytes.  After an     *)
(* overrun the text read back is what was written, which is what the       *)
(* statement's own reads see; nothing is claimed of a process after it.    *)
(***************************************************************************)
EXTENDS Integers, Sequences, FiniteSets, Lexemes

CONSTANTS
    MAX_HEADERS_COUNT,      \* common.h:13
    HEADER_SLOTS,           \* char pointers that fit in the 100 bytes of init: 12
    UINT_RANGE,             \* the values of a uint32_t, and of an int seen as one
    MallocFails             \* {FALSE}, or BOOLEAN: allocation may fail

ASSUME HeadersAssumption == MAX_HEADERS_COUNT \in Nat \ {0} /\ HEADER_SLOTS \in Nat
ASSUME UintAssumption    == UINT_RANGE \in Nat \ {0}
ASSUME MallocAssumption  == MallocFails \subseteq BOOLEAN /\ FALSE \in MallocFails

VARIABLE res                \* struct http_response and its blocks

HTTPS_CLIENT_OK == 0
HTTPS_CLIENT_NO_MEMORY == -3001
HTTPS_CLIENT_INVALID_PARAMETER == -3002

NULL == [text |-> <<>>, size |-> 0]

\* malloc(Len(text) + 1), the text and its terminator
Str(text) == [text |-> text, size |-> Len(text) + 1]

\* http_response_init: all fields zero and the two arrays of header pointers, those of
\* arrays; their mallocs are not checked
http_response_init(arrays) ==
    [status_code |-> 0, status_message |-> NULL,
     header_fields |-> <<>>, header_values |-> <<>>, headers_count |-> 0,
     concat_header_field |-> FALSE, concat_header_value |-> FALSE,
     expected_content_length |-> 0, is_chunked |-> FALSE,
     is_message_completed |-> FALSE,
     body |-> 0, body_length |-> 0, body_offset |-> 0, arrays |-> arrays,
     live |-> Cardinality(arrays), overrun |-> FALSE, null |-> FALSE,
     oom |-> arrays # {"fields", "values"}]

\* array[i] = block, i from 1 to one past the last element written so far
Put(array, i, block) ==
    IF i = Len(array) + 1 THEN Append(array, block) ELSE [array EXCEPT ![i] = block]

\* Each call overwrites the pointer of the one before
SetStatus(code, text, ret) ==
    \E fails \in MallocFails :
        /\ ret = IF fails THEN HTTPS_CLIENT_NO_MEMORY ELSE HTTPS_CLIENT_OK
        /\ res' = [res EXCEPT !.oom = @ \/ fails,
                              !.status_code = code,
                              !.status_message = IF fails THEN NULL ELSE Str(text),
                              !.live = IF fails THEN @ ELSE @ + 1]

\* wrong: a failed realloc is not reported
FailureForgotten(text, ret) ==
    LET i == res.headers_count + 1
        prev == res.header_fields[i]
    IN  /\ res.concat_header_field
        /\ IF prev = NULL
           THEN ret = HTTPS_CLIENT_INVALID_PARAMETER /\ UNCHANGED res
           ELSE \E fails \in MallocFails :
                   /\ ret = HTTPS_CLIENT_OK
                   /\ res' = [res EXCEPT
                         !.header_fields[i] = IF fails THEN NULL ELSE Str(prev.text \o text),
                         !.live = IF fails THEN @ - 1 ELSE @]

\* A name that continues the one before is appended to it
ConcatField(text, ret) ==
    LET i == res.headers_count + 1
        prev == res.header_fields[i]
    IN  /\ res.concat_header_field
        /\ IF prev = NULL
           THEN /\ ret = HTTPS_CLIENT_INVALID_PARAMETER
                /\ res' = [res EXCEPT !.concat_header_value = FALSE]
           ELSE \E fails \in MallocFails :
                   /\ ret = IF fails THEN HTTPS_CLIENT_NO_MEMORY ELSE HTTPS_CLIENT_OK
                   /\ res' = [res EXCEPT !.oom = @ \/ fails,
                         !.concat_header_value = FALSE,
                         !.header_fields[i] = IF fails THEN NULL ELSE Str(prev.text \o text),
                         !.live = IF fails THEN @ - 1 ELSE @]

\* wrong: the next value is taken for more of the last one
NewFieldKeepsConcat(text, ret) ==
    /\ ~res.concat_header_field
    /\ ret = HTTPS_CLIENT_OK
    /\ res' = [res EXCEPT !.concat_header_field = TRUE,
                          !.header_fields = Put(@, res.headers_count + 1, Str(text)),
                          !.live = @ + 1]

NewField(text, ret) ==
    LET i == res.headers_count + 1
    IN  /\ ~res.concat_header_field
        /\ IF res.headers_count >= MAX_HEADERS_COUNT - 1
           THEN /\ ret = HTTPS_CLIENT_NO_MEMORY
                /\ res' = [res EXCEPT !.concat_header_value = FALSE]
           ELSE \E fails \in MallocFails :
                   /\ ret = IF fails THEN HTTPS_CLIENT_NO_MEMORY ELSE HTTPS_CLIENT_OK
                   /\ res' = [res EXCEPT !.oom = @ \/ fails,
                         !.concat_header_value = FALSE,
                         !.concat_header_field = ~fails,
                         !.header_fields = Put(@, i, IF fails THEN NULL ELSE Str(text)),
                         !.live = IF fails THEN @ ELSE @ + 1,
                         !.overrun = @ \/ i > HEADER_SLOTS,
                         !.null = @ \/ "fields" \notin res.arrays]

SetHeaderField(text, ret) == ConcatField(text, ret) \/ NewField(text, ret)

\* wrong: every part of a value counts as a header
CountParts(text, ret) ==
    /\ res.concat_header_value
    /\ ret = HTTPS_CLIENT_OK
    /\ res' = [res EXCEPT !.concat_header_field = FALSE, !.headers_count = @ + 1,
                          !.header_values[res.headers_count].text = @ \o text]

\* A value that continues the one before: the block is resized to the new part alone
ConcatValue(text, ret) ==
    LET i == res.headers_count
        prev == res.header_values[i]
    IN  /\ res.concat_header_value
        /\ IF prev = NULL
           THEN /\ ret = HTTPS_CLIENT_INVALID_PARAMETER
                /\ res' = [res EXCEPT !.concat_header_field = FALSE]
           ELSE \E fails \in MallocFails :
                   /\ ret = IF fails THEN HTTPS_CLIENT_NO_MEMORY ELSE HTTPS_CLIENT_OK
                   /\ res' = [res EXCEPT !.oom = @ \/ fails,
                         !.concat_header_field = FALSE,
                         !.header_values[i] =
                             IF fails THEN NULL
                             ELSE [text |-> prev.text \o text, size |-> Len(text) + 1],
                         !.overrun = @ \/ (~fails /\ prev.text # <<>>),
                         !.live = IF fails THEN @ - 1 ELSE @]

NewValue(text, ret) ==
    LET i == res.headers_count + 1
    IN  /\ ~res.concat_header_value
        /\ IF res.headers_count >= MAX_HEADERS_COUNT - 1
           THEN /\ ret = HTTPS_CLIENT_NO_MEMORY
                /\ res' = [res EXCEPT !.concat_header_field = FALSE]
           ELSE \E fails \in MallocFails :
                   /\ ret = IF fails THEN HTTPS_CLIENT_NO_MEMORY ELSE HTTPS_CLIENT_OK
                   /\ res' = [res EXCEPT !.oom = @ \/ fails,
                         !.concat_header_field = FALSE,
                         !.concat_header_value = ~fails,
                         !.header_values = Put(@, i, IF fails THEN NULL ELSE Str(text)),
                         !.headers_count = IF fails THEN @ ELSE @ + 1,
                         !.live = IF fails THEN @ ELSE @ + 1,
                         !.overrun = @ \/ i > HEADER_SLOTS,
                         !.null = @ \/ "values" \notin res.arrays]

SetHeaderValue(text, ret) == ConcatValue(text, ret) \/ NewValue(text, ret)

\* strcicmp(name, "content-length") == 0
IsContentLength(text) == text = <<Letters("content-"), Letters("length")>>

\* What sscanf(text, "%d", &len) stores: the digits up to the first other byte
Scanned(text) ==
    LET Prefix(k) == \A i \in 1..k : IsNum(text[i])
        digits == CHOOSE k \in 0..Len(text) :
                     Prefix(k) /\ (k < Len(text) => ~Prefix(k + 1))
        value[i \in 0..digits] == IF i = 0 THEN 0 ELSE value[i - 1] * 10 + text[i].v
    IN  value[digits]

\* The first Content-Length header gives the expected length, as an int.  An empty value
\* makes sscanf return EOF, which the test of the code takes for success.
SetHeadersComplete(ret) ==
    LET named == {i \in 1..res.headers_count : IsContentLength(res.header_fields[i].text)}
        first == CHOOSE i \in named : \A j \in named : i <= j
        text == res.header_values[first].text
    IN  IF named = {}
        THEN ret = HTTPS_CLIENT_OK /\ UNCHANGED res
        ELSE IF text # <<>> /\ ~IsNum(text[1])
        THEN ret = HTTPS_CLIENT_INVALID_PARAMETER /\ UNCHANGED res
        ELSE /\ ret = HTTPS_CLIENT_OK
             /\ res' = [res EXCEPT !.expected_content_length = Scanned(text) % UINT_RANGE]

\* memcpy(r->body + r->body_offset, at, n) into r.body bytes
CopyBody(r, n) ==
    [r EXCEPT !.body_offset = (@ + n) % UINT_RANGE,
              !.overrun = @ \/ r.body_offset + n > r.body,
              !.null = @ \/ r.body = 0]

\* wrong: the body's block holds the latest slice only
LatestSliceOnly(r, n) == IF r.is_chunked THEN n ELSE r.expected_content_length

\* wrong: a body without a Content-Length gets a block of no bytes
AnnouncedOnly(r, n) == r.expected_content_length

\* The size of the body's block once a slice of n bytes fits, if it is allocated anew
BlockSize(r, n) ==
    CASE r.is_chunked /\ r.body # 0  -> r.body_offset + n
      [] r.is_chunked /\ r.body = 0  -> n
      [] OTHER                       -> r.expected_content_length

\* http_response_increase_body_length, then http_response_set_body.  The malloc is not
\* checked; realloc is, and its failure drops the body.
SetBody(n, ret) ==
    LET r == [res EXCEPT !.body_length = (@ + n) % UINT_RANGE,
                         !.is_chunked = @ \/ res.expected_content_length = 0]
        allocates == r.is_chunked \/ r.body = 0
    IN  \E fails \in MallocFails :
           IF fails /\ allocates /\ r.body # 0
           THEN /\ ret = HTTPS_CLIENT_NO_MEMORY
                /\ res' = [r EXCEPT !.oom = TRUE, !.body = 0, !.live = @ - 1]
           ELSE /\ ret = HTTPS_CLIENT_OK
                /\ res' = CopyBody([r EXCEPT
                         !.oom = @ \/ (fails /\ allocates),
                         !.body = CASE fails /\ allocates  -> 0
                                    [] ~fails /\ allocates -> BlockSize(r, n)
                                    [] OTHER               -> @,
                         !.live = IF ~fails /\ r.body = 0 THEN @ + 1 ELSE @], n)

SetChunked == res' = [res EXCEPT !.is_chunked = TRUE]

SetMessageComplete == res' = [res EXCEPT !.is_message_completed = TRUE]

\* http_response_free: the body, the status and the headers that are complete
Freed ==
    LET Live(array) == {i \in 1..res.headers_count : array[i] # NULL}
    IN  (IF res.body = 0 THEN 0 ELSE 1) + (IF res.status_message = NULL THEN 0 ELSE 1)
          + Cardinality(Live(res.header_fields)) + Cardinality(Live(res.header_values))

FreeResponse == res' = [res EXCEPT !.live = @ - Freed]
=============================================================================
