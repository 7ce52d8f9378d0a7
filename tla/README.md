# simple_C_http_parser in TLA+

The repository wraps the streaming parser of node's `http_parser` so that a C program
can split a URL, build a request and read the response to it; two example programs do all
of this over a socket. These modules model the library and what the examples do with it.
TLC checks the models on small instances. For every value of the constants TLAPS proves the
invariants of the engine, that it implements the protocol of its callbacks, that the response
is filled with what the peer sent, that fields of URLs are their own, and what requests say.

Paths below are relative to `src/`, the root of the repository.

## 1. The system

| part | code | state | operations |
|---|---|---|---|
| engine, response path | `http_parser/http_parser.c` | `struct http_parser` (state, header_state, flags, nread, content_length, ...); in a call, the offset `p` and one mark per string | `http_parser_init`, `http_parser_execute` (a call with `len = 0` is the end of the input) |
| engine, request path | the same | the same | not reached: `response_parser_init` creates a parser of type `HTTP_RESPONSE` |
| engine, URL grammar | the same, `http_parser_parse_url`, `http_parse_host` | none between calls; in one, the state, the offset and the `http_parser_url` being filled in | split and check a URL |
| response accumulator | `src/http_response.c` | status, header arrays, two concat flags, body block, lengths, offset | one handler per callback, `find_header`, `init`, `free` |
| response parser | `src/response_parser.c` | the engine, its settings, `res`, `body_cb` | ten callbacks, `init`, `execute`, `finish`, `free` |
| URL parser | `src/http_parse_url.c` | one `static` pointer shared by all URLs, and the fields of each `parse_url_t` | `init`, `string`, `free` |
| request builder | `src/request_builder.c` | method, a pointer to the URL, two arrays of headers and their count | `init`, `set_method`, `set_parsed_url`, `set_header`, `has_header`, `build`, `free` |
| clients | `examples/get_ip.c`, `examples/temp_cli.c`, `examples/url_parser.c` | socket, counters of bytes sent and received, a result | connect, write loop, read loop, finish, exit |
| common | `src/common.c`, `include/common.h` | none | `strcicmp`, constants |
| log | `log/log.c` (vendored) | level, callbacks, lock | `log_log`, `log_add_*`, `log_set_*` |

**Interaction.** A client owns all objects and one thread. It splits a URL, hands the
`parse_url_t` to a builder, which keeps the pointer and copies the host into a header, and
sends what `build` returns. It passes each buffer it reads to `response_parser_execute`,
which calls `http_parser_execute`, which calls the `rp_on_*` callbacks, which call the
handlers of `http_response.c`. A handler's result goes back to the engine, where anything
but 0 ends the call and the parser for good. The slices given to a handler point into the
client's buffer and are copied. Between calls only the parser and the response remember
anything.

**What is hard.** There are no threads in the library; the difficulty is in the cuts and in
the order of calls. A buffer may end between any two bytes, so every string may reach its
handler in any number of parts, and each `goto reexecute`, mark and counter has to survive
being interrupted there. Memory may run out in any call, and few results are looked at. The
peer may send any bytes, close or reset at any moment, or send several messages on one
connection. Lengths have two representations that need not agree (64 bits in the engine, an
`int` read by `sscanf` in the accumulator). Nothing is reset between two messages into one
`http_response_t`. All URLs share one block. A builder may be built twice, and holds a
pointer to a URL that may be freed or parsed again meanwhile.

**What makes each part correct**

- engine: no `assert` fails; one framing per message; slices lie in their buffer; a call
  returns and consumes everything unless it fails or the connection is upgraded; callbacks
  come in the order and with the bytes announced; flags say what the headers say.
- URL grammar: accepted are exactly the URLs of the grammar, cut where it says; a field
  that is reported lies in the text whatever happens later; no `assert` fails.
- accumulator and response parser: names and values are those sent, paired as sent; body
  bytes are counted once and stay in their block; complete means whole; blocks are big
  enough and freed; NULL is written through only if memory ran out.
- URL parser: an object's fields come from its own string, whatever is done with others.
- request builder: a request carries the headers asked for; the request line and the Host
  header name the same URL, and the server the client connects to; the length announced is
  the length sent; what `build` writes fits what it allocated.
- clients: they decide in the end, report success only for a whole answer, and then show
  that answer.

`PROJECT.json` lists the hazards behind these, each at its line.

## 2. The modules

| module | what it is |
|---|---|
| `Lexemes` | what a byte is to the engine: separators, digits and the halves of the words it matches |
| `HttpParser` | the engine on responses, one action per case of the switch, its properties |
| `HttpParserProofs` | the inductive invariant of `HttpParser`, the invariant of the refinement, and the theorems |
| `CallbackProtocol` | abstract: the order of the callbacks and the body bytes still owed |
| `HttpParserProtocol` | the refinement mapping from the engine to `CallbackProtocol` |
| `HttpResponse` | the handlers of `http_response.c`, with the memory they allocate |
| `ResponseParser` | composes `HttpParserProtocol` (the engine) and `HttpResponse`: callbacks, init, execute, finish, free; history of what was sent; properties |
| `RecursionLemmas` | lemmas on recursive functions over an interval, and the induction they need |
| `ResponseParserProofs` | the handlers, the counters of the body, how a message is framed; the theorems about these |
| `HeaderTextProofs` | that names and values are those sent, what the engine matches of a name, the block of the body |
| `Exchange` | abstract: what a client promises of one request |
| `ClientSession` | composes `ResponseParser` with a client of `examples/` and a connection; refines `Exchange` |
| `ClientSessionProofs` | that what a client prints is the answer, and that the parser keeps its promises to a client |
| `UrlSteps` | the two loops over a URL as functions of their locals, and both at once as a function of the string |
| `UrlParser` | the same a step at a time, on a URL chosen as it is read |
| `UrlGrammar` | what a URL is and which fields it has, cut at delimiters; the reference for `UrlParser` |
| `UrlStepsProofs` | the inductive invariant of the two loops over a URL; what a call leaves is determined by the string |
| `UrlParserProofs` | the theorems about `UrlParser`, from the invariants of the loops, and that it implements `UrlGrammar` |
| `ParseUrl` | several `parse_url_t` over the static block |
| `RequestBuilder` | composes a builder with the URLs of `ParseUrl`; properties |
| `RequestBuilderProofs` | the invariants of the URLs, the memory and the builder, and the theorems |
| `Peers` | servers for model checking: which lexemes may come in which state |
| `MCHttpParser`, `MCHttpParserProtocol`, `MCResponseParser`, `MCClient`, `MCUrl`, `MCRequest` | the instances TLC checks |

Operators whose comment begins with `wrong:` are deliberate mistakes (a mark not cleared,
a slice one byte too long, a block sized for one part). They stand just before the
definition they spoil, are used by no specification, and each shows that some property
would notice.

### How HttpParser corresponds to the code

- `parser` is `struct http_parser`. Fields a response never uses, `type`, `method` and the
  lenient bit are left out; `index` is what `header_state` and the half-word already say.
- `call` holds the locals of `http_parser_execute`: the buffer's length, the offset of
  `p`, the byte under the switch, the four marks, and how far the inner loops over a name
  or a value have run (their bytes are counted into `nread` when the loop ends).
- `Execute(n)` enters the function with a buffer of `n` bytes. `Fetch` is the head of the
  `for`. Each `case` is an action of the same name in camel case. `goto reexecute` leaves
  the byte under the switch and changes the state. `EndOfBuffer` is the code after the
  loop, one callback for the one open string. `Finish` is the call with `len = 0`.
- A step makes at most one callback. It is recorded in `cb` with the offset, the length
  and the value it returned; `CbRet` says which values there are. A case with two
  callbacks (the end of the headers, the end of a body) is two states in the code as well.
- `COUNT_HEADER_SIZE`, `CALLBACK_NOTIFY`, `CALLBACK_DATA`, `MARK`, `REEXECUTE`,
  `UPDATE_STATE`, `RETURN` are operators of the same meaning, with the error paths and
  the values returned on each.
- A byte is chosen when it is first examined, which is when its value begins to matter.

### How ResponseParser corresponds to the code

A step of the engine that makes a callback is conjoined with the handler's effect on
`res`, and the value the handler returns is the one the engine goes on with. `data` is
what the parser has read of the client's buffer; a slice is cut out of it. `body_cb` is the
field `rp->body_cb`, which `response_parser_init` does not set: it may hold `NULL` (memory
that was zero), `"user"` (the client assigns the public field itself) or `"garbage"`, a
call through which is undefined; the model lets it return at best. `freed` is set by
`response_parser_free` and `http_response_free`, which clients call together.

A block of memory is its size and its text. `live` counts blocks, `overrun` says that a
write left its block, `null` that one went through a null pointer, after which the process
is over, `oom` that an allocation has failed. `wire` and `declared` are history: what the
peer sent, collected byte by byte with no regard to buffers, and the Content-Length the
parser acts on.

### How ClientSession corresponds to the code

`get_ip.c` (`main`) and `temp_cli.c` (`http_make`) contain the same program from `connect`
to `exit`. `client` holds its variables and its place; `Connect`, `Write`, `Receive`,
`Parsing` (a call of `response_parser_execute`, step by step), `Check` (the tests after
it), `ReadNothing` (`read` returned 0 or -1), `Finishing` and `Exit` are the places. A
`write` may take any part or nothing, a `read` may bring any part of what was asked.
`conn` is the connection, which the server may close or reset whenever it likes. `whole`
is history: all of the announced body has been sent, reckoned from `wire`.

### How the URL modules correspond to the code

The record `c` of `UrlSteps` holds the locals of `http_parser_parse_url` and
`http_parse_host` and the struct `*u`. `UrlStep` and `HostStep` are one turn of each loop:
the transition (`parse_url_char`, `http_parse_host_char`) and what the turn writes.
`UrlEnd`, `HostStart`, `HostEnd` and `Port` are the code between and after the loops.
`UrlParser` takes the steps as actions (`ReadUrl`, `EndUrl`, `ReadHost`, `EndHost`);
`http_parser_parse_url(buf, u)` takes them all, for `ParseUrl`, where a call is one action
because nothing can come in between. Nothing initialises the block of `parse_url_init`, so
it begins with any contents of `Memory`.

`parse_url` holds the objects of `ParseUrl`, `h_parse_url` the static pointer. `life` says
whether an object has been through init, string and free; clients call these in this order,
and those on different objects mix. In `RequestBuilder`, `rb` is the `request_builder_t`,
whose `parsed_url` is the name of an object; `request` is the text that `build` returned,
taken apart. `fault` names the first thing the process did that is undefined (`"null"`,
`"freed"`, `"heap"`, `"slots"`), after which the run stops. History: `given`, the string of
an object; `asked`, the headers added successfully, with the URL they come from;
`builds`, the body sizes; `astray`, which out-of-the-ordinary things the caller or the
allocator did, for the exceptions the properties state.

### Abstractions

- A word the engine matches (a header name, `chunked`, `close`, ...) is two lexemes, so a
  buffer can end inside it. `"connec"` + `"tion"` also stands for Proxy-Connection, which
  the code treats alike. `"ver"` and `"code"` stand for the rest of the version and a whole
  status code, inside which no callback can fall.
- A character of a URL stands for those the macros of `http_parser.c:412` treat alike. The
  schemas that are compared with (`http`, `https`) are single letters; `ws` and `wss` are
  treated alike.
- Names of methods and headers in `RequestBuilder` are one character long. Sizes are counted
  from the texts, so this scales them and no more.
- `sscanf("%d")` is the value of the leading digits, modulo `UINT_RANGE`.
- What follows an overrun in the accumulator is left as the code would read it back;
  properties about values say whether they still claim anything then.
- Memory: any handler's allocation may fail, each time; of the allocations of
  `response_parser_init` and `http_response_init` at most one; in `ParseUrl` and
  `RequestBuilder` those of one call (`Fails`), so that the later calls show what a failed
  one left behind.
- The end of the input happens once and nothing follows it.
- The tests of arguments against `NULL` are left out: no caller in the repository passes it.

### Not modelled, and why

- The request path of the engine, `HTTP_BOTH`, `http_parser_pause`, `lenient_http_headers`,
  `HTTP_PARSER_STRICT = 0`, `is_connect`: no code of the project reaches them.
  `parse_url_char`, the part of it that URLs share, is modelled.
- `set_url`, `set_method` and the lookups and getters of `http_response.c`: no response
  calls `on_url`, a response's method is a constant, a lookup changes nothing.
- `skip_content_length` of the builder: declared, and read by nothing.
- In the clients, the lines that compose the request (`RequestBuilder` has the calls), what
  is printed, and the sensor readings of `temp_cli.c`, which are files. `url_parser.c` is
  one sequence of the calls of `ParseUrl`. That `build`'s blocks are never freed by the
  clients is not counted as a leak of the library.
- Interim answers (1xx) and HEAD: no client sends HEAD, and nothing in the repository says
  what a client should do with a 1xx.
- `log/`: a vendored logger, called from one thread without a lock, a callback or a level
  set. It has no state the other parts read.

## 3. What is checked

The passing runs take between 15 seconds and three minutes with two workers.

| run | result | question |
|---|---|---|
| `MCFraming` | holds | `TypeOK`, `AtMostOneMark`, `Asserts`, `OneFraming`, `SlicesInBuffer`, `ConsumesAll`, `ImplementsProtocol`, against a peer that sends the lexemes of all three framings in any order, callbacks that may fail |
| `MCConnection` | holds | `Asserts`, `ConsumesAll`, `ExecuteReturns` (every call returns) when `headers_complete` may return 1, 2 or an error, with Connection and Upgrade headers and both versions |
| `MCHeaders` | holds | `HeadersAsSent`, `FlagsAsSent`, `NoConcatToNull`, `ResponseTypeOK`: names and values in parts, folded, empty, up to the limit on headers, memory running out; Connection lists and Transfer-Encoding with blanks, tabs, folds, empty and half-known elements, however cut |
| `MCBodies` | holds | `HeadersAsSent`, `BodyAsSent`, `BodyInBlock`, `CompletedIsWhole`, `NullOnlyOutOfMemory`: two messages with a length, chunked or ended by the close, stored or handed on, memory running out from `init` on |
| `MCClient` | holds | `ImplementsExchange`, `ResponseIsAnswer`, `WholeIsNotFailed`: a whole exchange over a connection that may break anywhere, with `NULL` or garbage in `body_cb` |
| `MCUrl` | holds | `SplitAsWritten`, `FieldsInBuffer`, `UrlAsserts`: URLs of every shape, offsets that wrap |
| `MCRequest` | holds | ten invariants about URLs and requests: any order of calls on two URLs and a builder, any one call out of memory |
| `MCValueBlocks` | violated | a header value in two parts stays in its block |
| `MCSlots` | violated | the arrays have room for every accepted header |
| `MCStatusText` | violated | the status message is the whole reason phrase |
| `MCFree` | violated | `http_response_free` frees every block |
| `MCNullBodyCb` | violated | a `NULL` body callback means that the response stores the body |

The invariants of `MCRequest`: `FieldsOfOwnUrl` and `MakesRequestLine` (what
`parse_url_string` leaves, also of a URL that was rejected), `HeadersAsAsked`, `FramesBody`
(the Content-Length is there, once per build, and right), `BuildFits`, `SlotsCounted`,
`LineNamesHost` (request line and Host header come from one URL), `HostNamesServer` (Host
names the port the client connects to), `NullExplained` and `NothingLeaks` (what goes wrong
with memory is confined to the uses they name).

### Refinements

- `HttpParserProtocol` maps the engine to `CallbackProtocol`: `phase` is computed from the
  parser's state, the flags and the last callback, `left` from `content_length` and the
  bytes of the open slice; `cb` is `cb`.
- `ClientSession` maps a client to `Exchange`: the answer is `"whole"` when the bytes sent
  make it so (not when the parser says so), the outcome is what `http_make` returns.
  `Exchange` has a fairness condition, so the refinement includes that a client decides.

### Bounds, and why they are enough

- `MaxLen = 2`: buffers of one or two lexemes. Every cut between two lexemes occurs, with
  one and with two of them in a buffer, and a buffer of two can both end one string and
  begin the next. What a call remembers of longer buffers is one offset and one mark; the
  theorems hold for every length. In `MCClient` reads of up to 3 lexemes can bring the end
  of an answer and something behind it.
- `HTTP_MAX_HEADER_SIZE`, 80 KiB in the code, is 11 to 17 lexemes. It is itself a limit
  under test, and it bounds the runs: 16 admit a status line, a Content-Length and a
  Transfer-Encoding header in one message, 11 a status line and one header that frames the
  body. The 17 of `MCHeaders` admit three short headers, or two and a fold, or a list with
  two known elements, with a fold or a tab between them.
- `ULLONG_MAX = 29`: small enough that two digits reach both sides of the conservative
  limit `(ULLONG_MAX - 10) / 10`; `UINT_RANGE = 16` likewise for the `uint32_t` fields.
- `MAX_HEADERS_COUNT = 3` in `MCHeaders` and `MCRequest`, so that the limit on headers is
  met; in `MCSlots` 12 pointers and 100 headers are scaled down to 1 and 4.
- `MaxMessages`, `MaxBody`: no further buffer is read after so many complete messages or
  body bytes. They are guards of `Parse` in `ResponseParser` and bound nothing else.
- `RequestSize = 2`, `BufferSize = 13` in `MCClient`: a request that may be written in two
  parts, and a buffer that answers with a body fill.
- `MaxUrl = 9`, `UINT16_RANGE = 9` in `MCUrl`: nine characters hold a schema, user info, a
  host or an address in brackets, and a port, a path or a query; with nine values of an
  offset a URL wraps. `SplitAsWritten` claims nothing where it does; `FieldsInBuffer` does.
- `MaxCalls = 7` in `MCRequest`: enough to parse two URLs and build a request to one of them,
  to parse one URL, add headers and build twice, or to build, free and begin again. A body of
  12 bytes has a length of as many digits as the buffer for it has bytes. `BUFFER = 2` and `UINT32_RANGE = 48` bring the ten bytes
  for the length and the 32 bits of the size within reach. The four URLs are a plain one with
  a query, one with user info, a port and a path, one rejected at a space, one rejected at
  once. Symmetry exchanges the two objects.
- `Peers` restricts what is sent, never when it is cut. `FramingPeer` and `ConnectionPeer`
  send their lexemes anywhere, ill-formed messages included. The others send well-formed
  messages, since their properties compare with what was sent.

### Fairness

- `Spec` has `WF_vars(Run)`: a call, once entered, is executed by the caller's thread until
  it returns. Nothing is assumed of the client or the peer: a client may never call again.
  A step that reexecutes a byte without changing anything would be a stutter; the property
  notices it because fairness then does not help the call to return.
- `CSpec` has `WF` of `Client`, the client's thread between reads, and of `Server`: a server
  whose answer is not whole sends more of it or disconnects. The clients set no timeout, so
  without this they wait for ever in `read`. After the last byte nothing is assumed: a
  client that reads on then waits, and `ImplementsExchange` says that none does.

### Exceptions written into the properties

Each is a way in which the code does less than one may think; the properties name it so
that everything else is claimed.

- `FlagsAsSent` says what the engine makes of a list, which is less than a reader of header
  values would in these cases. `Stops` says where it reads no further: behind a comma, at
  another comma, a tab or another separator (`http_parser/http_parser.c:1617`; the test for a
  tab at 1614 is made of `ch | 0x20` and never holds), and at a line that continues the list,
  unless a comma ended the line before (1499, 1502). `Lists`: an element followed by a tab,
  or by the end of such a line, is not the element. `Hides`: an empty first element, or one
  that is only the first half of a known word, takes the comma behind it for one of its
  bytes, and the next element is missed (1494, 1626); of messages with such a list nothing
  is claimed about Connection. A `chunked` that is continued on another line is not chunked.
- `BodyInBlock` is about the first message into a response and lengths that both readers
  understand alike (`LengthsAgree`). A second message on the same `http_response_t` finds the
  block of the first, and its body is copied behind the first: with a length announced
  nothing resizes the block, and `memcpy` leaves it.
- `HeadersAsSent` claims values only while no value has left its block (`MCValueBlocks`).
- `ResponseIsAnswer` excepts a read that brought the beginning of another answer behind the
  end of the first, which is parsed into the same response. It says that the body is stored
  where `body_cb` is `NULL`, which `response_parser_init` leaves to chance (`MCNullBodyCb`),
  and claims nothing once a body has been handed to a garbage pointer.
- `Exchange` has an outcome for the answer that fills the client's buffer (`"cut off"`), which
  the clients report as they do a success.
- `FramesBody` excepts sizes of ten digits and more, which `snprintf` cuts; requests built
  with different sizes, whose Content-Lengths accumulate; and clients that add framing
  headers themselves, but for `Transfer-Encoding: chunked` in exactly these letters.
- `BuildFits` excepts a chunked request that has a body nevertheless (it is copied but not
  counted) and sizes of more than 32 bits.
- `SlotsCounted` says when the arrays are overrun: `set_header` compares with nothing.
- `LineNamesHost` excepts objects parsed again while a builder points at them.
- `HostNamesServer` excepts addresses in brackets, which the Host header shows bare, and
  URLs whose length is more than an offset of 16 bits can hold; `MakesRequestLine` claims the
  beginning of the path only for URLs whose offsets do not wrap.
- `NullExplained` names the ways to a null pointer: out of memory, built without a URL, or
  two URLs whose lives overlap over the one static block. `NothingLeaks` holds without these
  and with one parse per object.

### What the violated runs show

1. `set_header_value` (`src/http_response.c:177`) resizes a continued value with the
   length of the new part alone and appends behind the old one.
2. `http_response_init` (`src/http_response.c:25`) allocates `sizeof(char[100])`, 12
   pointers, for each of two arrays; the handlers accept up to 99 headers.
3. `set_status` (`src/http_response.c:59`) keeps only the last part of a reason phrase.
4. `http_response_free` (`src/http_response.c:31`) leaves the two arrays, a name without
   a value, and earlier status messages allocated.
5. `response_parser_init` never stores its `body_cb` argument, and
   `rp_on_body_callback` calls whatever the field holds.

Seen while modelling, without a run of their own: `parse_url_init`
(`src/http_parse_url.c:10`) tests its argument instead of the block it has allocated, so it
returns 0 without one, where `include/http_parse_url.h:21` promises -1 (`NullExplained`
counts what follows as memory running out). `http_parser/http_parser.h:300` gives
content_length as 0 without a Content-Length header, and it is `ULLONG_MAX` there
(`http_parser/http_parser.c:757`).

## 4. What is proved

Eight modules, 22599 obligations; each specification is proved about for every value of the
constants that satisfies the assumptions named where they are declared. Buffers, messages,
URLs and sequences of calls are of any length. An invariant that was to be proved was first
checked by TLC on the runs of section 3, `HeadersInv` on `MCHeaders` and `MCBodies` for
instance.

### The engine

`HttpParserProofs`, for every `HTTP_MAX_HEADER_SIZE`, `ULLONG_MAX > 16`, `MaxLen`, `Peer`
and `CbRet`:

| theorem | statement |
|---|---|
| `Invariance` | `Spec => []IInv` |
| `TypeCorrect` | `Spec => []TypeOK` |
| `OneMark` | `Spec => []AtMostOneMark`, the `assert` after the loop |
| `NoAssertFails` | `Spec => []Asserts`, the `assert`s of the body, chunk and header cases |
| `FramedOnce` | `Spec => []OneFraming` |
| `SlicesBounded` | `Spec => SlicesInBuffer` |
| `AllConsumed` | `Spec => ConsumesAll` |

None of the properties is inductive. `IInv` adds:

- `Offsets`: in a call, `p`, the inner loop's run and every mark lie inside the buffer. A
  slice is a difference of these, so it lies in the buffer too.
- `MarkInv`: a string's mark is set only in the states that read it. Two marks would need
  a state of two strings, and there is none; this is also why the mark left by one buffer
  cannot be used in the next.
- `LengthInv`: `content_length` is either accumulated below the limit of `Overflow`, or
  the value for "no length", and which of the two follows from the state and the flags.
  The assertions of the body and chunk states need it, and so does its not becoming
  negative.
- `FlagsInv`: which flags a message may have once its headers have ended; a chunk state
  implies `F_CHUNKED`, a body read by length implies `F_CONTENTLENGTH`.
- `HeaderInv`: which `header_state` each header case can meet.
- `CountInv`: `nread` is 0 before and 1 after the first byte of a chunk size is read.

`StepOK` states for one step what the invariant and the two action properties need; there
is one lemma per action (and per macro with a callback), and the steps of `Next` are
joined in `Invariance`. The action properties follow from `StepOK` in states of `IInv`.

`HttpParserProofs`, of `HttpParserProtocol`, for the same constants:

| theorem | statement |
|---|---|
| `ProtocolInvariance` | `PSpec => []PInv` |
| `Implements` | `PSpec => ImplementsProtocol`, the refinement of `CallbackProtocol` |

The phase of the protocol is a function of the state, except inside the headers, where it is
the last callback that tells. `PInv` therefore adds to `IInv` which callback may have been
the last in each state (`LastOK`). For that no string may be passed over without its callback,
which is `StringOpen`: a string that is being read is marked, unless it has been delivered
and the buffer is at its end. With these, every action of the engine maps to an action of
`CallbackProtocol` or to a stutter, and the results of the callbacks are free.

### The response

`ResponseParserProofs` and `HeaderTextProofs`, over the same constants and every
`MAX_HEADERS_COUNT`, `HEADER_SLOTS`, `UINT_RANGE` and pattern of failing mallocs:

| theorem | statement |
|---|---|
| `ResponseInvariance` | `RSpec => []RInv` |
| `ResponseTypes` | `RSpec => []ResponseTypeOK` |
| `NullMeansNoMemory` | `RSpec => []NullOnlyOutOfMemory` |
| `BodyInvariance` | `RSpec => []BodyInv` |
| `BodyDelivered` | `RSpec => []BodyAsSent` |
| `CompleteMeansWhole` | `RSpec => CompletedIsWhole` |
| `HeaderTextInvariance` | `RSpec => []HeadersInv` |
| `HeadersDelivered` | `RSpec => []HeadersAsSent` |
| `MatchingInvariance` | `RSpec => []MatchInv` |
| `NoConcatReached` | `RSpec => NoConcatToNull` |
| `BodyBlockHolds` | `RSpec => []BodyInBlock` |

- `RInv` is `PInv` with the shapes of the two arrays and what may be missing once memory ran
  out (`ResInv`), linked to the protocol: `Linked` says from the phase which array the last
  callback extended and that it can be extended again. It is proved handler by handler, each
  in the phases its callback can come in; this is where the refinement is used.
- `BodyInv` accounts for the bytes of a body: those consumed are those delivered and those
  behind the mark of the string that is open. Counting modulo `UINT_RANGE` needs that adding
  and wrapping commute (`AddModulo`).
- `WholeInv`, behind `CompleteMeansWhole`, says for every state how the message is framed
  (`Framed`): before the body nothing was sent, in a body read by length what was sent and
  what is still expected are the declared length.
- `HeadersInv` says of every state what `HeadersAsSent` says of the end of the headers: the
  names and values sent so far are those the response holds, the bytes of the open string,
  from its mark to the byte under the switch, being part of the last one. A step extends the
  open string, delivers it or leaves it alone. The lemmas named `Told` say what each of the
  three does to the invariant, and the others show each step of the engine to be one of them.
- `MatchInv` ties the `header_state` of the engine to the bytes of the name sent so far: while
  it says that the name begins as "Content-Length" does, it does, and the flag is set only
  once such a header has been read, whose value is a number. The handler, which scans the
  headers for itself, then finds a Content-Length where the engine has one, and one that
  begins with a digit: `set_headers_complete` allocates a block whenever a body can follow,
  and `NoConcatReached` and `BodyBlockHolds` rest on this. The block has room for what has
  been delivered, what lies behind the mark and what is still owed (`BlockInv`).

### A client

`ClientSessionProofs`, for every server, size of the buffer, limits and pattern of failing
mallocs:

| theorem | statement |
|---|---|
| `ClientInvariance` | `CSpec => []ClientInv` |
| `AnswerDelivered` | `CSpec => []ResponseIsAnswer` |
| `ParserServesClient` | `CSpec => [](HeadersAsSent /\ BodyAsSent /\ BodyInBlock) /\ CompletedIsWhole` |

`CSpec` calls the parser as the client does, which is not always within the bounds of `RSpec`,
so the theorems about `RSpec` do not apply as they stand. But the parser's part of a client's
step is an `RStep` (`ClientHandles`), which is all that the invariants of the parser need.
`ClientInv` adds two things about the loop that reads. The bytes of the body are among those
received (`Forth` follows the offset of every step of a call), and a client never receives
more than its buffer holds: so their count does not wrap. And a parser
that stops with an error between two messages leaves a byte of the piece it was given, so the
client, which compares what was parsed with what was read, has seen it: no success is reported
after an error that the end of a message hides.

`AnswerDelivered` assumes nothing of what the memory of a `response_parser_t` holds in
`body_cb`, a field `init` does not set. What it claims depends on it: the headers and the
length of the body in any case but that of a body handed to a garbage pointer, the stored
body where the field is `NULL`.

### URLs

`UrlStepsProofs` and `UrlParserProofs`, for every URL of any length, every `UINT16_RANGE` and
whatever malloc left in the struct:

| theorem | statement |
|---|---|
| `UrlInvariance` | `USpec => []IInv` |
| `FieldsBounded` | `USpec => []FieldsInBuffer` |
| `UrlAssertsHold` | `USpec => []UrlAsserts` |
| `SplitsAsWritten` | `USpec => []SplitAsWritten` |

A field that grows could leave the text in two ways, and the invariant excludes both. In the
first loop (`UrlInv`) the field that grows is one begun in this parse, never one whose offset
and length malloc or an earlier parse left there. In the second (`HostInv`) the host is
counted anew: its length is 0 in every state from which a host can begin, which is why moving
its offset does not push its end forward, and the field that grows ends where the loop
stands, which is inside the host of the first loop. Offsets and lengths that wrap only become
smaller. `UrlAsserts` follows from the transitions: every state but the error has a case
label (`NextKnown`).

`SplitsAsWritten` compares two ways to read a URL: the grammar has the whole text and cuts
it at marks, each the first of some characters behind another mark; the loops see a
character at a time, and the second sees what the first has called the host once more. Its
invariant is `SplitInv`, and says of each loop what it knows of the text `t` it has read:

- `ReadSoFar`, of the first loop. `Good(t)`: `t` may begin a URL. `Stage(s, t)`: between which
  marks the state stands; the marks move with every character (`MarksGrow`, a mark that is
  not found yet lies at the end of the text), and `StageSteps` shows that the state moves
  with them, or that it is the error and the longer text begins no URL. `Says(u, f, Cut(t)[f])`:
  the fields are the pieces so far, the authority being one piece yet. A character either
  belongs to the piece of the new state's field, which grows by it, or leaves every piece as
  it is (`CutStep`).
- `HostSoFar`, of the second. The text is whole now, and its marks stand still (`HostMarks`).
  `HostStage(s, t, x)`: where the character `x` lies between them and what has been found
  in order before it; `Tells(u, t, x)`: the fields of the authority up to `x`, the host being
  empty until it begins. One lemma per kind of state follows a turn (`UserTurn`, `StartTurn`,
  `NameTurn`, `V6Turn`, `ZoneTurn`, `EndTurn`, `PortTurn`): the error means that the URL is
  none, any other state that the piece is the one the character lies in. `HostEnds` says the
  same of the end of the authority.

`UrlIsGood` and `GoodIsUrl` join the two with the grammar: a URL begins as the first loop
requires, and what the first loop accepts is a URL unless the user information, the host or
the port is at fault, which the second loop finds. `Fits` bounds the URL and its pieces so
that no offset and no length that is reported wraps (`Small`); beyond it the theorem says
nothing, as the property does.

The lemmas of `UrlStepsProofs` that the request builder rests on are about a whole call:
`ParsedInv` (what it returns satisfies the invariant, the port being a number), `ParsedSame`
(it does not depend on what was in the struct: both runs of the loops agree on the fields the
parse has begun) and `ParsedText` (no field reaches over a space, a path begins with `/` or
`*`, the host of an accepted URL is made of the characters of hosts).

### URL objects and requests

`RequestBuilderProofs`, for any number of calls, any URLs, objects, headers and places, any
width of the sizes and the buffer, and any pattern of failing mallocs the model admits
(failures stay within one call):

| theorem | statement |
|---|---|
| `BuilderInvariance` | `BSpec => []IInv` |
| `HeadersKept` | `BSpec => []HeadersAsAsked` |
| `SlotsUsed` | `BSpec => []SlotsCounted` |
| `UrlsInvariance` | `BSpec => []UrlsInv` |
| `FieldsAreOwn` | `BSpec => []FieldsOfOwnUrl` |
| `LinesAreMade` | `BSpec => []MakesRequestLine` |
| `MemoryInvariance` | `BSpec => []MemoryInv` |
| `NullsExplained` | `BSpec => []NullExplained` |
| `AllFreed` | `BSpec => []NothingLeaks` |
| `LineMeantForHost` | `BSpec => []LineNamesHost` |
| `SizesInvariance` | `BSpec => []SizesInv` |
| `BuildsFit` | `BSpec => []BuildFits` |
| `FramesInvariance` | `BSpec => []FramesInv` |
| `BodyFramed` | `BSpec => []FramesBody` |
| `HostsInvariance` | `BSpec => []HostsInv` |
| `HostsNamed` | `BSpec => []HostNamesServer` |

- `IInv` relates the text of the last build and what was asked to the arrays in between: they
  begin with the headers added (`Match`), their count is the number of these, and what a
  failed call has left lies in the one place behind, which the next header overwrites
  (`Holds`). `WithHeaderInv` is this for one header, and three calls add one.
- `UrlsInv`: the shared struct is one whenever there is one, and each parsed object has the
  fields its own string is parsed into over a fresh struct. This is `ParsedSame` once more.
  `LinesAreMade` adds `ParsedText`.
- `MemoryInv` is the account of the heap: two objects are in use only if that was noted
  (`Sole`), an object in use has the shared block (`Held`), its five blocks are there
  (`AllCopied`), and `heap` less the headers is what these sum up to (`Accounted`). A builder
  has the URL of its last Host header (`UrlLinked`). Each part is excused by a note of what
  spoils it: memory that ran out, or objects that overlap.
- `LineInv` follows the last Host header: the URL the builder has, and the target of the last
  request, are those the header was made from (`HasLast`, `LineOf`).
- `SizesInv` says the texts have lengths, so that what `build` counts and what it writes are
  numbers; that they differ by the terminator is arithmetic then.
- `FramesInv`: a header that no client added is a Host or the Content-Length of one of the
  builds (`Origins`), and none of these follows a first header that says chunked
  (`ChunkedFirst`); the last request said the size of the body it was built with (`Said`).
- `HostsInv`: a Host header is the text of an object that held what its URL is parsed into.
  A reader finds the one colon in it, since no host has one, and reads the digits of the port
  as the number that was written (`DecimalSays`, `NumberWritten`).

### Recursive functions

`RecursionLemmas` has what the proofs about sums, digits and the loops over a URL share. A
recursive function is a `CHOOSE`: nothing is known of it before there is such a function
(`RecursionExists`, `LoopExists`). Induction is stated of a set and not of a formula
(`SetInduction`, `AllValues`, `IntervalInduction`), since the provers can instantiate a set;
a proof names the set of the places where the claim holds and shows it to be all of them.

### Assumptions

Beside the ranges of the numbers: `StringsAssumption` (a URL is a sequence of characters),
`UrlsAssumption` (the objects are none of them the null pointer), `InputsAssumption` (methods
and headers are texts, sizes are numbers), `MallocAssumption` and `AllocAssumption` (an
allocation may succeed), `ClientAssumption` (a client's buffer is smaller than the range of
an unsigned int; it has 4095 bytes, `get_ip.c:30`, `temp_cli.c:79`). TLC evaluates all of them in the runs.

**Only model-checked.**

- `ExecuteReturns` and `ImplementsExchange` need fairness and `ENABLED`.
- `FlagsAsSent`, for lists of up to two known elements (`MCHeaders`).
- `WholeIsNotFailed`, and with it the safety of `ImplementsExchange`, reckons a whole answer
  by its Content-Length, so it too holds for the servers of the runs alone.

## 5. Plan

Done: the engine on responses, its theorems, the protocol of its callbacks, the accumulator
composed with the engine; the URL grammar, its reference and the proof that they agree; the URL
objects and the request builder with theirs; a client over the whole response path.

What could follow:

1. Proofs: `FlagsAsSent`, with an invariant that ties `header_state` to the part of a list
   sent so far, as `MatchInv` does for names.
2. `HttpMessage`: the abstract value of a message (status, headers in order, body), with
   `ResponseParser` shown to implement the delivery of one where memory suffices.
3. `ClientSession` over answers that are chunked, whose engine states `MCBodies` has checked
   without a client.
