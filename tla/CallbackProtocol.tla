-------------------------- MODULE CallbackProtocol --------------------------
(***************************************************************************)
(* What the engine promises to the code behind http_parser_settings: in    *)
(* which order the callbacks come, and that the body bytes they deliver    *)
(* add up to the length that was announced.  http_response.c is written    *)
(* against this protocol: it pairs a value with the field delivered before *)
(* it, and copies the body to an offset that only these bytes advance.     *)
(***************************************************************************)
EXTENDS Integers

CONSTANTS DataCb, NotifyCb, NoCb

VARIABLES
    phase,      \* how far the current message has been reported
    left,       \* body bytes still owed to the announced length, 0 if none are
    cb          \* the callback made by the last step, NoCb if none

Phase == {"idle",                       \* between messages
          "begun", "status",            \* the status line
          "name", "value",              \* the headers
          "body", "close",              \* a body of known length, or up to EOF
          "chunks", "chunk",            \* before a chunk header, inside a chunk
          "trailers", "tname", "tvalue",
          "done",                       \* only message_complete is missing
          "over"}                       \* an error: no callback ever again

Init == phase = "idle" /\ left = 0 /\ cb = NoCb

Calls(f) == cb'.for = f

\* The callback returned an error or the message goes on in phase s with n bytes owed
Then(s, n) ==
    \/ cb'.ret = 0 /\ phase' = s /\ left' = n
    \/ cb'.ret # 0 /\ phase' = "over" /\ left' = 0

MessageBegin == Calls("message_begin") /\ phase \in {"idle", "begun"} /\ Then("begun", 0)

Status == Calls("status") /\ phase \in {"begun", "status"} /\ Then("status", 0)

HeaderField ==
    /\ Calls("header_field")
    /\ \/ phase \in {"begun", "status", "name", "value"} /\ Then("name", 0)
       \/ phase \in {"trailers", "tname", "tvalue"} /\ Then("tname", 0)

\* A value only after its name: http_response counts headers by their values.  The
\* header block may prove too long just after a value was delivered.
HeaderValue ==
    /\ Calls("header_value")
    /\ \/ phase \in {"name", "value"} /\ Then("value", 0)
       \/ phase \in {"tname", "tvalue"} /\ Then("tvalue", 0)
       \/ phase \in {"name", "value", "tname", "tvalue"} /\ Then("over", 0)

\* The callback may return 1 or 2 to say that no body follows
HeadersComplete ==
    /\ Calls("headers_complete")
    /\ phase \in {"begun", "status", "value"}
    /\ \/ cb'.ret = 0 /\ phase' = "body" /\ left' > 0
       \/ cb'.ret = 0 /\ phase' \in {"close", "chunks", "done"} /\ left' = 0
       \/ cb'.ret \in {1, 2} /\ phase' = "done" /\ left' = 0
       \/ cb'.ret \notin {0, 1, 2} /\ phase' = "over" /\ left' = 0

\* The size of a chunk is announced, zero for the last one
ChunkHeader ==
    /\ Calls("chunk_header")
    /\ phase = "chunks"
    /\ \/ cb'.ret = 0 /\ phase' = "chunk" /\ left' > 0
       \/ Then("trailers", 0)

\* Never more bytes than were announced, and never an empty slice
Body ==
    /\ Calls("body") /\ cb'.n > 0
    /\ \/ phase = "body" /\ cb'.n = left /\ Then("done", 0)
       \/ phase \in {"body", "chunk"} /\ cb'.n <= left /\ Then(phase, left - cb'.n)
       \/ phase = "close" /\ Then("close", 0)

\* A chunk is complete once all its bytes have been delivered
ChunkComplete ==
    /\ Calls("chunk_complete")
    /\ \/ phase = "chunk" /\ left = 0 /\ Then("chunks", 0)
       \/ phase \in {"trailers", "tvalue"} /\ Then("done", 0)

MessageComplete ==
    /\ Calls("message_complete")
    /\ phase \in {"done", "close"}
    /\ Then("idle", 0)

Quiet == cb' = NoCb /\ UNCHANGED <<phase, left>>

\* The input is malformed, too long or cut short
Fail == cb' = NoCb /\ phase' = "over" /\ left' = 0

Next ==
    \/ MessageBegin \/ Status \/ HeaderField \/ HeaderValue \/ HeadersComplete
    \/ ChunkHeader \/ Body \/ ChunkComplete \/ MessageComplete
    \/ Quiet \/ Fail

Spec == Init /\ [][Next]_<<phase, left, cb>>
=============================================================================
