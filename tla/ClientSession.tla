---------------------------- MODULE ClientSession ----------------------------
(***************************************************************************)
(* The two clients of src/examples, which talk to a server alike           *)
(* (temp_cli.c http_make, get_ip.c main): connect, write the request in as *)
(* many pieces as it takes, read the answer into one buffer and parse each *)
(* piece as it comes, until a message is complete or the buffer is full.   *)
(*                                                                         *)
(* The server sends the bytes the Peer of the engine allows.  It may close *)
(* or reset the connection whenever it likes, and send on after the end of *)
(* its answer.  whole is history: the server's whole answer has been       *)
(* consumed, reckoned from the bytes sent and not by the parser's count.   *)
(***************************************************************************)
EXTENDS ResponseParser

CONSTANTS
    RequestSize,        \* strlen(request)
    BufferSize          \* sizeof(response) - 1

\* The buffer is an array on the stack of the client, far smaller than an unsigned int
ASSUME ClientAssumption ==
    RequestSize \in Nat \ {0} /\ BufferSize \in 1..(UINT_RANGE - 1)

VARIABLES
    client,             \* the variables of http_make and the place it is at
    conn,               \* the connection: "open", "closed" or "reset" by the server
    whole

cvars == <<rvars, client, conn, whole>>

CInit ==
    /\ RInit
    /\ client = [at |-> "connect", ret |-> 0, sent |-> 0, received |-> 0, bytes |-> 0]
    /\ conn = "open"
    /\ whole = FALSE

Here(place) == client.at = place
Go(place)   == client' = [client EXCEPT !.at = place]

\* ret = -1; goto exit
GiveUp == client' = [client EXCEPT !.ret = -1, !.at = "exit"]

Quiet == UNCHANGED <<rvars, conn, whole>>

\* response_parser_init may have written through NULL, or find no memory for the settings:
\* then return -1, at once.  socket, gethostbyname and connect go to exit if they fail.
Connect ==
    /\ Here("connect")
    /\ IF res.null THEN Go("crashed")
       ELSE \/ Go("write") \/ GiveUp
            \/ /\ TRUE \in MallocFails /\ ~res.oom
               /\ client' = [client EXCEPT !.ret = -1, !.at = "done"]
    /\ Quiet

\* One write: part of what is left, nothing (which ends the loop), or an error
Write ==
    /\ Here("write")
    /\ \/ \E n \in 1..(RequestSize - client.sent) :
             client' = [client EXCEPT !.sent = @ + n,
                                      !.at = IF client.sent + n < RequestSize THEN "write"
                                                                             ELSE "read"]
       \/ Go("read")
       \/ conn # "open" /\ GiveUp
    /\ Quiet

-----------------------------------------------------------------------------
(* Reading *)

\* The digits of a value as a number
Decimal(value) ==
    LET sum[i \in 0..Len(value)] == IF i = 0 THEN 0 ELSE sum[i - 1] * 10 + value[i].v
    IN  sum[Len(value)]

\* The headers are over and the server has sent the body they announce
EndOfAnswer(p, w) ==
    /\ p.state \in {"s_headers_done"} \cup BodyStates
    /\ \E i \in DOMAIN w.names \cap DOMAIN w.values :
          /\ IsContentLength(w.names[i])
          /\ w.body = Decimal(w.values[i])

\* What a step of the parser does besides, which may be to end the process
Response(c) ==
    /\ Respond
    /\ History
    /\ whole' = (whole \/ (~res'.null /\ EndOfAnswer(parser', wire')))
    /\ client' = IF res'.null THEN [c EXCEPT !.at = "crashed"] ELSE c
    /\ UNCHANGED <<body_cb, freed, conn>>

\* read returns n bytes and response_parser_execute is entered
Receive ==
    /\ Here("read") /\ conn = "open"
    /\ \E n \in 1..Lesser(MaxLen, BufferSize - client.received) :
          /\ Execute(n)
          /\ Response([client EXCEPT !.bytes = n,
                                     !.at = IF call'.active THEN "parse" ELSE "check"])

\* read returns 0 or an error: "server closed connection", "error reading response"
ReadNothing == Here("read") /\ conn # "open" /\ GiveUp /\ Quiet

Parsing ==
    /\ Here("parse")
    /\ Run
    /\ Response([client EXCEPT !.at = IF call'.active THEN "parse" ELSE "check"])

\* wrong: as many body bytes as were announced make a message
CompletedByLength(c) ==
    IF nparsed # c.bytes THEN [c EXCEPT !.ret = -1, !.at = "exit"]
    ELSE [c EXCEPT !.received = @ + c.bytes,
                   !.at = CASE res.body_length >= res.expected_content_length -> "finish"
                            [] c.received + c.bytes < BufferSize -> "read"
                            [] OTHER -> "exit"]

\* wrong: a message that is complete does not end the loop
ReadsOn(c) ==
    IF nparsed # c.bytes THEN [c EXCEPT !.ret = -1, !.at = "exit"]
    ELSE [c EXCEPT !.received = @ + c.bytes,
                   !.at = IF c.received + c.bytes < BufferSize THEN "read" ELSE "exit"]

\* After response_parser_execute: an error only if it did not take all the bytes
Checked(c) ==
    IF nparsed # c.bytes THEN [c EXCEPT !.ret = -1, !.at = "exit"]
    ELSE [c EXCEPT !.received = @ + c.bytes,
                   !.at = CASE res.is_message_completed -> "finish"
                            [] ~res.is_message_completed
                               /\ c.received + c.bytes < BufferSize -> "read"
                            [] OTHER -> "exit"]

Check == Here("check") /\ client' = Checked(client) /\ Quiet

\* response_parser_finish, whose outcome is not looked at
Finishing == Here("finish") /\ Finish /\ Response([client EXCEPT !.at = "exit"])

\* The end of http_make: what was received is freed
Exit ==
    /\ Here("exit")
    /\ Go("done")
    /\ FreeResponse /\ freed' = TRUE
    /\ UNCHANGED <<pvars, data, body_cb, passed, wire, declared, conn, whole>>

-----------------------------------------------------------------------------

\* The server closes or breaks the connection
Disconnect ==
    /\ conn = "open" /\ ~Here("done") /\ ~Here("crashed")
    /\ conn' \in {"closed", "reset"}
    /\ UNCHANGED <<rvars, client, whole>>

Client == Connect \/ Write \/ ReadNothing \/ Parsing \/ Check \/ Finishing \/ Exit

Over == Here("done") \/ Here("crashed")

CNext ==
    \/ Client \/ Receive \/ Disconnect
    \/ Over /\ UNCHANGED cvars

\* A server that has not sent its whole answer sends more or disconnects
Server == ~whole /\ Here("read") /\ (Receive \/ Disconnect)

\* The client is one thread, and writes and reads return once they can
CSpec == CInit /\ [][CNext]_cvars /\ WF_cvars(Client) /\ WF_cvars(Server)

-----------------------------------------------------------------------------
(* Properties *)

\* A full buffer is the one end of the loop that is no error and no end of the message
Full == client.received = BufferSize /\ ~res.is_message_completed

outcome ==
    CASE Here("crashed") -> "crashed"
      [] Here("done") /\ client.ret # 0 -> "failed"
      [] Here("done") /\ client.ret = 0 /\ ~Full -> "complete"
      [] Here("done") /\ client.ret = 0 /\ Full -> "cut off"
      [] OTHER -> "pending"

E == INSTANCE Exchange WITH answer <- (IF whole THEN "whole" ELSE "part"),
                            outcome <- outcome

\* The client decides in the end, if the server answers or disconnects, and reports
\* success only with the whole answer read or the buffer full: no wait for bytes that
\* do not come after the last one, no stop before it, and no answer that ends with the
\* connection taken for complete
ImplementsExchange == E!Spec

\* What a client prints after a success is the answer: the headers and the length of the
\* body are those the server sent, and the body is stored in full, unless the read that
\* brought its end brought the beginning of another answer too.  This depends on what
\* response_parser_init leaves in body_cb, which it never stores: the body is in the
\* response where that is NULL, and nothing is claimed once a body has been handed to
\* whatever garbage points at (NullCallbackStoresBody says that this does happen).
ResponseIsAnswer ==
    /\ outcome = "complete"
    /\ wire.messages = 1 /\ parser.state \in {"s_start_res", "s_dead"}
    /\ body_cb = "garbage" => wire.body = 0
    => /\ res.headers_count = Len(wire.names)
       /\ Texts(res.header_fields) = wire.names
       /\ res.body_length = wire.body
       /\ body_cb = "NULL" => res.body_offset = wire.body

\* Once the whole answer has been read and parsed without an error, that the server
\* disconnects then, in the middle of the client's last checks, does no harm
WholeIsNotFailed == outcome = "failed" /\ whole => ~NoError
=============================================================================
