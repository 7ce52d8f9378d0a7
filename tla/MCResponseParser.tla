-------------------------- MODULE MCResponseParser --------------------------
(* The engine with the response it fills in. *)
EXTENDS ResponseParser, Peers

Returned == {HTTPS_CLIENT_OK, HTTPS_CLIENT_NO_MEMORY, HTTPS_CLIENT_INVALID_PARAMETER}
=============================================================================
