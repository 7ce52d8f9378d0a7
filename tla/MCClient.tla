------------------------------ MODULE MCClient -------------------------------
(* A client and a server that answers with a Content-Length or until it closes. *)
EXTENDS ClientSession, Peers

Returned == {HTTPS_CLIENT_OK, HTTPS_CLIENT_NO_MEMORY, HTTPS_CLIENT_INVALID_PARAMETER}
=============================================================================
