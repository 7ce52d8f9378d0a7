------------------------ MODULE MCHttpParserProtocol ------------------------
(* The engine with the history variable of the protocol. *)
EXTENDS HttpParserProtocol, Peers
=============================================================================
