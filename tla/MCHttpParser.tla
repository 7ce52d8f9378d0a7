---------------------------- MODULE MCHttpParser ----------------------------
(* The engine alone. *)
EXTENDS HttpParser, Peers

\* What headers_complete may ask for, and an error
AnyRet == {-1, 0, 1, 2}
=============================================================================
