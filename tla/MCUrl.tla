-------------------------------- MODULE MCUrl --------------------------------
(* URLs of every shape the states tell apart. *)
EXTENDS UrlGrammar

InSchema == {"a", ":", ".", "SP"}
InServer == {"a", "1", ":", "/", "?", "#", "@", "[", "]", "%"}
Later    == {"a", "?", "#", "/"}

OfferedChars ==
    [s \in UrlState |-> CASE s = "s_req_spaces_before_url" -> {"a", "/", "*", "1"}
                          [] s = "s_req_schema" -> InSchema
                          [] s \in {"s_req_schema_slash", "s_req_schema_slash_slash"} ->
                               {"/", "a"}
                          [] s \in Server -> InServer
                          [] OTHER -> Later]
=============================================================================
