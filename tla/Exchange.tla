------------------------------ MODULE Exchange -------------------------------
(***************************************************************************)
(* What a client program promises of one request: in the end it has        *)
(* decided, and it takes an answer for complete only if all of it has      *)
(* arrived.  An answer larger than the client's buffer is cut off, without *)
(* an error.                                                               *)
(***************************************************************************)
VARIABLES
    answer,     \* how much of the server's answer has been read: "part" or "whole"
    outcome     \* what the client makes of it, "pending" until it has decided

xvars == <<answer, outcome>>

Init == answer = "part" /\ outcome = "pending"

Arrive == outcome = "pending" /\ answer = "part" /\ answer' = "whole" /\ UNCHANGED outcome

Complete == answer = "whole" /\ outcome' = "complete"

CutOff == answer = "part" /\ outcome' = "cut off"

Fail == outcome' \in {"failed", "crashed"}

Decide == outcome = "pending" /\ (Complete \/ CutOff \/ Fail) /\ UNCHANGED answer

Next == Arrive \/ Decide

Spec == Init /\ [][Next]_xvars /\ WF_xvars(Decide)
=============================================================================
