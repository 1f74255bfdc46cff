------------------------------- MODULE Exchange -------------------------------
(***************************************************************************)
(* What one call of the client is, without bytes: the server runs the      *)
(* command as it was meant, once, and then the call returns what the       *)
(* server found, or raises.  The server may end instead, but not once it   *)
(* has run the command, and then the call gets no answer.                  *)
(***************************************************************************)
CONSTANTS
    Calls,  \* the calls
    Answers \* per call, what the server may find

VARIABLES
    call,    \* the call made
    server,  \* "waiting", "served" or "ended"
    answer,  \* what the server has found
    outcome, \* "none", "returned" or "raised"
    value    \* what the call has returned

vars == <<call, server, answer, outcome, value>>

Init ==
    /\ call \in Calls
    /\ server = "waiting"
    /\ answer = <<>>
    /\ outcome = "none"
    /\ value = <<>>

Serve ==
    /\ server = "waiting"
    /\ server' = "served"
    /\ answer' \in Answers[call]
    /\ UNCHANGED <<call, outcome, value>>

End ==
    /\ server = "waiting"
    /\ server' = "ended"
    /\ UNCHANGED <<call, answer, outcome, value>>

Return ==
    /\ server = "served"
    /\ outcome = "none"
    /\ outcome' = "returned"
    /\ value' = answer
    /\ UNCHANGED <<call, server, answer>>

Raise ==
    /\ server = "served"
    /\ outcome = "none"
    /\ outcome' = "raised"
    /\ UNCHANGED <<call, server, answer, value>>

Next == Serve \/ End \/ Return \/ Raise

Spec == Init /\ [][Next]_vars
=============================================================================
