--------------------------- MODULE ClientRefinement ---------------------------
(***************************************************************************)
(* Client, used by a program that awaits each call, implements RemoteCalls. *)
(***************************************************************************)
EXTENDS Client

CallState == [c \in Calls |->
    IF pc[c] = "idle" THEN "idle"
    ELSE IF pc[c] # "done" THEN "busy"
    ELSE IF outcome[c] = "ok" THEN "returned"
    ELSE "failed"]

Remote == INSTANCE RemoteCalls WITH state <- CallState, effect <- {c \in Calls : ran[c] > 0}

(* Under the contract, whatever the network and the server do, a command    *)
(* runs at most once, and has run when its call returns; one whose call     *)
(* raised may still run later.                                              *)
ImplementsRemoteCalls == Remote!Spec
=============================================================================
