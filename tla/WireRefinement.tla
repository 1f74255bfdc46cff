--------------------------- MODULE WireRefinement ---------------------------
(***************************************************************************)
(* Wire implements Exchange.  The segments, the buffers and the counters   *)
(* of the client's parse are hidden: a command is served when the handler  *)
(* has its arguments, whatever is written and read of the reply later.     *)
(***************************************************************************)
EXTENDS Wire

AnswersTo == [p \in Calls |->
    IF p.command = "SEARCH"
    THEN {ReadBack(f) : f \in {g \in Found : Len(g) = Len(p.vectors)}}
    ELSE {<<>>}]

(* A handler that runs with other arguments than were meant, or leaves      *)
(* bytes of the command behind, serves no call.                             *)
Serving ==
    CASE phase \in {"line", "static", "dynamic"} -> "waiting"
      [] phase = "terminated" -> "ended"
      [] phase \in {"reply", "done"} ->
            IF Meant(call) /\ input = <<>> /\ wire = <<>> THEN "served" ELSE "misread"

Answer == IF phase \in {"reply", "done"} /\ call.command = "SEARCH" THEN ReadBack(found) ELSE <<>>

Outcome ==
    CASE outcome = "none" -> "none"
      [] outcome = "ok" -> "returned"
      [] outcome \in {"PeriplusServerError", "struct.error"} -> "raised"

Returns == IF outcome = "ok" /\ call.command = "SEARCH" THEN results ELSE <<>>

Exch == INSTANCE Exchange WITH
        Answers <- AnswersTo,
        server  <- Serving,
        answer  <- Answer,
        outcome <- Outcome,
        value   <- Returns

(* However the stream and the reply are cut, a call that ends was served    *)
(* once, with the arguments it meant, and one that returns has what the     *)
(* server found and nothing else; the server ends only before it serves.    *)
ImplementsExchange == Exch!Spec
=============================================================================
