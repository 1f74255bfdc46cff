-------------------------- MODULE ServerRefinement --------------------------
(***************************************************************************)
(* Server implements SerialServer when its clients keep the contract.  A   *)
(* command takes effect when it has run; partial reads, buffers, and what  *)
(* the thread waits for are hidden.                                        *)
(***************************************************************************)
EXTENDS Server

(* The commands run: LOAD and SEARCH when the thread is free again. *)
Done(s) == begun[s] - (IF pc[s] \in Reading \cup Running THEN 1 ELSE 0)

(* The commands sent and not run; a session that ended forgets them. *)
Pending(s) == IF pc[s] = "ended" THEN <<>> ELSE SubSeq(sent[s], Done(s) + 1, Len(sent[s]))

Texts(s) == [i \in DOMAIN replies[s] |-> replies[s][i].text]

Serial == INSTANCE SerialServer WITH
    pending <- [s \in Sessions |-> Pending(s)],
    answers <- [s \in Sessions |-> Texts(s)]

(* Whatever is read between whatever other steps, a command takes effect at *)
(* one point, on the status it needs, and its reply is its own.             *)
ImplementsSerialServer == Serial!Spec
=============================================================================
