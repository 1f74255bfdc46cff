---------------------------- MODULE SerialServer ----------------------------
(***************************************************************************)
(* What clients of Periplus may assume: one server that takes whole        *)
(* commands, one at a time, each session's in the order sent, each only    *)
(* when the cache is in a state for it, and answers each with its own      *)
(* reply.  A client that hangs up loses what was not done yet, and the     *)
(* reply.  (src/clients/python/docs/api_reference.md.)                     *)
(***************************************************************************)
EXTENDS Sequences

CONSTANT Sessions

VARIABLES
    status,  \* "UNINITIALIZED", "INITIALIZED" or "READY"
    pending, \* per session: the commands sent and not done
    answers, \* per session: the replies
    gone     \* per session: the client has hung up

vars == <<status, pending, answers, gone>>

Init ==
    /\ status = "UNINITIALIZED"
    /\ pending = [s \in Sessions |-> <<>>]
    /\ answers = [s \in Sessions |-> <<>>]
    /\ gone = [s \in Sessions |-> FALSE]

Issue(s) ==
    /\ ~gone[s]
    /\ \E c \in {"INITIALIZE", "TRAIN", "ADD", "LOAD", "SEARCH", "EVICT"} :
          pending' = [pending EXCEPT ![s] = Append(@, c)]
    /\ UNCHANGED <<status, answers, gone>>

(* INITIALIZE is possible at any time, TRAIN after it, the rest after TRAIN. *)
Serve(s) ==
    /\ pending[s] # <<>>
    /\ LET c == Head(pending[s])
       IN  /\ \/ c = "INITIALIZE" /\ status' = "INITIALIZED"
              \/ c = "TRAIN" /\ status # "UNINITIALIZED" /\ status' = "READY"
              \/ c \notin {"INITIALIZE", "TRAIN"} /\ status = "READY" /\ UNCHANGED status
           /\ \/ ~gone[s] /\ answers' = [answers EXCEPT ![s] = Append(@, c)]
              \/ gone[s] /\ UNCHANGED answers
    /\ pending' = [pending EXCEPT ![s] = Tail(@)]
    /\ UNCHANGED gone

Leave(s) ==
    /\ gone' = [gone EXCEPT ![s] = TRUE]
    /\ UNCHANGED <<status, pending, answers>>

Forget(s) ==
    /\ gone[s]
    /\ pending' = [pending EXCEPT ![s] = <<>>]
    /\ UNCHANGED <<status, answers, gone>>

Next == \E s \in Sessions : Issue(s) \/ Serve(s) \/ Leave(s) \/ Forget(s)

Spec == Init /\ [][Next]_vars
=============================================================================
