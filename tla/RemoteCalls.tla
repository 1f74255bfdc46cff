----------------------------- MODULE RemoteCalls -----------------------------
(***************************************************************************)
(* What a program that awaits each call before the next may rely on: one   *)
(* call at a time is in progress; a command takes effect at most once, and *)
(* a call that returns has taken effect.  A call that fails has taken      *)
(* effect or not, or takes effect later, even after calls that follow it.  *)
(***************************************************************************)
CONSTANT Calls

VARIABLES
    state,  \* per call: "idle", "busy", "returned" or "failed"
    effect  \* the calls whose command has run

vars == <<state, effect>>

Init ==
    /\ state = [c \in Calls |-> "idle"]
    /\ effect = {}

Begin(c) ==
    /\ \A d \in Calls : state[d] # "busy"
    /\ state[c] = "idle"
    /\ state' = [state EXCEPT ![c] = "busy"]
    /\ UNCHANGED effect

TakeEffect(c) ==
    /\ state[c] \in {"busy", "failed"}
    /\ c \notin effect
    /\ effect' = effect \cup {c}
    /\ UNCHANGED state

Succeed(c) ==
    /\ state[c] = "busy"
    /\ c \in effect
    /\ state' = [state EXCEPT ![c] = "returned"]
    /\ UNCHANGED effect

Fail(c) ==
    /\ state[c] = "busy"
    /\ state' = [state EXCEPT ![c] = "failed"]
    /\ UNCHANGED effect

(* A call that meets a wrong argument or a refused connection at once.      *)
FailAtOnce(c) ==
    /\ \A d \in Calls : state[d] # "busy"
    /\ state[c] = "idle"
    /\ state' = [state EXCEPT ![c] = "failed"]
    /\ UNCHANGED effect

Next ==
    \E c \in Calls :
        Begin(c) \/ TakeEffect(c) \/ Succeed(c) \/ Fail(c) \/ FailAtOnce(c)

Spec == Init /\ [][Next]_vars
=============================================================================
