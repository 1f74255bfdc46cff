------------------------------- MODULE MCClient -------------------------------
(***************************************************************************)
(* Instances of Client for TLC: the programs that make a few of the calls  *)
(* below, in any order.                                                    *)
(***************************************************************************)
EXTENDS ClientRefinement

Shared == 1 .. 5
SharedOp == <<"ADD", "ADD", "LOAD", "LOAD", "SEARCH">>
SecondIdUnsendable == <<0, 2, 0, 0, 0>>

Sequential == 1 .. 5
SequentialOp == <<"ADD", "ADD", "LOAD", "SEARCH", "SEARCH">>
NoneUnsendable == [c \in Calls |-> 0]

OneDoc == [c \in Calls |-> 1]
OneQuery == [c \in Calls |-> 1]
TwoThenOne == <<1, 1, 1, 2, 1>>
=============================================================================
