------------------------------ MODULE MCServer ------------------------------
(***************************************************************************)
(* Instances of Server for TLC: one connection on which more is sent than  *)
(* on the others.                                                          *)
(***************************************************************************)
EXTENDS ServerRefinement

CONSTANTS a, b

TwoEach == [s \in Sessions |-> 2]
Four == [s \in Sessions |-> 4]
ThreeAndOne == [s \in Sessions |-> IF s = a THEN 3 ELSE 1]
ThreeAndTwo == [s \in Sessions |-> IF s = a THEN 3 ELSE 2]
=============================================================================
