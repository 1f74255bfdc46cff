--------------------------- MODULE CoreRefinement ---------------------------
(***************************************************************************)
(* Core implements VectorCache.  The division is the nearest centroid; a   *)
(* cell's documents are what the data map has for the labels in the cell's *)
(* inverted list; labels, ids_by_cell's repetitions, residence counts and  *)
(* the LOAD in progress are hidden.  SEARCH and every failure are stutters.*)
(***************************************************************************)
EXTENDS Core

Division == IF quantizer = None THEN None ELSE [v \in Vectors |-> Nearest(v)]

VC == INSTANCE VectorCache WITH
        Places     <- {[v \in Vectors |-> q[v][1]] : q \in Quantizers},
        place      <- Division,
        registered <- [c \in Cells |-> Asked(c)],
        resident   <- {c \in Cells : InResidence(c)},
        held       <- [c \in Cells |-> Contents(c)]

(* Every step of the engine is a step a cache of whole cells may take: what *)
(* a LOAD leaves in a cell is exactly what the database had for it, all at  *)
(* once, and nothing but an EVICT or an INITIALIZE takes it away.           *)
ImplementsVectorCache == VC!Spec
=============================================================================
