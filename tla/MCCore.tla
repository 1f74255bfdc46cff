------------------------------- MODULE MCCore -------------------------------
(***************************************************************************)
(* Instances of Core for TLC.  Centroids are points; a quantizer ranks the *)
(* cells by squared L2 distance, the lower cell first on a tie, which is   *)
(* what faiss::IndexFlatL2::search returns.                                *)
(***************************************************************************)
EXTENDS CoreRefinement

CONSTANTS d1, d2, long

(* Squared distance of two vectors of dimension 1 or 2. *)
Dist(u, v) ==
    LET sq(i) == (u[i] - v[i]) * (u[i] - v[i])
    IN  IF D = 1 THEN sq(1) ELSE sq(1) + sq(2)

(* The quantizer of the centroids cs, a vector per cell. *)
Ranked(cs) ==
    LET closer(v, a, b) ==
            \/ Dist(v, cs[a]) < Dist(v, cs[b])
            \/ Dist(v, cs[a]) = Dist(v, cs[b]) /\ a < b
    IN  [v \in Vectors |->
            CHOOSE r \in Rankings : \A i, j \in 1 .. NCells : i < j => closer(v, r[i], r[j])]

Doc(id, v) == [id |-> id, embedding |-> v]
Query(xq, k, nprobe, all) == [xq |-> xq, k |-> k, nprobe |-> nprobe, require_all |-> all]

(* One dimension, coordinates 0 to 2, two centroids at the ends. *)
Line == [c \in Cells |-> <<2 * c>>]

LineQuantizers == {Ranked(Line)}

(* d1 moves between the cells and is added twice; d2 comes twice in a batch. *)
LineBatches ==
    {<<Doc(d1, <<0>>)>>, <<Doc(d1, <<2>>)>>, <<Doc(d2, <<0>>), Doc(d2, <<2>>)>>}
(* Disciplined callers add an id once, and no long one: both are tried. *)
UniqueBatches ==
    {<<Doc(d1, <<0>>)>>, <<Doc(d2, <<1>>), Doc(d1, <<2>>)>>, <<Doc(d2, <<0>>)>>,
     <<Doc(long, <<2>>)>>}

LineTargets == [xq : {<<0>>, <<2>>}, n : {1, 2}]

NoSearches == {}

(* Two dimensions: centroids (0,0) and (1,1). *)
PlaneCentroids == {[c \in Cells |-> <<c, c>>], [c \in Cells |-> <<1 - c, 1 - c>>]}
PlaneQuantizers == {Ranked(cs) : cs \in PlaneCentroids}
PlaneBatches == {<<Doc(d1, <<0, 0>>), Doc(d2, <<1, 1>>)>>, <<Doc(long, <<0, 0>>)>>}
PlaneTargets == [xq : {<<0, 0>>, <<1, 1>>}, n : {1}]
PlaneSearches ==
    {Query(<<<<0, 0>>>>, 1, 1, TRUE), Query(<<<<1, 0>>>>, 2, 2, TRUE),
     Query(<<<<1, 1>>>>, 1, 2, FALSE)}
PlaneMany == {Query(<<<<0, 0>>, <<1, 1>>>>, 1, 1, TRUE)}
=============================================================================
