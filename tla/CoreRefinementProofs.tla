------------------------ MODULE CoreRefinementProofs ------------------------
(***************************************************************************)
(* The proof that Core implements VectorCache, from Core's inductive       *)
(* invariant: initial states map to initial states, and each step of Core  *)
(* maps to a step of VectorCache or changes nothing there.                 *)
(***************************************************************************)
EXTENDS CoreProofs, CoreRefinement

LEMMA DivisionSet ==
    ASSUME TypeOK, quantizer # None
    PROVE  /\ Division = [v \in Vectors |-> Nearest(v)]
           /\ Division # None
<1>1. Division = [v \in Vectors |-> Nearest(v)]
  BY DEF Division
<1>2. \A v \in Vectors : Nearest(v) \in Cells
  BY RankedCells
<1>. QED
  BY <1>1, <1>2, NoneAssumption

LEMMA RefinedInit == Init => VC!Init
<1>. SUFFICES ASSUME Init PROVE VC!Init
  OBVIOUS
<1>. USE DEF Init
<1>1. Division = None
  BY DEF Division
<1>2. [c \in Cells |-> Asked(c)] = [c \in Cells |-> {}]
  BY DEF Asked
<1>3. {c \in Cells : InResidence(c)} = {}
  BY DEF InResidence
<1>4. [c \in Cells |-> Contents(c)] = [c \in Cells |-> {}]
  BY DEF Contents
<1>5. DOMAIN db = {}
  BY DEF Empty
<1>. QED
  BY <1>1, <1>2, <1>3, <1>4, <1>5 DEF VC!Init

(* What a step that leaves the engine's data alone is. *)
LEMMA RefinedStutter ==
    ASSUME UNCHANGED <<quantizer, index, registry, db>>
    PROVE  UNCHANGED VC!vars
<1>1. /\ Division' = Division
      /\ [c \in Cells |-> Asked(c)]' = [c \in Cells |-> Asked(c)]
      /\ {c \in Cells : InResidence(c)}' = {c \in Cells : InResidence(c)}
      /\ [c \in Cells |-> Contents(c)]' = [c \in Cells |-> Contents(c)]
  BY DEF index, registry, Division, Nearest, Asked, InResidence, Contents
<1>. QED
  BY <1>1 DEF VC!vars

LEMMA RefinedInitialize == Initialize => VC!Wipe
<1>. SUFFICES ASSUME Initialize PROVE VC!Wipe
  OBVIOUS
<1>. USE DEF Initialize
<1>1. Division' = None
  BY DEF Division
<1>2. [c \in Cells |-> Asked(c)]' = [c \in Cells |-> {}]
  BY DEF Asked
<1>3. {c \in Cells : InResidence(c)}' = {}
  BY DEF InResidence
<1>4. [c \in Cells |-> Contents(c)]' = [c \in Cells |-> {}]
  BY DEF Contents
<1>. QED
  BY <1>1, <1>2, <1>3, <1>4 DEF VC!Wipe

LEMMA RefinedTrain ==
    ASSUME IInv, NEW q \in Quantizers, Train(q)
    PROVE  VC!Divide \/ UNCHANGED VC!vars
<1>1. CASE quantizer # None
  BY <1>1, RefinedStutter DEF Train
<1>2. CASE quantizer = None
  <2>1. Division = None
    BY <1>2 DEF Division
  <2>2. quantizer' = q /\ q # None
    BY <1>2, NoneAssumption DEF Train
  <2>3. Division' = [v \in Vectors |-> q[v][1]]
    BY <2>2 DEF Division, Nearest
  <2>4. /\ [c \in Cells |-> Asked(c)]' = [c \in Cells |-> Asked(c)]
        /\ {c \in Cells : InResidence(c)}' = {c \in Cells : InResidence(c)}
        /\ [c \in Cells |-> Contents(c)]' = [c \in Cells |-> Contents(c)]
        /\ db' = db
    BY DEF Train, index, registry, Asked, InResidence, Contents
  <2>. QED
    BY <2>1, <2>3, <2>4 DEF VC!Divide
<1>. QED
  BY <1>1, <1>2

LEMMA RefinedAdd ==
    ASSUME IInv, IInv', NEW docs \in Batches, Add(docs)
    PROVE  VC!Register \/ UNCHANGED VC!vars
<1>1. CASE HasLongId(docs)
  BY <1>1, RefinedStutter DEF Add, Abort
<1>2. CASE ~HasLongId(docs)
  <2>1. /\ quantizer # None
        /\ ids_by_cell' = [c \in Cells |-> ids_by_cell[c] \cup PushesTo(c, docs)]
        /\ UNCHANGED <<quantizer, index, db>>
    BY <1>2 DEF Add, Ready
  <2>2. Division # None /\ Division' = Division
    BY <2>1, DivisionSet DEF IInv, Division, Nearest
  <2>3. \A c \in Cells : Asked(c) \subseteq Asked(c)' /\ Asked(c)' \subseteq Ids
    BY <2>1 DEF IInv, TypeOK, Asked
  <2>4. /\ {c \in Cells : InResidence(c)}' = {c \in Cells : InResidence(c)}
        /\ [c \in Cells |-> Contents(c)]' = [c \in Cells |-> Contents(c)]
        /\ db' = db
    BY <2>1 DEF index, InResidence, Contents
  <2>5. [c \in Cells |-> Asked(c)]' \in [Cells -> SUBSET Ids]
    BY <2>3
  <2>6. \A c \in Cells : [d \in Cells |-> Asked(d)][c] \subseteq [d \in Cells |-> Asked(d)]'[c]
    BY <2>3
  <2>. QED
    BY <2>2, <2>4, <2>5, <2>6 DEF VC!Register
<1>. QED
  BY <1>1, <1>2

LEMMA RefinedLoadCell ==
    ASSUME IInv, NEW c \in Cells, LoadCell(c)
    PROVE  VC!Fetch(c) \/ UNCHANGED VC!vars
<1>1. CASE AssertFails(c)
  BY <1>1, RefinedStutter DEF LoadCell, Abort
<1>2. CASE ~AssertFails(c)
  <2>. DEFINE heldNow == [d \in Cells |-> Contents(d)]
              placed == {[id |-> id, embedding |-> db[id]] : id \in Placed(c)}
  <2>1. /\ ~InResidence(c)
        /\ quantizer # None
        /\ data_map' = DataMapWith(c)
        /\ invlists' = [invlists EXCEPT ![c] = @ \cup PlacedLabels(c)]
        /\ residence_statuses' =
              [residence_statuses EXCEPT ![c] = Cardinality(ids_by_cell[c])]
        /\ UNCHANGED <<quantizer, registry, db>>
    BY <1>2, LoadingFacts DEF LoadCell
  <2>2. \A id \in Placed(c) : id \in DOMAIN id_map /\ id_map[id] \notin DOMAIN data_map
    BY <1>2, PlacedFacts
  <2>3. Division = [v \in Vectors |-> Nearest(v)] /\ Division # None /\ Division' = Division
    BY <2>1, DivisionSet DEF IInv, Division, Nearest
  <2>4. VC!Documents(c) = placed
    <3>1. \A id \in DOMAIN db : db[id] \in Vectors
      BY DEF IInv, TypeOK
    <3>2. {i \in Asked(c) \cap DOMAIN db : Division[db[i]] = c} = Placed(c)
      BY <2>3, <3>1 DEF Placed, Answered
    <3>. QED
      BY <3>2 DEF VC!Documents
  <2>5. ASSUME NEW d \in Cells, NEW x \in Contents(d), NEW y \in placed
        PROVE  x.id # y.id
    <3>1. PICK l \in invlists[d] \cap DOMAIN data_map : x = data_map[l]
      BY DEF Contents
    <3>2. x.id \in DOMAIN id_map /\ id_map[x.id] = l
      BY <3>1 DEF IInv, ListedDataBelongs
    <3>3. y.id \in Placed(c)
      OBVIOUS
    <3>. QED
      BY <2>2, <3>1, <3>2, <3>3
  <2>6. {d \in Cells : InResidence(d)}' = {d \in Cells : InResidence(d)} \cup {c}
    <3>1. Cardinality(ids_by_cell[c]) \in Nat
      BY FS_CardinalityType DEF IInv, VectorsFinite
    <3>. QED
      BY <2>1, <3>1 DEF IInv, TypeOK, InResidence
  <2>7. /\ DOMAIN data_map' = DOMAIN data_map \cup PlacedLabels(c)
        /\ \A l \in DOMAIN data_map : data_map'[l] = data_map[l]
    BY <2>1 DEF DataMapWith
  <2>8. Contents(c)' = placed
    <3>1. invlists[c] = {}
      BY <2>1 DEF IInv, ListedDataBelongs
    <3>2. invlists'[c] = PlacedLabels(c)
      BY <2>1, <3>1 DEF IInv, TypeOK
    <3>3. ASSUME NEW id \in Placed(c)
          PROVE  data_map'[id_map[id]] = [id |-> id, embedding |-> db[id]]
      <4>. DEFINE same == CHOOSE i \in Placed(c) : id_map[i] = id_map[id]
      <4>1. same \in Placed(c) /\ id_map[same] = id_map[id]
        OBVIOUS
      <4>2. same = id
        BY <2>2, <4>1 DEF IInv, LabelIsFirstPush
      <4>3. id_map[id] \in PlacedLabels(c)
        BY DEF PlacedLabels
      <4>4. data_map'[id_map[id]] = [id |-> same, embedding |-> db[same]]
        BY <2>1, <2>2, <4>3 DEF DataMapWith
      <4>. QED
        BY <4>2, <4>4
    <3>4. Contents(c)' = {data_map'[l] : l \in PlacedLabels(c)}
      BY <2>7, <3>2 DEF Contents
    <3>5. {data_map'[l] : l \in PlacedLabels(c)} = {data_map'[id_map[id]] : id \in Placed(c)}
      BY DEF PlacedLabels
    <3>6. {data_map'[id_map[id]] : id \in Placed(c)} = placed
      BY <3>3
    <3>. QED
      BY <3>4, <3>5, <3>6, Zenon
  <2>9. ASSUME NEW d \in Cells, d # c
        PROVE  Contents(d)' = Contents(d)
    <3>1. invlists'[d] = invlists[d] /\ invlists[d] \subseteq DOMAIN data_map
      BY <2>1, <2>9 DEF IInv, TypeOK, IndexMatchesDataMap
    <3>. QED
      BY <2>7, <3>1 DEF Contents
  <2>10. heldNow' = [heldNow EXCEPT ![c] = VC!Documents(c)]
    BY <2>4, <2>8, <2>9
  <2>11. [d \in Cells |-> Asked(d)]' = [d \in Cells |-> Asked(d)] /\ db' = db
    BY <2>1 DEF registry, Asked
  <2>12. c \notin {d \in Cells : InResidence(d)}
    BY <2>1
  <2>13. \A d \in Cells : \A x \in heldNow[d], y \in VC!Documents(c) : x.id # y.id
    BY <2>4, <2>5
  <2>. QED
    BY <2>3, <2>6, <2>10, <2>11, <2>12, <2>13 DEF VC!Fetch
<1>. QED
  BY <1>1, <1>2

LEMMA RefinedEvict ==
    ASSUME IInv, NEW t \in Targets, Evict(t)
    PROVE  VC!Drop
<1>. DEFINE out == Evicted(t)
            gone == UNION {invlists[c] : c \in out}
            residents == {c \in Cells : InResidence(c)}
            heldNow == [c \in Cells |-> Contents(c)]
<1>1. /\ quantizer # None
      /\ data_map' = [l \in DOMAIN data_map \ gone |-> data_map[l]]
      /\ invlists' = [c \in Cells |-> IF c \in out THEN {} ELSE invlists[c]]
      /\ residence_statuses' = [c \in Cells |-> IF c \in out THEN -1 ELSE residence_statuses[c]]
      /\ UNCHANGED <<quantizer, registry, db>>
  BY DEF Evict, Ready
<1>2. out \subseteq Cells
  <2>1. t.xq \in Vectors /\ t.n \in 1 .. NCells
    BY InputsAssumption DEF Commands
  <2>. QED
    BY <1>1, <2>1, NearestAreCells DEF IInv, Evicted
<1>3. residents' = residents \ out
  BY <1>1 DEF InResidence
<1>4. ASSUME NEW c \in Cells, c \in residents'
      PROVE  Contents(c)' = Contents(c)
  <2>1. c \notin out
    BY <1>3, <1>4
  <2>2. invlists'[c] = invlists[c] /\ invlists[c] \cap gone = {}
    BY <1>1, <1>2, <2>1 DEF IInv, IndexMatchesDataMap
  <2>3. \A l \in invlists[c] : /\ l \in DOMAIN data_map <=> l \in DOMAIN data_map'
                               /\ l \in DOMAIN data_map => data_map'[l] = data_map[l]
    BY <1>1, <2>2
  <2>. QED
    BY <2>2, <2>3 DEF Contents
<1>5. ASSUME NEW c \in Cells, c \notin residents'
      PROVE  Contents(c)' = {}
  <2>1. invlists'[c] = {}
    BY <1>1, <1>3, <1>5 DEF IInv, ListedDataBelongs
  <2>. QED
    BY <2>1 DEF Contents
<1>6. heldNow' = [c \in Cells |-> IF c \in residents' THEN heldNow[c] ELSE {}]
  BY <1>4, <1>5
<1>7. /\ Division' = Division
      /\ [c \in Cells |-> Asked(c)]' = [c \in Cells |-> Asked(c)]
      /\ db' = db
  BY <1>1 DEF registry, Division, Nearest, Asked
<1>. QED
  BY <1>3, <1>6, <1>7 DEF VC!Drop

LEMMA RefinedWrite ==
    ASSUME NEW id \in Ids,
           DbDelete(id) \/ \E v \in Vectors : DbPut(id, v)
    PROVE  VC!Write
<1>1. UNCHANGED <<quantizer, index, registry>>
  BY DEF DbPut, DbDelete
<1>2. /\ Division' = Division
      /\ [c \in Cells |-> Asked(c)]' = [c \in Cells |-> Asked(c)]
      /\ {c \in Cells : InResidence(c)}' = {c \in Cells : InResidence(c)}
      /\ [c \in Cells |-> Contents(c)]' = [c \in Cells |-> Contents(c)]
  BY <1>1 DEF index, registry, Division, Nearest, Asked, InResidence, Contents
<1>3. /\ DOMAIN db' \in {DOMAIN db \cup {id}, DOMAIN db \ {id}}
      /\ \A i \in DOMAIN db' \ {id} : db'[i] = db[i]
  BY DEF DbPut, DbDelete
<1>. QED
  BY <1>2, <1>3 DEF VC!Write

LEMMA RefinedStep ==
    ASSUME IInv, [Next]_vars
    PROVE  [VC!Next]_(VC!vars)
<1>1. IInv'
  BY NextInv
<1>2. CASE AddAny
  BY <1>1, <1>2, RefinedAdd DEF AddAny, VC!Next
<1>3. CASE Initialize
  BY <1>3, RefinedInitialize DEF VC!Next
<1>4. CASE \E q \in Quantizers : Train(q)
  BY <1>4, RefinedTrain DEF VC!Next
<1>5. CASE \E c \in Cells : LoadCell(c)
  BY <1>5, RefinedLoadCell DEF VC!Next
<1>6. CASE \E t \in Targets : Evict(t)
  BY <1>6, RefinedEvict DEF VC!Next
<1>7. CASE (\E id \in Ids, v \in Vectors : DbPut(id, v)) \/ (\E id \in Ids : DbDelete(id))
  BY <1>7, RefinedWrite DEF VC!Next
<1>8. CASE \/ \E t \in Targets : LoadBegin(t)
           \/ \E c \in Cells : SkipCell(c)
           \/ \E c \in Cells : LoadHttpError(c)
           \/ LoadReply
  BY <1>8, RefinedStutter DEF LoadBegin, SkipCell, LoadHttpError, LoadReply
<1>9. CASE \E s \in Searches : Search(s)
  BY <1>9, RefinedStutter DEF Search, Abort
<1>10. CASE UNCHANGED vars
  BY <1>10, RefinedStutter DEF vars
<1>. QED
  BY <1>2, <1>3, <1>4, <1>5, <1>6, <1>7, <1>8, <1>9, <1>10 DEF Next, OtherStep

(* The engine, its database and its failures implement the cache of whole   *)
(* cells, for every number of cells, quantizer, batch and interleaving.     *)
THEOREM CoreImplementsVectorCache == Spec => ImplementsVectorCache
<1>1. IInv /\ [Next]_vars => [VC!Next]_(VC!vars)
  BY RefinedStep
<1>. QED
  BY <1>1, RefinedInit, Invariance, PTL DEF Spec, ImplementsVectorCache, VC!Spec
=============================================================================
