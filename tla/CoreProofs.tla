----------------------------- MODULE CoreProofs -----------------------------
(***************************************************************************)
(* Proofs about Core.  The invariants that the runs check are proved from  *)
(* one inductive invariant, IInv: they support each other, and they need   *)
(* three facts more, stated first.                                         *)
(***************************************************************************)
EXTENDS Core, TLAPS, FiniteSetTheorems, WellFoundedInduction

(* Before the first TRAIN nothing is registered, promised or being loaded. *)
UntrainedEmpty ==
    quantizer = None =>
        /\ load = None
        /\ promised = {}
        /\ \A c \in Cells : ids_by_cell[c] = {}

(* A vector of ids is finite, so its size is a number. *)
VectorsFinite == \A c \in Cells : IsFiniteSet(ids_by_cell[c])

(* The cells a LOAD has passed are resident. *)
LoadedSoFar ==
    load # None =>
        /\ load.next <= load.n + 1
        /\ \A j \in 1 .. load.next - 1 : InResidence(quantizer[load.xq][j])

IInv ==
    /\ TypeOK
    /\ VectorsFinite
    /\ UntrainedEmpty
    /\ LabelIsFirstPush
    /\ IndexMatchesDataMap
    /\ ListedDataBelongs
    /\ LoadedSoFar
    /\ LoadPromise
-----------------------------------------------------------------------------
(* A quantizer places every vector in a cell. *)
LEMMA RankedCells ==
    ASSUME TypeOK, quantizer # None, NEW v \in Vectors
    PROVE  /\ \A j \in 1 .. NCells : quantizer[v][j] \in Cells
           /\ Nearest(v) \in Cells
<1>1. quantizer \in [Vectors -> Rankings]
  BY QuantizersAssumption DEF TypeOK
<1>2. quantizer[v] \in [1 .. NCells -> Cells]
  BY <1>1 DEF Rankings
<1>3. 1 \in 1 .. NCells
  BY SizesAssumption
<1>. QED
  BY <1>2, <1>3 DEF Nearest

LEMMA NearestAreCells ==
    ASSUME TypeOK, quantizer # None, NEW v \in Vectors, NEW n \in 1 .. NCells
    PROVE  /\ \A j \in 1 .. n : quantizer[v][j] \in Cells
           /\ NearestCells(v, n) \subseteq Cells
<1>1. \A j \in 1 .. n : j \in 1 .. NCells
  BY SizesAssumption
<1>. QED
  BY <1>1, RankedCells DEF NearestCells

(* A set of numbers that is not empty has a least element. *)
LEMMA LeastNumber ==
    ASSUME NEW S, S \subseteq Nat, S # {}
    PROVE  \E m \in S : \A j \in S : m <= j
<1>. DEFINE R == OpToRel(<, Nat)
<1>1. PICK m \in S : \A j \in S : <<j, m>> \notin R
  <2>. HIDE DEF R
  <2>1. IsWellFoundedOn(R, Nat)
    BY NatLessThanWellFounded DEF R
  <2>. QED
    BY <2>1, WFMin
<1>2. R = {p \in Nat \X Nat : p[1] < p[2]}
  BY Zenon DEF OpToRel
<1>3. ASSUME NEW j \in S
      PROVE  m <= j
  <2>1. ~(j < m)
    <3>. HIDE DEF R
    <3>. QED
      BY <1>1, <1>2, <1>3
  <2>. QED
    BY <2>1
<1>. QED
  BY <1>3

(* Among the documents of a batch with a given id there is a first one. *)
LEMMA FirstOfBatch ==
    ASSUME NEW docs \in Seq(Data), NEW i \in DOMAIN docs
    PROVE  /\ FirstOf(docs[i].id, docs) \in DOMAIN docs
           /\ docs[FirstOf(docs[i].id, docs)].id = docs[i].id
<1>. DEFINE S == {j \in DOMAIN docs : docs[j].id = docs[i].id}
<1>1. S \subseteq Nat /\ S # {}
  OBVIOUS
<1>2. PICK m \in S : \A j \in S : m <= j
  BY <1>1, LeastNumber
<1>. QED
  BY <1>2 DEF FirstOf

LEMMA InitInv == Init => IInv
<1>. SUFFICES ASSUME Init PROVE IInv
  OBVIOUS
<1>. USE DEF Init
<1>1. TypeOK
  <2>1. residence_statuses \in [Cells -> Nat \cup {-1}]
    OBVIOUS
  <2>2. next_id \in 0 .. MaxLabel + 1
    BY SizesAssumption
  <2>3. /\ DOMAIN id_map = {} /\ id_map \in [DOMAIN id_map -> Labels]
        /\ DOMAIN data_map = {} /\ data_map \in [DOMAIN data_map -> Data]
        /\ DOMAIN db = {} /\ db \in [DOMAIN db -> Vectors]
    BY DEF Empty
  <2>. QED
    BY <2>1, <2>2, <2>3 DEF TypeOK
<1>2. VectorsFinite
  BY FS_EmptySet DEF Init, VectorsFinite
<1>3. UntrainedEmpty /\ LoadedSoFar /\ LoadPromise
  BY DEF Init, UntrainedEmpty, LoadedSoFar, LoadPromise
<1>4. LabelIsFirstPush
  BY DEF Init, LabelIsFirstPush, Empty
<1>5. IndexMatchesDataMap /\ ListedDataBelongs
  BY DEF Init, IndexMatchesDataMap, ListedDataBelongs, Empty
<1>. QED
  BY <1>1, <1>2, <1>3, <1>4, <1>5 DEF IInv
-----------------------------------------------------------------------------
(* Steps that leave the engine as it is. *)

(* The part of the invariant that only the engine's own variables carry. *)
engine == <<quantizer, index, registry, load, promised>>

LEMMA EngineFrame ==
    ASSUME IInv, UNCHANGED engine, TypeOK'
    PROVE  IInv'
<1>. USE DEF IInv, engine, index, registry
<1>1. VectorsFinite' /\ UntrainedEmpty' /\ LabelIsFirstPush'
  BY DEF VectorsFinite, UntrainedEmpty, LabelIsFirstPush
<1>2. IndexMatchesDataMap'
  BY DEF IndexMatchesDataMap
<1>3. ListedDataBelongs'
  BY DEF ListedDataBelongs, InResidence, Asked, Nearest
<1>4. LoadedSoFar' /\ LoadPromise'
  BY DEF LoadedSoFar, LoadPromise, CacheHit, InResidence, Nearest
<1>. QED
  BY <1>1, <1>2, <1>3, <1>4

LEMMA AbortInv == IInv /\ Abort => IInv'
<1>. SUFFICES ASSUME IInv, Abort PROVE IInv'
  OBVIOUS
<1>1. UNCHANGED engine
  BY DEF Abort, engine
<1>2. TypeOK'
  BY DEF IInv, Abort, TypeOK, index, registry
<1>. QED
  BY <1>1, <1>2, EngineFrame

LEMMA SearchInv == ASSUME IInv, NEW s \in Searches, Search(s) PROVE IInv'
<1>1. CASE Abort
  BY <1>1, AbortInv
<1>2. CASE UNCHANGED <<quantizer, index, registry, db, load, promised, aborted>>
  <2>1. UNCHANGED engine
    BY <1>2 DEF engine
  <2>2. TypeOK'
    BY <1>2 DEF IInv, TypeOK, index, registry
  <2>. QED
    BY <2>1, <2>2, EngineFrame
<1>. QED
  BY <1>1, <1>2 DEF Search

LEMMA DbPutInv ==
    ASSUME IInv, NEW id \in Ids, NEW v \in Vectors, DbPut(id, v)
    PROVE  IInv'
<1>1. UNCHANGED engine
  BY DEF DbPut, engine
<1>2. DOMAIN db' \subseteq Ids /\ db' \in [DOMAIN db' -> Vectors]
  BY DEF IInv, DbPut, TypeOK
<1>3. TypeOK'
  BY <1>2 DEF IInv, DbPut, TypeOK, index, registry
<1>. QED
  BY <1>1, <1>3, EngineFrame

LEMMA DbDeleteInv == ASSUME IInv, NEW id \in Ids, DbDelete(id) PROVE IInv'
<1>1. UNCHANGED engine
  BY DEF DbDelete, engine
<1>2. DOMAIN db' \subseteq Ids /\ db' \in [DOMAIN db' -> Vectors]
  BY DEF IInv, DbDelete, TypeOK
<1>3. TypeOK'
  BY <1>2 DEF IInv, DbDelete, TypeOK, index, registry
<1>. QED
  BY <1>1, <1>3, EngineFrame
-----------------------------------------------------------------------------
(* INITIALIZE and TRAIN. *)

LEMMA InitializeInv == IInv /\ Initialize => IInv'
<1>. SUFFICES ASSUME IInv, Initialize PROVE IInv'
  OBVIOUS
<1>. USE DEF Initialize
<1>1. TypeOK'
  <2>1. next_id' \in 0 .. MaxLabel + 1
    BY SizesAssumption
  <2>2. /\ DOMAIN id_map' = {} /\ id_map' \in [DOMAIN id_map' -> Labels]
        /\ DOMAIN data_map' = {} /\ data_map' \in [DOMAIN data_map' -> Data]
    BY DEF Empty
  <2>. QED
    BY <2>1, <2>2 DEF IInv, TypeOK
<1>2. VectorsFinite'
  BY FS_EmptySet DEF VectorsFinite
<1>3. UntrainedEmpty' /\ LoadedSoFar' /\ LoadPromise'
  BY DEF Idle, UntrainedEmpty, LoadedSoFar, LoadPromise
<1>4. LabelIsFirstPush'
  BY DEF LabelIsFirstPush, Empty
<1>5. IndexMatchesDataMap' /\ ListedDataBelongs'
  BY DEF IndexMatchesDataMap, ListedDataBelongs, Empty
<1>. QED
  BY <1>1, <1>2, <1>3, <1>4, <1>5 DEF IInv

LEMMA TrainInv == ASSUME IInv, NEW q \in Quantizers, Train(q) PROVE IInv'
<1>1. TypeOK'
  BY DEF IInv, Train, TypeOK, index, registry
<1>2. CASE quantizer # None
  <2>1. UNCHANGED engine
    BY <1>2 DEF Train, engine
  <2>. QED
    BY <1>1, <2>1, EngineFrame
<1>3. CASE quantizer = None
  <2>. USE DEF IInv, Train, index, registry
  <2>1. /\ load = None
        /\ promised = {}
        /\ \A c \in Cells : ids_by_cell[c] = {}
    BY <1>3 DEF UntrainedEmpty
  <2>2. VectorsFinite' /\ LabelIsFirstPush' /\ IndexMatchesDataMap'
    BY DEF VectorsFinite, LabelIsFirstPush, IndexMatchesDataMap
  <2>3. UntrainedEmpty' /\ LoadedSoFar' /\ LoadPromise'
    BY <2>1 DEF UntrainedEmpty, LoadedSoFar, LoadPromise
  <2>4. ListedDataBelongs'
    BY <2>1 DEF ListedDataBelongs, Asked
  <2>. QED
    BY <1>1, <2>2, <2>3, <2>4
<1>. QED
  BY <1>2, <1>3
-----------------------------------------------------------------------------
(* ADD *)

(* The pushes of a batch: finite, of the right type, and numbered from      *)
(* next_id on.                                                              *)
LEMMA PushesOfBatch ==
    ASSUME TypeOK, NEW docs \in Seq(Data), next_id + Len(docs) <= MaxLabel + 1,
           NEW c \in Cells
    PROVE  /\ PushesTo(c, docs) \subseteq [at : Labels, id : Ids]
           /\ IsFiniteSet(PushesTo(c, docs))
           /\ \A e \in PushesTo(c, docs) :
                 \E i \in DOMAIN docs : e.at = next_id + i - 1 /\ e.id = docs[i].id
<1>. DEFINE Is == {j \in DOMAIN docs : Nearest(docs[j].embedding) = c}
            push == [i \in Is |-> [at |-> next_id + i - 1, id |-> docs[i].id]]
<1>1. PushesTo(c, docs) = {push[i] : i \in Is}
  BY DEF PushesTo
<1>2. IsFiniteSet(Is)
  <2>1. Len(docs) \in Nat /\ DOMAIN docs = 1 .. Len(docs)
    OBVIOUS
  <2>2. IsFiniteSet(1 .. Len(docs))
    BY <2>1, FS_Interval
  <2>. QED
    BY <2>1, <2>2, FS_Subset
<1>3. push \in Surjection(Is, PushesTo(c, docs))
  BY <1>1 DEF Surjection
<1>4. IsFiniteSet(PushesTo(c, docs))
  BY <1>2, <1>3, FS_Surjection
<1>5. ASSUME NEW i \in DOMAIN docs
      PROVE  /\ next_id + i - 1 \in Labels
             /\ docs[i].id \in Ids
  <2>1. docs[i] \in Data /\ i \in 1 .. Len(docs) /\ Len(docs) \in Nat
    OBVIOUS
  <2>2. next_id \in Nat /\ MaxLabel \in Nat
    BY SizesAssumption DEF TypeOK
  <2>. QED
    BY <2>1, <2>2 DEF Labels, Data
<1>. QED
  BY <1>4, <1>5 DEF PushesTo

LEMMA AddInv == ASSUME IInv, NEW docs \in Batches, Add(docs) PROVE IInv'
<1>1. CASE HasLongId(docs)
  BY <1>1, AbortInv DEF Add
<1>2. CASE ~HasLongId(docs)
  <2>. USE DEF IInv
  <2>1. /\ docs \in Seq(Data)
        /\ Len(docs) \in Nat
        /\ DOMAIN docs = 1 .. Len(docs)
        /\ next_id \in Nat
        /\ next_id + Len(docs) <= MaxLabel + 1
    BY InputsAssumption, SizesAssumption DEF Add, TypeOK
  <2>2. /\ ids_by_cell' = [c \in Cells |-> ids_by_cell[c] \cup PushesTo(c, docs)]
        /\ id_map' = MapWith(docs)
        /\ next_id' = next_id + Len(docs)
        /\ UNCHANGED <<quantizer, index, db, load, promised, aborted>>
        /\ quantizer # None
    BY <1>2 DEF Add, Ready
  <2>3. \A c \in Cells : /\ PushesTo(c, docs) \subseteq [at : Labels, id : Ids]
                         /\ IsFiniteSet(PushesTo(c, docs))
                         /\ \A e \in PushesTo(c, docs) :
                               \E i \in DOMAIN docs :
                                  e.at = next_id + i - 1 /\ e.id = docs[i].id
    BY <2>1, PushesOfBatch
  <2>4. \A i \in DOMAIN docs : /\ docs[i].id \in Ids
                               /\ docs[i].embedding \in Vectors
                               /\ next_id + i - 1 \in Labels
    <3>1. \A i \in DOMAIN docs : docs[i] \in Data
      BY <2>1
    <3>2. \A i \in 1 .. Len(docs) : next_id + i - 1 \in 0 .. MaxLabel
      BY <2>1, SizesAssumption
    <3>. QED
      BY <2>1, <3>1, <3>2 DEF Data, Labels
  <2>. DEFINE known == DOMAIN id_map
              fresh == {docs[i].id : i \in DOMAIN docs} \ DOMAIN id_map
  <2>5. /\ DOMAIN id_map' = known \cup fresh
        /\ \A id \in known : id_map'[id] = id_map[id]
        /\ \A id \in fresh : /\ FirstOf(id, docs) \in DOMAIN docs
                             /\ docs[FirstOf(id, docs)].id = id
                             /\ id_map'[id] = next_id + FirstOf(id, docs) - 1
                             /\ id_map'[id] \in Labels
    <3>1. /\ DOMAIN id_map' = known \cup fresh
          /\ \A id \in known : id_map'[id] = id_map[id]
          /\ \A id \in fresh : id_map'[id] = next_id + FirstOf(id, docs) - 1
      BY <2>2 DEF MapWith
    <3>2. \A id \in fresh : /\ FirstOf(id, docs) \in DOMAIN docs
                            /\ docs[FirstOf(id, docs)].id = id
      BY <2>1, FirstOfBatch
    <3>. QED
      BY <2>4, <3>1, <3>2
  <2>6. TypeOK'
    <3>1. ids_by_cell' \in [Cells -> SUBSET [at : Labels, id : Ids]]
      BY <2>2, <2>3 DEF TypeOK
    <3>2. next_id' \in 0 .. MaxLabel + 1
      BY <2>1, <2>2, SizesAssumption
    <3>3. DOMAIN id_map' \subseteq Ids /\ \A id \in DOMAIN id_map' : id_map'[id] \in Labels
      BY <2>4, <2>5 DEF TypeOK
    <3>4. id_map' \in [DOMAIN id_map' -> Labels]
      BY <2>2, <3>3 DEF MapWith
    <3>. QED
      BY <2>2, <3>1, <3>2, <3>3, <3>4 DEF TypeOK, index
  <2>7. VectorsFinite'
    BY <2>2, <2>3, FS_Union DEF VectorsFinite
  <2>8. UntrainedEmpty' /\ LoadedSoFar' /\ LoadPromise' /\ IndexMatchesDataMap'
    BY <2>2 DEF index, UntrainedEmpty, LoadedSoFar, LoadPromise, IndexMatchesDataMap,
                CacheHit, InResidence, Nearest
  <2>9. ListedDataBelongs'
    <3>1. \A c \in Cells : Asked(c) \subseteq Asked(c)'
      BY <2>2 DEF Asked
    <3>. QED
      BY <2>2, <2>5, <3>1 DEF index, ListedDataBelongs, InResidence, Nearest
  <2>10. LabelIsFirstPush'
    <3>1. ASSUME NEW id \in DOMAIN id_map'
          PROVE  \E c \in Cells : [at |-> id_map'[id], id |-> id] \in ids_by_cell'[c]
      <4>1. CASE id \in known
        BY <2>2, <2>5, <4>1 DEF LabelIsFirstPush
      <4>2. CASE id \in fresh
        <5>. DEFINE i == FirstOf(id, docs)
        <5>1. /\ i \in DOMAIN docs
              /\ docs[i].id = id
              /\ id_map'[id] = next_id + i - 1
          BY <2>5, <4>2
        <5>2. Nearest(docs[i].embedding) \in Cells
          BY <2>2, <2>4, <5>1, RankedCells
        <5>3. [at |-> id_map'[id], id |-> id]
                 \in PushesTo(Nearest(docs[i].embedding), docs)
          BY <5>1 DEF PushesTo
        <5>. QED
          BY <2>2, <5>2, <5>3
      <4>. QED
        BY <2>5, <3>1, <4>1, <4>2
    <3>2. ASSUME NEW c \in Cells, NEW e \in ids_by_cell'[c]
          PROVE  e.id \in DOMAIN id_map' /\ id_map'[e.id] <= e.at /\ e.at < next_id'
      <4>1. CASE e \in ids_by_cell[c]
        <5>1. e.id \in known /\ id_map[e.id] <= e.at /\ e.at < next_id
          BY <4>1 DEF LabelIsFirstPush
        <5>2. e.at \in Int
          BY <4>1 DEF TypeOK, Labels
        <5>. QED
          BY <2>1, <2>2, <2>5, <5>1, <5>2
      <4>2. CASE e \in PushesTo(c, docs)
        <5>1. PICK i \in DOMAIN docs : e.at = next_id + i - 1 /\ e.id = docs[i].id
          BY <2>3, <4>2
        <5>2. e.at < next_id'
          BY <2>1, <2>2, <5>1
        <5>3. CASE e.id \in known
          <6>1. PICK d \in Cells : [at |-> id_map[e.id], id |-> e.id] \in ids_by_cell[d]
            BY <5>3 DEF LabelIsFirstPush
          <6>2. id_map[e.id] < next_id /\ id_map[e.id] \in Nat
            BY <5>3, <6>1 DEF LabelIsFirstPush, TypeOK, Labels
          <6>. QED
            BY <2>1, <2>5, <5>1, <5>2, <5>3, <6>2
        <5>4. CASE e.id \notin known
          <6>1. e.id \in fresh
            BY <5>1, <5>4
          <6>2. FirstOf(e.id, docs) <= i
            <7>. DEFINE S == {j \in DOMAIN docs : docs[j].id = e.id}
            <7>1. S \subseteq Nat /\ S # {}
              BY <2>1, <5>1
            <7>2. PICK m \in S : \A j \in S : m <= j
              BY <7>1, LeastNumber
            <7>. QED
              BY <5>1, <7>2 DEF FirstOf
          <6>3. /\ FirstOf(e.id, docs) \in Nat /\ i \in Nat
                /\ id_map'[e.id] = next_id + FirstOf(e.id, docs) - 1
            BY <2>1, <2>5, <6>1
          <6>4. id_map'[e.id] <= e.at
            BY <2>1, <5>1, <6>2, <6>3
          <6>. QED
            BY <2>5, <5>2, <6>1, <6>4
        <5>. QED
          BY <5>3, <5>4
      <4>. QED
        BY <2>2, <3>2, <4>1, <4>2
    <3>3. ASSUME NEW i \in DOMAIN id_map', NEW j \in DOMAIN id_map',
                 id_map'[i] = id_map'[j]
          PROVE  i = j
      <4>1. ASSUME NEW id \in known
            PROVE  id_map[id] \in Nat /\ id_map[id] < next_id
        <5>1. PICK d \in Cells : [at |-> id_map[id], id |-> id] \in ids_by_cell[d]
          BY DEF LabelIsFirstPush
        <5>. QED
          BY <5>1 DEF LabelIsFirstPush, TypeOK, Labels
      <4>2. \A id \in fresh : id_map'[id] \in Nat /\ id_map'[id] >= next_id
        BY <2>1, <2>5
      <4>3. CASE i \in known /\ j \in known
        BY <2>5, <3>3, <4>3 DEF LabelIsFirstPush
      <4>4. CASE i \in fresh /\ j \in fresh
        <5>1. /\ id_map'[i] = next_id + FirstOf(i, docs) - 1
              /\ id_map'[j] = next_id + FirstOf(j, docs) - 1
          BY <2>5, <4>4
        <5>2. FirstOf(i, docs) \in Nat /\ FirstOf(j, docs) \in Nat
          <6>1. FirstOf(i, docs) \in DOMAIN docs /\ FirstOf(j, docs) \in DOMAIN docs
            BY <2>5, <4>4
          <6>2. \A k \in DOMAIN docs : k \in Nat
            BY <2>1
          <6>. QED
            BY <6>1, <6>2
        <5>3. FirstOf(i, docs) = FirstOf(j, docs)
          <6>1. next_id + FirstOf(i, docs) - 1 = next_id + FirstOf(j, docs) - 1
            BY <3>3, <5>1
          <6>2. next_id \in Nat
            BY <2>1
          <6>. QED
            BY <5>2, <6>1, <6>2
        <5>. QED
          BY <2>5, <4>4, <5>3
      <4>5. i \in known <=> j \in known
        BY <2>1, <2>5, <3>3, <4>1, <4>2
      <4>. QED
        BY <2>5, <4>3, <4>4, <4>5
    <3>. QED
      BY <3>1, <3>2, <3>3 DEF LabelIsFirstPush
  <2>. QED
    BY <2>6, <2>7, <2>8, <2>9, <2>10
<1>. QED
  BY <1>1, <1>2
-----------------------------------------------------------------------------
(* LOAD *)

LEMMA LoadBeginInv == ASSUME IInv, NEW t \in Targets, LoadBegin(t) PROVE IInv'
<1>. USE DEF IInv, LoadBegin, index, registry
<1>1. /\ t.xq \in Vectors /\ t.n \in 1 .. NCells
      /\ quantizer # None
      /\ load' = [xq |-> t.xq, n |-> t.n, next |-> 1]
  BY InputsAssumption DEF Commands, Ready
<1>2. load' \in LoadsInProgress
  BY <1>1, SizesAssumption DEF LoadsInProgress
<1>3. TypeOK'
  BY <1>2 DEF TypeOK
<1>4. VectorsFinite' /\ UntrainedEmpty' /\ LabelIsFirstPush' /\ IndexMatchesDataMap'
  BY <1>1 DEF VectorsFinite, UntrainedEmpty, LabelIsFirstPush, IndexMatchesDataMap
<1>5. ListedDataBelongs' /\ LoadPromise'
  BY DEF ListedDataBelongs, LoadPromise, CacheHit, InResidence, Nearest, Asked
<1>6. LoadedSoFar'
  BY <1>1, SizesAssumption DEF LoadedSoFar
<1>. QED
  BY <1>3, <1>4, <1>5, <1>6

(* The cell a LOAD is at. *)
LEMMA LoadingFacts ==
    ASSUME IInv, NEW c \in Cells, Loading(c)
    PROVE  /\ quantizer # None
           /\ load \in LoadsInProgress
           /\ load.next \in 1 .. NCells
           /\ c = quantizer[load.xq][load.next]
           /\ LoadNext => load' \in LoadsInProgress
<1>1. load \in LoadsInProgress
  BY DEF IInv, TypeOK, Loading
<1>2. load.n \in 1 .. NCells /\ load.next \in 1 .. NCells + 1 /\ load.xq \in Vectors
  BY <1>1 DEF LoadsInProgress
<1>3. load.next \in 1 .. NCells
  BY <1>2, SizesAssumption DEF Loading
<1>4. LoadNext => load' \in LoadsInProgress
  BY <1>1, <1>3, SizesAssumption DEF LoadNext, LoadsInProgress
<1>5. quantizer # None
  BY DEF IInv, UntrainedEmpty, Loading
<1>. QED
  BY <1>1, <1>3, <1>4, <1>5 DEF Loading

(* A LOAD that moves on from a cell that is resident keeps LoadedSoFar. *)
LEMMA LoadNextPassed ==
    ASSUME IInv, NEW c \in Cells, Loading(c), LoadNext, UNCHANGED quantizer,
           \A d \in Cells : InResidence(d) \/ d = c => InResidence(d)'
    PROVE  LoadedSoFar'
<1>1. /\ load \in LoadsInProgress
      /\ load.next \in 1 .. NCells
      /\ c = quantizer[load.xq][load.next]
      /\ quantizer # None
  BY LoadingFacts
<1>2. /\ load.next <= load.n
      /\ load.n \in 1 .. NCells
      /\ load.xq \in Vectors
      /\ load # None
  BY <1>1 DEF Loading, LoadsInProgress
<1>3. /\ load'.next = load.next + 1
      /\ load'.n = load.n
      /\ load'.xq = load.xq
  BY <1>1 DEF LoadNext, LoadsInProgress
<1>4. ASSUME NEW j \in 1 .. load.next
      PROVE  residence_statuses'[quantizer[load.xq][j]] > -1
  <2>1. quantizer[load.xq][j] \in Cells
    BY <1>1, <1>2, SizesAssumption, RankedCells DEF IInv
  <2>2. CASE j = load.next
    BY <1>1, <2>1, <2>2 DEF InResidence
  <2>3. CASE j \in 1 .. load.next - 1
    BY <1>2, <2>1, <2>3 DEF IInv, LoadedSoFar, InResidence
  <2>4. j = load.next \/ j \in 1 .. load.next - 1
    BY <1>1
  <2>. QED
    BY <2>2, <2>3, <2>4
<1>5. load'.next <= load'.n + 1 /\ load'.next - 1 = load.next
  BY <1>1, <1>2, <1>3
<1>. QED
  BY <1>3, <1>4, <1>5 DEF LoadedSoFar, InResidence

LEMMA SkipCellInv == ASSUME IInv, NEW c \in Cells, SkipCell(c) PROVE IInv'
<1>. USE DEF IInv, SkipCell, index, registry
<1>1. quantizer # None /\ load' \in LoadsInProgress
  BY LoadingFacts
<1>2. TypeOK'
  BY <1>1 DEF TypeOK
<1>3. VectorsFinite' /\ UntrainedEmpty' /\ LabelIsFirstPush' /\ IndexMatchesDataMap'
  BY <1>1 DEF VectorsFinite, UntrainedEmpty, LabelIsFirstPush, IndexMatchesDataMap
<1>4. ListedDataBelongs' /\ LoadPromise'
  BY DEF ListedDataBelongs, LoadPromise, CacheHit, InResidence, Nearest, Asked
<1>5. LoadedSoFar'
  BY LoadNextPassed DEF InResidence
<1>. QED
  BY <1>2, <1>3, <1>4, <1>5

LEMMA LoadHttpErrorInv == ASSUME IInv, NEW c \in Cells, LoadHttpError(c) PROVE IInv'
<1>. USE DEF IInv, LoadHttpError, index, registry
<1>1. TypeOK'
  BY DEF TypeOK
<1>2. VectorsFinite' /\ UntrainedEmpty' /\ LabelIsFirstPush' /\ IndexMatchesDataMap'
  BY DEF VectorsFinite, UntrainedEmpty, LabelIsFirstPush, IndexMatchesDataMap
<1>3. ListedDataBelongs' /\ LoadPromise'
  BY DEF ListedDataBelongs, LoadPromise, CacheHit, InResidence, Nearest, Asked
<1>4. LoadedSoFar'
  BY DEF LoadedSoFar
<1>. QED
  BY <1>1, <1>2, <1>3, <1>4

LEMMA LoadReplyInv == IInv /\ LoadReply => IInv'
<1>. SUFFICES ASSUME IInv, LoadReply PROVE IInv'
  OBVIOUS
<1>. USE DEF IInv, LoadReply, index, registry
<1>1. /\ load \in LoadsInProgress
      /\ quantizer # None
      /\ load.n \in 1 .. NCells
      /\ load.next \in 1 .. NCells + 1
      /\ load.next = load.n + 1
      /\ load.xq \in Vectors
  <2>1. load \in LoadsInProgress /\ quantizer # None
    BY DEF TypeOK, UntrainedEmpty
  <2>. QED
    BY <2>1, SizesAssumption DEF LoadedSoFar, LoadsInProgress
<1>2. TypeOK'
  BY <1>1 DEF TypeOK, Commands
<1>3. VectorsFinite' /\ UntrainedEmpty' /\ LabelIsFirstPush' /\ IndexMatchesDataMap'
  BY <1>1 DEF VectorsFinite, UntrainedEmpty, LabelIsFirstPush, IndexMatchesDataMap
<1>4. ListedDataBelongs' /\ LoadedSoFar'
  BY DEF ListedDataBelongs, LoadedSoFar, InResidence, Nearest, Asked
<1>5. \A j \in 1 .. load.n : InResidence(quantizer[load.xq][j])
  BY <1>1 DEF LoadedSoFar
<1>6. CacheHit(load.xq, load.n, TRUE)
  BY <1>1, <1>5 DEF CacheHit, Nearest
<1>7. LoadPromise'
  BY <1>6 DEF LoadPromise, CacheHit, InResidence, Nearest
<1>. QED
  BY <1>2, <1>3, <1>4, <1>7

(* A cell whose answer passes the asserts: its new labels are new. *)
LEMMA PlacedFacts ==
    ASSUME IInv, NEW c \in Cells, ~AssertFails(c)
    PROVE  \A id \in Placed(c) : /\ id \in Ids /\ id \in Asked(c)
                                 /\ db[id] \in Vectors
                                 /\ Nearest(db[id]) = c
                                 /\ id \in DOMAIN id_map
                                 /\ id_map[id] \in Labels \ DOMAIN data_map
BY DEF IInv, TypeOK, AssertFails, Clashes, Placed, Answered

LEMMA LoadCellInv == ASSUME IInv, NEW c \in Cells, LoadCell(c) PROVE IInv'
<1>1. CASE AssertFails(c)
  BY <1>1, AbortInv DEF LoadCell
<1>2. CASE ~AssertFails(c)
  <2>. USE DEF IInv
  <2>. DEFINE new == PlacedLabels(c)
  <2>1. /\ Loading(c) /\ ~InResidence(c) /\ LoadNext
        /\ data_map' = DataMapWith(c)
        /\ invlists' = [invlists EXCEPT ![c] = @ \cup new]
        /\ residence_statuses' =
              [residence_statuses EXCEPT ![c] = Cardinality(ids_by_cell[c])]
        /\ UNCHANGED <<quantizer, registry, db, reply, promised, aborted>>
    BY <1>2 DEF LoadCell
  <2>2. quantizer # None /\ load' \in LoadsInProgress
    BY <2>1, LoadingFacts
  <2>3. \A id \in Placed(c) : /\ id \in Ids /\ id \in Asked(c)
                              /\ db[id] \in Vectors
                              /\ Nearest(db[id]) = c
                              /\ id \in DOMAIN id_map
                              /\ id_map[id] \in Labels \ DOMAIN data_map
    BY <1>2, PlacedFacts
  <2>4. new \subseteq Labels \ DOMAIN data_map
    BY <2>3 DEF PlacedLabels
  <2>5. /\ DOMAIN data_map' = DOMAIN data_map \cup new
        /\ \A l \in DOMAIN data_map : data_map'[l] = data_map[l]
    BY <2>1 DEF DataMapWith
  <2>6. ASSUME NEW l \in new
        PROVE  \E id \in Placed(c) : /\ id_map[id] = l
                                     /\ data_map'[l] = [id |-> id, embedding |-> db[id]]
    <3>. DEFINE id == CHOOSE id \in Placed(c) : id_map[id] = l
    <3>1. id \in Placed(c) /\ id_map[id] = l
      BY DEF PlacedLabels
    <3>2. data_map'[l] = [id |-> id, embedding |-> db[id]]
      BY <2>1, <2>4 DEF DataMapWith
    <3>. QED
      BY <3>1, <3>2
  <2>7. /\ Cardinality(ids_by_cell[c]) \in Nat
        /\ residence_statuses'[c] = Cardinality(ids_by_cell[c])
        /\ \A d \in Cells : d # c => residence_statuses'[d] = residence_statuses[d]
        /\ \A d \in Cells : InResidence(d) \/ d = c => InResidence(d)'
    <3>1. Cardinality(ids_by_cell[c]) \in Nat
      BY FS_CardinalityType DEF VectorsFinite
    <3>. QED
      BY <2>1, <3>1 DEF TypeOK, InResidence
  <2>8. TypeOK'
    <3>1. data_map' \in [DOMAIN data_map' -> Data]
      <4>1. \A l \in DOMAIN data_map : data_map'[l] \in Data
        BY <2>5 DEF TypeOK
      <4>2. ASSUME NEW l \in new
            PROVE  data_map'[l] \in Data
        <5>1. PICK id \in Placed(c) : data_map'[l] = [id |-> id, embedding |-> db[id]]
          BY <2>6
        <5>. QED
          BY <2>3, <5>1 DEF Data
      <4>3. \A l \in DOMAIN data_map' : data_map'[l] \in Data
        BY <2>5, <4>1, <4>2
      <4>. QED
        BY <2>1, <4>3 DEF DataMapWith
    <3>2. DOMAIN data_map' \subseteq Labels
      BY <2>4, <2>5 DEF TypeOK
    <3>3. invlists' \in [Cells -> SUBSET Labels]
      BY <2>1, <2>4 DEF TypeOK
    <3>4. residence_statuses' \in [Cells -> Nat \cup {-1}]
      BY <2>1, <2>7 DEF TypeOK
    <3>. QED
      BY <2>1, <2>2, <3>1, <3>2, <3>3, <3>4 DEF TypeOK, registry
  <2>9. VectorsFinite' /\ UntrainedEmpty' /\ LabelIsFirstPush'
    BY <2>1, <2>2 DEF registry, VectorsFinite, UntrainedEmpty, LabelIsFirstPush
  <2>10. \A d \in Cells : invlists'[d] = IF d = c THEN invlists[c] \cup new ELSE invlists[d]
    BY <2>1 DEF TypeOK
  <2>11. IndexMatchesDataMap'
    <3>1. \A d \in Cells : invlists[d] \cap new = {}
      BY <2>4 DEF IndexMatchesDataMap
    <3>2. \A d \in Cells : invlists'[d] \subseteq DOMAIN data_map'
      BY <2>5, <2>10 DEF IndexMatchesDataMap
    <3>3. \A l \in DOMAIN data_map' : \E d \in Cells : l \in invlists'[d]
      BY <2>5, <2>10 DEF IndexMatchesDataMap
    <3>4. \A c1, c2 \in Cells : invlists'[c1] \cap invlists'[c2] # {} => c1 = c2
      BY <2>10, <3>1 DEF IndexMatchesDataMap
    <3>. QED
      BY <3>2, <3>3, <3>4 DEF IndexMatchesDataMap
  <2>12. ListedDataBelongs'
    <3>1. ASSUME NEW d \in Cells, NEW l \in invlists'[d]
          PROVE  /\ InResidence(d)'
                 /\ l \in DOMAIN data_map'
                 /\ data_map'[l].id \in Asked(d)'
                 /\ quantizer'[data_map'[l].embedding][1] = d
                 /\ data_map'[l].id \in DOMAIN id_map'
                 /\ id_map'[data_map'[l].id] = l
      <4>1. UNCHANGED <<ids_by_cell, id_map, quantizer>>
        BY <2>1 DEF registry
      <4>2. CASE l \in invlists[d]
        <5>1. /\ InResidence(d) /\ l \in DOMAIN data_map
              /\ data_map[l].id \in Asked(d)
              /\ Nearest(data_map[l].embedding) = d
              /\ data_map[l].id \in DOMAIN id_map
              /\ id_map[data_map[l].id] = l
          BY <4>2 DEF ListedDataBelongs
        <5>. QED
          BY <2>5, <2>7, <4>1, <5>1 DEF Asked, Nearest
      <4>3. CASE d = c /\ l \in new
        <5>1. PICK id \in Placed(c) : /\ id_map[id] = l
                                      /\ data_map'[l] = [id |-> id, embedding |-> db[id]]
          BY <2>6, <4>3
        <5>2. data_map'[l].id = id /\ data_map'[l].embedding = db[id]
          BY <5>1
        <5>. QED
          BY <2>3, <2>5, <2>7, <4>1, <4>3, <5>1, <5>2 DEF Asked, Nearest
      <4>. QED
        BY <2>10, <3>1, <4>2, <4>3
    <3>. QED
      BY <3>1 DEF ListedDataBelongs, Nearest
  <2>13. LoadedSoFar'
    BY <2>1, <2>7, LoadNextPassed
  <2>14. LoadPromise'
    <3>1. ASSUME NEW p \in promised
          PROVE  CacheHit(p.xq, p.n, TRUE)'
      <4>1. CacheHit(p.xq, p.n, TRUE) /\ p.xq \in Vectors /\ p.n \in 1 .. NCells
        BY DEF LoadPromise, TypeOK, Commands
      <4>2. \A j \in 1 .. NCells : quantizer[p.xq][j] \in Cells
        BY <2>2, <4>1, RankedCells
      <4>3. /\ quantizer' = quantizer
            /\ InResidence(quantizer[p.xq][1])'
            /\ \A j \in 2 .. p.n : InResidence(quantizer[p.xq][j])'
        BY <2>1, <2>7, <4>1, <4>2, SizesAssumption DEF CacheHit, Nearest
      <4>. QED
        BY <4>3 DEF CacheHit, Nearest, InResidence
    <3>. QED
      BY <2>1, <3>1 DEF LoadPromise
  <2>. QED
    BY <2>8, <2>9, <2>11, <2>12, <2>13, <2>14
<1>. QED
  BY <1>1, <1>2
-----------------------------------------------------------------------------
(* EVICT *)

LEMMA EvictInv == ASSUME IInv, NEW t \in Targets, Evict(t) PROVE IInv'
<1>. USE DEF IInv
<1>. DEFINE out == Evicted(t)
            gone == UNION {invlists[c] : c \in out}
<1>1. /\ quantizer # None
      /\ data_map' = [l \in DOMAIN data_map \ gone |-> data_map[l]]
      /\ invlists' = [c \in Cells |-> IF c \in out THEN {} ELSE invlists[c]]
      /\ residence_statuses' = [c \in Cells |-> IF c \in out THEN -1 ELSE residence_statuses[c]]
      /\ promised' = {p \in promised : NearestCells(p.xq, p.n) \cap out = {}}
      /\ UNCHANGED <<quantizer, registry, db, load, aborted>>
      /\ load = None
  BY DEF Evict, Ready, Idle
<1>2. out \subseteq Cells
  <2>1. t.xq \in Vectors /\ t.n \in 1 .. NCells
    BY InputsAssumption DEF Commands
  <2>. QED
    BY <1>1, <2>1, NearestAreCells DEF Evicted
<1>3. DOMAIN data_map' = DOMAIN data_map \ gone
  BY <1>1
<1>4. \A l \in DOMAIN data_map' : data_map'[l] = data_map[l]
  BY <1>1
<1>5. TypeOK'
  <2>1. residence_statuses' \in [Cells -> Nat \cup {-1}]
    BY <1>1 DEF TypeOK
  <2>2. invlists' \in [Cells -> SUBSET Labels]
    BY <1>1 DEF TypeOK
  <2>3. DOMAIN data_map' \subseteq Labels /\ data_map' \in [DOMAIN data_map' -> Data]
    BY <1>1 DEF TypeOK
  <2>4. promised' \subseteq Commands
    BY <1>1 DEF TypeOK
  <2>. QED
    BY <1>1, <2>1, <2>2, <2>3, <2>4 DEF TypeOK, registry
<1>6. VectorsFinite' /\ UntrainedEmpty' /\ LabelIsFirstPush' /\ LoadedSoFar'
  BY <1>1 DEF registry, VectorsFinite, UntrainedEmpty, LabelIsFirstPush, LoadedSoFar
<1>7. ASSUME NEW c \in Cells, NEW l \in invlists'[c]
      PROVE  c \notin out /\ l \in invlists[c] /\ l \in DOMAIN data_map'
  <2>1. c \notin out /\ l \in invlists[c]
    BY <1>1, <1>7
  <2>2. l \in DOMAIN data_map
    BY <2>1 DEF IndexMatchesDataMap
  <2>3. l \notin gone
    BY <1>2, <2>1 DEF IndexMatchesDataMap
  <2>. QED
    BY <1>3, <2>1, <2>2, <2>3
<1>8. IndexMatchesDataMap'
  <2>1. ASSUME NEW l \in DOMAIN data_map'
        PROVE  \E c \in Cells : l \in invlists'[c]
    <3>1. PICK c \in Cells : l \in invlists[c]
      BY <1>3 DEF IndexMatchesDataMap
    <3>2. c \notin out
      BY <1>3, <3>1
    <3>. QED
      BY <1>1, <3>1, <3>2
  <2>. QED
    BY <1>7, <2>1 DEF IndexMatchesDataMap
<1>9. ListedDataBelongs'
  <2>1. ASSUME NEW c \in Cells, NEW l \in invlists'[c]
        PROVE  /\ InResidence(c)'
               /\ l \in DOMAIN data_map'
               /\ data_map'[l].id \in Asked(c)'
               /\ quantizer'[data_map'[l].embedding][1] = c
               /\ data_map'[l].id \in DOMAIN id_map'
               /\ id_map'[data_map'[l].id] = l
    <3>1. c \notin out /\ l \in invlists[c] /\ l \in DOMAIN data_map'
      BY <1>7, <2>1
    <3>2. data_map'[l] = data_map[l]
      BY <1>4, <3>1
    <3>3. InResidence(c)'
      BY <1>1, <3>1 DEF InResidence, ListedDataBelongs
    <3>. QED
      BY <1>1, <3>1, <3>2, <3>3 DEF registry, ListedDataBelongs, Asked, Nearest
  <2>. QED
    BY <2>1 DEF ListedDataBelongs, Nearest
<1>10. LoadPromise'
  <2>1. ASSUME NEW p \in promised'
        PROVE  CacheHit(p.xq, p.n, TRUE)'
    <3>1. /\ CacheHit(p.xq, p.n, TRUE)
          /\ p.xq \in Vectors /\ p.n \in 1 .. NCells
          /\ NearestCells(p.xq, p.n) \cap out = {}
      BY <1>1, <2>1 DEF LoadPromise, TypeOK, Commands
    <3>2. \A j \in 1 .. p.n : /\ quantizer[p.xq][j] \in Cells
                              /\ quantizer[p.xq][j] \notin out
                              /\ residence_statuses[quantizer[p.xq][j]] > -1
      <4>1. \A j \in 1 .. p.n : quantizer[p.xq][j] \in Cells
        BY <1>1, <3>1, NearestAreCells
      <4>2. \A j \in 1 .. p.n : quantizer[p.xq][j] \notin out
        BY <3>1 DEF NearestCells
      <4>3. \A j \in 1 .. p.n : j = 1 \/ j \in 2 .. p.n
        BY <3>1
      <4>. QED
        BY <3>1, <4>1, <4>2, <4>3 DEF CacheHit, Nearest, InResidence
    <3>3. \A j \in 1 .. p.n : residence_statuses'[quantizer[p.xq][j]] > -1
      BY <1>1, <3>2
    <3>. QED
      BY <1>1, <3>1, <3>3 DEF CacheHit, Nearest, InResidence
  <2>. QED
    BY <2>1 DEF LoadPromise
<1>. QED
  BY <1>5, <1>6, <1>8, <1>9, <1>10
-----------------------------------------------------------------------------
LEMMA StutterInv == IInv /\ UNCHANGED vars => IInv'
<1>. SUFFICES ASSUME IInv, UNCHANGED vars PROVE IInv'
  OBVIOUS
<1>1. UNCHANGED engine
  BY DEF vars, engine
<1>2. TypeOK'
  BY DEF IInv, TypeOK, vars, index, registry
<1>. QED
  BY <1>1, <1>2, EngineFrame

LEMMA NextInv == IInv /\ [Next]_vars => IInv'
<1>. SUFFICES ASSUME IInv, [Next]_vars PROVE IInv'
  OBVIOUS
<1>1. CASE AddAny
  BY <1>1, AddInv DEF AddAny
<1>2. CASE Initialize
  BY <1>2, InitializeInv
<1>3. CASE \E q \in Quantizers : Train(q)
  BY <1>3, TrainInv
<1>4. CASE \E t \in Targets : LoadBegin(t)
  BY <1>4, LoadBeginInv
<1>5. CASE \E c \in Cells : SkipCell(c)
  BY <1>5, SkipCellInv
<1>6. CASE \E c \in Cells : LoadCell(c)
  BY <1>6, LoadCellInv
<1>7. CASE \E c \in Cells : LoadHttpError(c)
  BY <1>7, LoadHttpErrorInv
<1>8. CASE LoadReply
  BY <1>8, LoadReplyInv
<1>9. CASE \E t \in Targets : Evict(t)
  BY <1>9, EvictInv
<1>10. CASE \E s \in Searches : Search(s)
  BY <1>10, SearchInv
<1>11. CASE \E id \in Ids, v \in Vectors : DbPut(id, v)
  BY <1>11, DbPutInv
<1>12. CASE \E id \in Ids : DbDelete(id)
  BY <1>12, DbDeleteInv
<1>13. CASE UNCHANGED vars
  BY <1>13, StutterInv
<1>. QED
  BY <1>1, <1>2, <1>3, <1>4, <1>5, <1>6, <1>7, <1>8, <1>9, <1>10, <1>11, <1>12, <1>13
     DEF Next, OtherStep

THEOREM Invariance == Spec => []IInv
BY InitInv, NextInv, PTL DEF Spec

(* Whatever callers send and the database answers, the members of struct    *)
(* Core keep their types.                                                   *)
THEOREM TypeCorrect == Spec => []TypeOK
BY Invariance, PTL DEF IInv

(* The faiss index and the data map always agree, one list per label.       *)
THEOREM IndexAgrees == Spec => []IndexMatchesDataMap
BY Invariance, PTL DEF IInv

(* Listed data belongs to its cell, which is resident and registered it.    *)
THEOREM ListedBelongs == Spec => []ListedDataBelongs
BY Invariance, PTL DEF IInv

(* An id's label is the number of its first ADD, and no two ids share it.   *)
THEOREM LabelsUnique == Spec => []LabelIsFirstPush
BY Invariance, PTL DEF IInv

(* README.md:102: a LOAD answered "Loaded cell" guarantees a later hit.     *)
THEOREM LoadKeepsPromise == Spec => []LoadPromise
BY Invariance, PTL DEF IInv
-----------------------------------------------------------------------------
(* What a step may never do. *)

(* README.md:101: centroids never move under registered or loaded data.     *)
THEOREM CentroidsNeverMove == Spec => CentroidsFixed
<1>1. ASSUME [Next]_vars, quantizer # None, quantizer' # quantizer
      PROVE  \A c \in Cells : /\ ids_by_cell'[c] = {}
                              /\ invlists'[c] = {}
                              /\ residence_statuses'[c] = -1
  <2>1. Initialize
    BY <1>1 DEF Next, AddAny, OtherStep, Add, Train, LoadBegin, SkipCell, LoadCell,
                LoadHttpError, LoadReply, Evict, Search, DbPut, DbDelete, Abort, vars
  <2>. QED
    BY <2>1 DEF Initialize
<1>2. [Next]_vars => [MovesOnlyEmpty]_vars
  BY <1>1 DEF MovesOnlyEmpty
<1>. QED
  BY <1>2, PTL DEF Spec, CentroidsFixed

(* A resident cell keeps the data it was loaded with until it is evicted or *)
(* the cache is initialized again.                                          *)
LEMMA FrozenStep ==
    ASSUME IInv, [Next]_vars, NEW c \in Cells, InResidence(c), InResidence(c)'
    PROVE  Contents(c)' = Contents(c)
<1>1. ASSUME UNCHANGED <<invlists, data_map>>
      PROVE  Contents(c)' = Contents(c)
  BY <1>1 DEF Contents
<1>2. CASE AddAny
  BY <1>1, <1>2 DEF AddAny, Add, Abort, index
<1>3. CASE Initialize
  BY <1>3 DEF Initialize, InResidence
<1>4. CASE \E q \in Quantizers : Train(q)
  BY <1>1, <1>4 DEF Train, index
<1>5. CASE (\E t \in Targets : LoadBegin(t)) \/ (\E d \in Cells : SkipCell(d))
  BY <1>1, <1>5 DEF LoadBegin, SkipCell, index
<1>6. CASE (\E d \in Cells : LoadHttpError(d)) \/ LoadReply
  BY <1>1, <1>6 DEF LoadHttpError, LoadReply, index
<1>7. ASSUME NEW d \in Cells, LoadCell(d)
      PROVE  Contents(c)' = Contents(c)
  <2>1. CASE AssertFails(d)
    BY <1>1, <1>7, <2>1 DEF LoadCell, Abort, index
  <2>2. CASE ~AssertFails(d)
    <3>1. /\ c # d
          /\ data_map' = DataMapWith(d)
          /\ invlists' = [invlists EXCEPT ![d] = @ \cup PlacedLabels(d)]
      BY <1>7, <2>2 DEF LoadCell
    <3>2. invlists'[c] = invlists[c]
      BY <3>1 DEF IInv, TypeOK
    <3>3. /\ DOMAIN data_map \subseteq DOMAIN data_map'
          /\ \A l \in DOMAIN data_map : data_map'[l] = data_map[l]
      BY <3>1 DEF DataMapWith
    <3>4. invlists[c] \subseteq DOMAIN data_map
      BY DEF IInv, IndexMatchesDataMap
    <3>. QED
      BY <3>2, <3>3, <3>4 DEF Contents
  <2>. QED
    BY <2>1, <2>2
<1>8. ASSUME NEW t \in Targets, Evict(t)
      PROVE  Contents(c)' = Contents(c)
  <2>. DEFINE gone == UNION {invlists[d] : d \in Evicted(t)}
  <2>1. /\ data_map' = [l \in DOMAIN data_map \ gone |-> data_map[l]]
        /\ invlists' = [d \in Cells |-> IF d \in Evicted(t) THEN {} ELSE invlists[d]]
        /\ residence_statuses' =
              [d \in Cells |-> IF d \in Evicted(t) THEN -1 ELSE residence_statuses[d]]
        /\ quantizer # None
    BY <1>8 DEF Evict, Ready
  <2>2. c \notin Evicted(t)
    BY <2>1 DEF InResidence
  <2>3. Evicted(t) \subseteq Cells
    <3>1. t.xq \in Vectors /\ t.n \in 1 .. NCells
      BY InputsAssumption DEF Commands
    <3>. QED
      BY <2>1, <3>1, NearestAreCells DEF IInv, Evicted
  <2>4. invlists'[c] = invlists[c] /\ invlists[c] \cap gone = {}
    BY <2>1, <2>2, <2>3 DEF IInv, IndexMatchesDataMap
  <2>5. \A l \in invlists[c] : /\ l \in DOMAIN data_map <=> l \in DOMAIN data_map'
                               /\ l \in DOMAIN data_map => data_map'[l] = data_map[l]
    BY <2>1, <2>4
  <2>. QED
    BY <2>4, <2>5 DEF Contents
<1>9. CASE \E s \in Searches : Search(s)
  BY <1>1, <1>9 DEF Search, Abort, index
<1>10. CASE (\E id \in Ids, v \in Vectors : DbPut(id, v)) \/ (\E id \in Ids : DbDelete(id))
  BY <1>1, <1>10 DEF DbPut, DbDelete, index
<1>11. CASE UNCHANGED vars
  BY <1>1, <1>11 DEF vars, index
<1>. QED
  BY <1>2, <1>3, <1>4, <1>5, <1>6, <1>7, <1>8, <1>9, <1>10, <1>11 DEF Next, OtherStep

THEOREM ResidentCellsKeepData == Spec => ResidentCellsFrozen
<1>1. IInv /\ [Next]_vars =>
        [\A c \in Cells : InResidence(c) /\ InResidence(c)' => Contents(c)' = Contents(c)]_vars
  BY FrozenStep
<1>. QED
  BY <1>1, Invariance, PTL DEF Spec, ResidentCellsFrozen
-----------------------------------------------------------------------------
(* The contract of the application keeps the engine's asserts from failing. *)

(* The database answers every push asked for, each with its own record.     *)
LEMMA FullAnswer ==
    ASSUME IInv, Contract, NEW c \in Cells
    PROVE  ~ShortAnswer(c)
<1>1. Answered(c) = Asked(c)
  BY DEF Contract, Stored, Answered
<1>. DEFINE idOf == [e \in ids_by_cell[c] |-> e.id]
<1>2. idOf \in Bijection(ids_by_cell[c], Asked(c))
  <2>1. idOf \in Surjection(ids_by_cell[c], Asked(c))
    BY DEF Surjection, Asked
  <2>2. idOf \in Injection(ids_by_cell[c], Asked(c))
    <3>1. idOf \in [ids_by_cell[c] -> Asked(c)]
      BY DEF Asked
    <3>2. \A e, f \in ids_by_cell[c] : e.id = f.id => e = f
      BY DEF Contract, UniqueIds
    <3>. QED
      BY <3>1, <3>2 DEF Injection, IsInjective
  <2>. QED
    BY <2>1, <2>2 DEF Bijection
<1>3. ExistsBijection(ids_by_cell[c], Asked(c))
  BY <1>2 DEF ExistsBijection
<1>4. Cardinality(Asked(c)) = Cardinality(ids_by_cell[c])
  BY <1>3, FS_Bijection DEF IInv, VectorsFinite
<1>5. Cardinality(ids_by_cell[c]) \in Nat
  BY FS_CardinalityType DEF IInv, VectorsFinite
<1>. QED
  BY <1>1, <1>4, <1>5 DEF ShortAnswer

(* No id asked for already has data: it would lie in two cells.             *)
LEMMA NoClash ==
    ASSUME IInv, Contract, NEW c \in Cells, ~InResidence(c)
    PROVE  ~Clashes(c)
<1>1. SUFFICES ASSUME NEW id \in Placed(c)
               PROVE  id \in DOMAIN id_map /\ id_map[id] \notin DOMAIN data_map
  BY DEF Clashes
<1>2. id \in Asked(c) /\ id \in DOMAIN id_map
  BY DEF Placed, Answered, Asked, IInv, LabelIsFirstPush
<1>3. ASSUME id_map[id] \in DOMAIN data_map
      PROVE  FALSE
  <2>. DEFINE l == id_map[id]
  <2>1. PICK d \in Cells : l \in invlists[d]
    BY <1>3 DEF IInv, IndexMatchesDataMap
  <2>2. /\ InResidence(d)
        /\ data_map[l].id \in Asked(d)
        /\ data_map[l].id \in DOMAIN id_map
        /\ id_map[data_map[l].id] = l
    BY <2>1 DEF IInv, ListedDataBelongs
  <2>3. data_map[l].id = id
    BY <1>2, <2>2 DEF IInv, LabelIsFirstPush
  <2>4. Nearest(db[id]) = c /\ Nearest(db[id]) = d
    BY <1>2, <2>2, <2>3 DEF Contract, Stored
  <2>. QED
    BY <2>2, <2>4
<1>. QED
  BY <1>2, <1>3

(* The labels a SEARCH finds have data: the assert of Core::search holds.   *)
LEMMA SearchFindsData ==
    ASSUME IInv, NEW s \in Searches, Search(s), ~aborted
    PROVE  ~aborted'
<1>1. PICK found \in [DOMAIN s.xq -> SUBSET UNION {invlists[c] : c \in Cells}] :
         IF \E i \in DOMAIN s.xq : ~(found[i] \subseteq DOMAIN data_map)
           THEN Abort
           ELSE UNCHANGED aborted
  BY DEF Search
<1>2. \A i \in DOMAIN s.xq : found[i] \subseteq DOMAIN data_map
  BY DEF IInv, IndexMatchesDataMap
<1>. QED
  BY <1>1, <1>2

DisciplinedInv == IInv /\ Contract /\ NoAbort

LEMMA DisciplinedStep == DisciplinedInv /\ [DisciplinedNext]_vars => DisciplinedInv'
<1>. SUFFICES ASSUME DisciplinedInv, [DisciplinedNext]_vars PROVE DisciplinedInv'
  OBVIOUS
<1>1. [Next]_vars
  BY DEF DisciplinedNext, Next, AddAny
<1>2. IInv'
  BY <1>1, NextInv DEF DisciplinedInv
<1>3. Contract'
  <2>1. CASE UNCHANGED vars
    BY <2>1 DEF DisciplinedInv, vars, registry, Contract, UniqueIds, Stored, Asked, Nearest
  <2>. QED
    BY <2>1 DEF DisciplinedNext
<1>4. NoAbort'
  <2>. USE DEF DisciplinedInv, NoAbort
  <2>1. CASE \E docs \in Batches : ~HasLongId(docs) /\ Add(docs)
    BY <2>1 DEF Add
  <2>2. ASSUME NEW c \in Cells, LoadCell(c)
        PROVE  ~aborted'
    <3>1. ~InResidence(c)
      BY <2>2 DEF LoadCell
    <3>2. ~Repeated(c)
      BY DEF Repeated, Contract, UniqueIds
    <3>3. ~AssertFails(c)
      BY <3>1, <3>2, FullAnswer, NoClash DEF AssertFails
    <3>. QED
      BY <2>2, <3>3 DEF LoadCell
  <2>3. CASE \E s \in Searches : Search(s)
    BY <2>3, SearchFindsData
  <2>4. CASE UNCHANGED vars
    BY <2>4 DEF vars
  <2>5. CASE Initialize \/ \E q \in Quantizers : Train(q)
    BY <2>5 DEF Initialize, Train
  <2>6. CASE (\E t \in Targets : LoadBegin(t)) \/ (\E c \in Cells : SkipCell(c))
    BY <2>6 DEF LoadBegin, SkipCell
  <2>7. CASE (\E c \in Cells : LoadHttpError(c)) \/ LoadReply
    BY <2>7 DEF LoadHttpError, LoadReply
  <2>8. CASE \E t \in Targets : Evict(t)
    BY <2>8 DEF Evict
  <2>9. CASE (\E id \in Ids, v \in Vectors : DbPut(id, v)) \/ (\E id \in Ids : DbDelete(id))
    BY <2>9 DEF DbPut, DbDelete
  <2>. QED
    BY <2>1, <2>2, <2>3, <2>4, <2>5, <2>6, <2>7, <2>8, <2>9 DEF DisciplinedNext, OtherStep
<1>. QED
  BY <1>2, <1>3, <1>4 DEF DisciplinedInv

(* An application that keeps its contract never makes the server abort, in  *)
(* a LOAD, an ADD or a SEARCH, whatever the interleaving.                   *)
THEOREM DisciplinedNeverAborts == DisciplinedSpec => []NoAbort
<1>1. Init => DisciplinedInv
  <2>1. Init => Contract /\ NoAbort
    BY DEF Init, Contract, UniqueIds, Stored, Asked, NoAbort
  <2>. QED
    BY <2>1, InitInv DEF DisciplinedInv
<1>2. DisciplinedInv => NoAbort
  BY DEF DisciplinedInv
<1>. QED
  BY <1>1, <1>2, DisciplinedStep, PTL DEF DisciplinedSpec
-----------------------------------------------------------------------------
(* What a resident cell holds.  Its first residence_statuses[c] pushes are  *)
(* those made before it was loaded: pushes are numbered upwards.            *)

Before(c, e) == {f \in ids_by_cell[c] : f.at < e.at}
Snapshot(c) == {e \in ids_by_cell[c] : Cardinality(Before(c, e)) < residence_statuses[c]}

(* With the bound that makes an ADD's pushes come after the snapshot. *)
SnapshotInv ==
    /\ SnapshotComplete
    /\ \A c \in Cells : InResidence(c) => residence_statuses[c] <= Cardinality(ids_by_cell[c])

LEMMA SnapshotOfCell ==
    SnapshotComplete <=>
        \A c \in Cells : InResidence(c) => {d.id : d \in Contents(c)} = {e.id : e \in Snapshot(c)}
BY DEF SnapshotComplete, Snapshot, Before

LEMMA BeforeFinite ==
    ASSUME IInv, NEW c \in Cells, NEW e
    PROVE  /\ IsFiniteSet(ids_by_cell[c])
           /\ Cardinality(ids_by_cell[c]) \in Nat
           /\ IsFiniteSet(Before(c, e))
           /\ Cardinality(Before(c, e)) \in Nat
           /\ Cardinality(Before(c, e)) <= Cardinality(ids_by_cell[c])
<1>1. IsFiniteSet(ids_by_cell[c]) /\ Before(c, e) \in SUBSET ids_by_cell[c]
  BY DEF IInv, VectorsFinite, Before
<1>. QED
  BY <1>1, FS_Subset, FS_CardinalityType

(* The pushes of a cell precede the next one, so the snapshot of a cell     *)
(* just loaded is all of them.                                              *)
LEMMA WholeSnapshot ==
    ASSUME IInv, NEW c \in Cells, NEW e \in ids_by_cell[c]
    PROVE  Cardinality(Before(c, e)) < Cardinality(ids_by_cell[c])
<1>1. /\ IsFiniteSet(ids_by_cell[c])
      /\ Cardinality(ids_by_cell[c]) \in Nat
      /\ Cardinality(Before(c, e)) \in Nat
      /\ Cardinality(Before(c, e)) <= Cardinality(ids_by_cell[c])
  BY BeforeFinite
<1>2. e \notin Before(c, e)
  <2>1. e.at \in Nat
    BY DEF IInv, TypeOK, Labels
  <2>. QED
    BY <2>1 DEF Before
<1>3. Before(c, e) \in SUBSET ids_by_cell[c] /\ Before(c, e) # ids_by_cell[c]
  BY <1>2 DEF Before
<1>4. Cardinality(ids_by_cell[c]) # Cardinality(Before(c, e))
  BY <1>1, <1>3, FS_Subset
<1>. QED
  BY <1>1, <1>4

(* Steps that register nothing and leave a resident cell its number. *)
LEMMA SameSnapshot ==
    ASSUME IInv, SnapshotInv, [Next]_vars, UNCHANGED ids_by_cell,
           \A c \in Cells : InResidence(c)' =>
              InResidence(c) /\ residence_statuses'[c] = residence_statuses[c]
    PROVE  SnapshotInv'
<1>1. ASSUME NEW c \in Cells, InResidence(c)'
      PROVE  /\ Contents(c)' = Contents(c)
             /\ Snapshot(c)' = Snapshot(c)
             /\ residence_statuses'[c] <= Cardinality(ids_by_cell'[c])
             /\ {d.id : d \in Contents(c)} = {e.id : e \in Snapshot(c)}
  <2>1. InResidence(c) /\ residence_statuses'[c] = residence_statuses[c]
    BY <1>1
  <2>2. Contents(c)' = Contents(c)
    BY <1>1, <2>1, FrozenStep
  <2>3. Snapshot(c)' = Snapshot(c)
    BY <2>1 DEF Snapshot, Before
  <2>. QED
    BY <2>1, <2>2, <2>3, SnapshotOfCell DEF SnapshotInv
<1>2. \A c \in Cells : InResidence(c)' => {d.id : d \in Contents(c)'} = {e.id : e \in Snapshot(c)'}
  BY <1>1
<1>3. SnapshotComplete'
  BY <1>2 DEF SnapshotComplete, Snapshot, Before
<1>. QED
  BY <1>1, <1>3 DEF SnapshotInv

LEMMA AddSnapshot ==
    ASSUME IInv, IInv', SnapshotInv, NEW docs \in Batches, Add(docs), [Next]_vars
    PROVE  SnapshotInv'
<1>1. CASE HasLongId(docs)
  BY <1>1, SameSnapshot DEF Add, Abort, registry, index, InResidence
<1>2. CASE ~HasLongId(docs)
  <2>1. /\ ids_by_cell' = [c \in Cells |-> ids_by_cell[c] \cup PushesTo(c, docs)]
        /\ next_id + Len(docs) <= MaxLabel + 1
        /\ UNCHANGED <<quantizer, invlists, data_map, residence_statuses>>
    BY <1>2 DEF Add, index
  <2>2. docs \in Seq(Data)
    BY InputsAssumption
  <2>3. ASSUME NEW c \in Cells, NEW e \in ids_by_cell'[c]
        PROVE  \/ e \in ids_by_cell[c] /\ e.at < next_id
               \/ e \notin ids_by_cell[c] /\ e.at >= next_id
    <3>1. next_id \in Nat /\ \A f \in ids_by_cell[c] : f.at < next_id
      BY DEF IInv, TypeOK, LabelIsFirstPush
    <3>2. ASSUME e \in PushesTo(c, docs)
          PROVE  e.at >= next_id
      BY <2>1, <2>2, <3>1, <3>2, PushesOfBatch DEF IInv
    <3>3. e.at \in Int
      BY DEF IInv, TypeOK, Labels
    <3>. QED
      BY <2>1, <3>1, <3>2, <3>3
  <2>4. ASSUME NEW c \in Cells, NEW e \in ids_by_cell[c]
        PROVE  Before(c, e)' = Before(c, e)
    <3>1. ids_by_cell[c] \subseteq ids_by_cell'[c] /\ next_id \in Int /\ e.at < next_id
      BY <2>1 DEF IInv, TypeOK, LabelIsFirstPush
    <3>2. e.at \in Int /\ \A f \in ids_by_cell'[c] : f.at \in Int
      BY DEF IInv, TypeOK, Labels
    <3>. QED
      BY <2>3, <3>1, <3>2 DEF Before
  <2>5. ASSUME NEW c \in Cells, NEW e \in ids_by_cell'[c], e \notin ids_by_cell[c]
        PROVE  Cardinality(ids_by_cell[c]) <= Cardinality(Before(c, e)')
    <3>1. ids_by_cell[c] \in SUBSET Before(c, e)'
      <4>1. ids_by_cell[c] \subseteq ids_by_cell'[c] /\ next_id \in Int /\ e.at >= next_id
        BY <2>1, <2>3, <2>5 DEF IInv, TypeOK
      <4>2. e.at \in Int /\ \A f \in ids_by_cell[c] : f.at \in Int /\ f.at < next_id
        BY DEF IInv, TypeOK, Labels, LabelIsFirstPush
      <4>. QED
        BY <4>1, <4>2 DEF Before
    <3>2. IsFiniteSet(ids_by_cell'[c]) /\ Before(c, e)' \in SUBSET ids_by_cell'[c]
      BY DEF IInv, VectorsFinite, Before
    <3>3. IsFiniteSet(Before(c, e)')
      BY <3>2, FS_Subset
    <3>. QED
      BY <3>1, <3>3, FS_Subset
  <2>6. ASSUME NEW c \in Cells
        PROVE  Cardinality(ids_by_cell[c]) <= Cardinality(ids_by_cell'[c])
    <3>1. IsFiniteSet(ids_by_cell'[c]) /\ ids_by_cell[c] \in SUBSET ids_by_cell'[c]
      BY <2>1 DEF IInv, VectorsFinite
    <3>. QED
      BY <3>1, FS_Subset
  <2>7. ASSUME NEW c \in Cells, InResidence(c)'
        PROVE  /\ Contents(c)' = Contents(c)
               /\ Snapshot(c)' = Snapshot(c)
               /\ residence_statuses'[c] <= Cardinality(ids_by_cell'[c])
               /\ {d.id : d \in Contents(c)} = {e.id : e \in Snapshot(c)}
    <3>1. /\ InResidence(c) /\ residence_statuses'[c] = residence_statuses[c]
          /\ Contents(c)' = Contents(c)
      BY <2>1, <2>7 DEF InResidence, Contents
    <3>2. /\ residence_statuses[c] \in Int
          /\ Cardinality(ids_by_cell[c]) \in Nat /\ Cardinality(ids_by_cell'[c]) \in Nat
          /\ residence_statuses[c] <= Cardinality(ids_by_cell[c])
      <4>1. Cardinality(ids_by_cell[c]) \in Nat /\ Cardinality(ids_by_cell'[c]) \in Nat
        BY FS_CardinalityType DEF IInv, VectorsFinite
      <4>. QED
        BY <3>1, <4>1 DEF IInv, TypeOK, SnapshotInv
    <3>3. ASSUME NEW e \in ids_by_cell'[c], e \notin ids_by_cell[c]
          PROVE  ~(Cardinality(Before(c, e)') < residence_statuses[c])
      <4>1. IsFiniteSet(ids_by_cell'[c]) /\ Before(c, e)' \in SUBSET ids_by_cell'[c]
        BY DEF IInv, VectorsFinite, Before
      <4>2. Cardinality(Before(c, e)') \in Nat
        BY <4>1, FS_Subset, FS_CardinalityType
      <4>. QED
        BY <2>5, <3>2, <3>3, <4>2
    <3>4. Snapshot(c)' = {e \in ids_by_cell'[c] : Cardinality(Before(c, e)') < residence_statuses[c]}
      BY <3>1 DEF Snapshot
    <3>5. ids_by_cell[c] \subseteq ids_by_cell'[c]
      BY <2>1
    <3>6. \A e \in ids_by_cell[c] : Cardinality(Before(c, e)') = Cardinality(Before(c, e))
      BY <2>4
    <3>7. Snapshot(c)' = Snapshot(c)
      BY <3>3, <3>4, <3>5, <3>6 DEF Snapshot
    <3>8. {d.id : d \in Contents(c)} = {e.id : e \in Snapshot(c)}
      BY <3>1, SnapshotOfCell DEF SnapshotInv
    <3>9. residence_statuses'[c] <= Cardinality(ids_by_cell'[c])
      BY <2>6, <3>1, <3>2
    <3>. QED
      BY <3>1, <3>7, <3>8, <3>9
  <2>8. \A c \in Cells : InResidence(c)' => {d.id : d \in Contents(c)'} = {e.id : e \in Snapshot(c)'}
    BY <2>7
  <2>9. SnapshotComplete'
    BY <2>8 DEF SnapshotComplete, Snapshot, Before
  <2>. QED
    BY <2>7, <2>9 DEF SnapshotInv
<1>. QED
  BY <1>1, <1>2

(* A cell that has just been loaded holds the documents placed in it. *)
LEMMA LoadedContents ==
    ASSUME IInv, NEW c \in Cells, LoadCell(c), ~AssertFails(c)
    PROVE  {d.id : d \in Contents(c)'} = Placed(c)
<1>1. /\ ~InResidence(c)
      /\ data_map' = DataMapWith(c)
      /\ invlists' = [invlists EXCEPT ![c] = @ \cup PlacedLabels(c)]
  BY DEF LoadCell
<1>2. invlists[c] = {}
  BY <1>1 DEF IInv, ListedDataBelongs
<1>3. invlists'[c] = PlacedLabels(c)
  BY <1>1, <1>2 DEF IInv, TypeOK
<1>4. ASSUME NEW id \in Placed(c)
      PROVE  /\ id_map[id] \in DOMAIN data_map'
             /\ data_map'[id_map[id]].id = id
  <2>. DEFINE other == CHOOSE o \in Placed(c) : id_map[o] = id_map[id]
  <2>1. other \in Placed(c) /\ id_map[other] = id_map[id]
    OBVIOUS
  <2>2. \A o \in Placed(c) : o \in DOMAIN id_map /\ id_map[o] \notin DOMAIN data_map
    BY PlacedFacts
  <2>3. other = id
    <3>. HIDE DEF other
    <3>. QED
      BY <2>1, <2>2 DEF IInv, LabelIsFirstPush
  <2>4. data_map'[id_map[id]] = [id |-> other, embedding |-> db[other]]
    BY <1>1, <2>2 DEF DataMapWith, PlacedLabels
  <2>5. id_map[id] \in DOMAIN data_map'
    BY <1>1 DEF DataMapWith, PlacedLabels
  <2>. QED
    BY <2>3, <2>4, <2>5
<1>5. Contents(c)' = {data_map'[id_map[id]] : id \in Placed(c)}
  BY <1>3, <1>4 DEF Contents, PlacedLabels
<1>. QED
  BY <1>4, <1>5

(* Under the contract the database answers, and the quantizer places, every *)
(* id asked for.                                                            *)
LEMMA LoadCellSnapshot ==
    ASSUME IInv, IInv', SnapshotInv, Contract, NEW c \in Cells, LoadCell(c), [Next]_vars
    PROVE  SnapshotInv'
<1>1. CASE AssertFails(c)
  BY <1>1, SameSnapshot DEF LoadCell, Abort, registry, index, InResidence
<1>2. CASE ~AssertFails(c)
  <2>1. /\ residence_statuses' = [residence_statuses EXCEPT ![c] = Cardinality(ids_by_cell[c])]
        /\ UNCHANGED ids_by_cell
    BY <1>2 DEF LoadCell, registry
  <2>2. Placed(c) = Asked(c)
    BY DEF Contract, Stored, Placed, Answered
  <2>3. /\ residence_statuses'[c] = Cardinality(ids_by_cell[c])
        /\ Cardinality(ids_by_cell[c]) \in Nat
        /\ \A d \in Cells : d # c => residence_statuses'[d] = residence_statuses[d]
    BY <2>1, BeforeFinite DEF IInv, TypeOK
  <2>4. Snapshot(c)' = ids_by_cell[c]
    BY <2>1, <2>3, WholeSnapshot DEF Snapshot, Before
  <2>5. {d.id : d \in Contents(c)'} = {e.id : e \in Snapshot(c)'}
    BY <1>2, <2>2, <2>4, LoadedContents DEF Asked
  <2>6. ASSUME NEW d \in Cells, d # c, InResidence(d)'
        PROVE  /\ {x.id : x \in Contents(d)'} = {e.id : e \in Snapshot(d)'}
               /\ residence_statuses'[d] <= Cardinality(ids_by_cell'[d])
    <3>1. InResidence(d) /\ residence_statuses'[d] = residence_statuses[d]
      BY <2>3, <2>6 DEF InResidence
    <3>2. Contents(d)' = Contents(d)
      BY <2>6, <3>1, FrozenStep
    <3>3. Snapshot(d)' = Snapshot(d)
      BY <2>1, <3>1 DEF Snapshot, Before
    <3>. QED
      BY <2>1, <3>1, <3>2, <3>3, SnapshotOfCell DEF SnapshotInv
  <2>7. \A d \in Cells : InResidence(d)' => {x.id : x \in Contents(d)'} = {e.id : e \in Snapshot(d)'}
    BY <2>5, <2>6
  <2>8. SnapshotComplete'
    BY <2>7 DEF SnapshotComplete, Snapshot, Before
  <2>9. residence_statuses'[c] <= Cardinality(ids_by_cell'[c])
    BY <2>1, <2>3
  <2>. QED
    BY <2>6, <2>8, <2>9 DEF SnapshotInv
<1>. QED
  BY <1>1, <1>2

LEMMA SnapshotStep ==
    ASSUME IInv, IInv', SnapshotInv, Contract, [DisciplinedNext]_vars
    PROVE  SnapshotInv'
<1>1. [Next]_vars
  BY DEF DisciplinedNext, Next, AddAny
<1>2. CASE \E docs \in Batches : Add(docs)
  BY <1>1, <1>2, AddSnapshot
<1>3. CASE \E c \in Cells : LoadCell(c)
  BY <1>1, <1>3, LoadCellSnapshot
<1>4. CASE Initialize
  BY <1>4 DEF Initialize, SnapshotInv, SnapshotComplete, InResidence
<1>5. ASSUME NEW t \in Targets, Evict(t)
      PROVE  SnapshotInv'
  <2>1. UNCHANGED ids_by_cell
    BY <1>5 DEF Evict, registry
  <2>2. \A c \in Cells : InResidence(c)' =>
           InResidence(c) /\ residence_statuses'[c] = residence_statuses[c]
    BY <1>5 DEF Evict, InResidence
  <2>. QED
    BY <1>1, <2>1, <2>2, SameSnapshot
<1>6. CASE UNCHANGED <<ids_by_cell, residence_statuses>>
  BY <1>1, <1>6, SameSnapshot DEF InResidence
<1>7. CASE \E q \in Quantizers : Train(q)
  BY <1>6, <1>7 DEF Train, registry, index
<1>8. CASE (\E t \in Targets : LoadBegin(t)) \/ (\E c \in Cells : SkipCell(c))
  BY <1>6, <1>8 DEF LoadBegin, SkipCell, registry, index
<1>9. CASE (\E c \in Cells : LoadHttpError(c)) \/ LoadReply
  BY <1>6, <1>9 DEF LoadHttpError, LoadReply, registry, index
<1>10. CASE \E s \in Searches : Search(s)
  BY <1>6, <1>10 DEF Search, Abort, registry, index
<1>11. CASE (\E id \in Ids, v \in Vectors : DbPut(id, v)) \/ (\E id \in Ids : DbDelete(id))
  BY <1>6, <1>11 DEF DbPut, DbDelete, registry, index
<1>12. CASE UNCHANGED vars
  BY <1>6, <1>12 DEF vars, registry, index
<1>. QED
  BY <1>2, <1>3, <1>4, <1>5, <1>7, <1>8, <1>9, <1>10, <1>11, <1>12 DEF DisciplinedNext, OtherStep

(* An application that keeps its contract finds in a resident cell every    *)
(* document registered in it when it was loaded, and no other, however      *)
(* ADDs, LOADs, EVICTs and writes of the database follow each other.        *)
THEOREM LoadedCellsAreComplete == DisciplinedSpec => []SnapshotComplete
<1>1. Init => DisciplinedInv /\ SnapshotInv
  <2>1. Init => Contract /\ NoAbort
    BY DEF Init, Contract, UniqueIds, Stored, Asked, NoAbort
  <2>2. Init => SnapshotInv
    BY DEF Init, SnapshotInv, SnapshotComplete, InResidence
  <2>. QED
    BY <2>1, <2>2, InitInv DEF DisciplinedInv
<1>2. DisciplinedInv /\ SnapshotInv /\ [DisciplinedNext]_vars => DisciplinedInv' /\ SnapshotInv'
  <2>. SUFFICES ASSUME DisciplinedInv, SnapshotInv, [DisciplinedNext]_vars
                PROVE  DisciplinedInv' /\ SnapshotInv'
    OBVIOUS
  <2>1. DisciplinedInv'
    BY DisciplinedStep
  <2>. QED
    BY <2>1, SnapshotStep DEF DisciplinedInv
<1>3. SnapshotInv => SnapshotComplete
  BY DEF SnapshotInv
<1>. QED
  BY <1>1, <1>2, <1>3, PTL DEF DisciplinedSpec

-----------------------------------------------------------------------------
(* What a SEARCH answers. *)

(* The first query of a SEARCH is the vector the index is asked for. *)
LEMMA FirstQueryIsIndexed ==
    ASSUME NEW xq \in Seq(Vectors), 1 \in DOMAIN xq
    PROVE  IndexQuery(xq, 1) = xq[1]
<1>1. xq[1] \in [1 .. D -> Coords]
  BY DEF Vectors
<1>2. ASSUME NEW j \in 1 .. D
      PROVE  xq[(((1 - 1) + (j - 1)) \div D) + 1][(((1 - 1) + (j - 1)) % D) + 1] = xq[1][j]
  <2>1. D \in Nat \ {0} /\ j \in Nat /\ j - 1 \in 0 .. D - 1
    BY SizesAssumption
  <2>2. (j - 1) \div D = 0 /\ (j - 1) % D = j - 1
    BY <2>1
  <2>3. (1 - 1) + (j - 1) = j - 1 /\ (j - 1) + 1 = j /\ 0 + 1 = 1
    BY <2>1
  <2>. QED
    BY <2>2, <2>3
<1>3. IndexQuery(xq, 1) = [j \in 1 .. D |-> xq[1][j]]
  BY <1>2 DEF IndexQuery
<1>. QED
  BY <1>1, <1>3

(* A finite set of labels that have data names as many documents. *)
LEMMA DistinctData ==
    ASSUME IInv, NEW S, S \subseteq UNION {invlists[c] : c \in Cells}
    PROVE  /\ IsFiniteSet(S)
           /\ Cardinality({data_map[l] : l \in S}) = Cardinality(S)
<1>. DEFINE T == {data_map[l] : l \in S}
            named == [l \in S |-> data_map[l]]
<1>1. S \in SUBSET (0 .. MaxLabel)
  BY DEF IInv, TypeOK, Labels
<1>2. IsFiniteSet(S)
  <2>1. IsFiniteSet(0 .. MaxLabel)
    BY SizesAssumption, FS_Interval
  <2>. QED
    BY <1>1, <2>1, FS_Subset
<1>3. \A k, l \in S : data_map[k] = data_map[l] => k = l
  <2>1. \A l \in S : id_map[data_map[l].id] = l
    BY DEF IInv, ListedDataBelongs
  <2>. QED
    BY <2>1
<1>4. named \in Bijection(S, T)
  <2>1. named \in [S -> T] /\ \A t \in T : \E l \in S : named[l] = t
    OBVIOUS
  <2>2. \A k, l \in S : named[k] = named[l] => k = l
    BY <1>3
  <2>. HIDE DEF named, T
  <2>. QED
    BY <2>1, <2>2 DEF Bijection, Surjection, Injection, IsInjective
<1>5. ExistsBijection(S, T)
  BY <1>4 DEF ExistsBijection
<1>. QED
  BY <1>2, <1>5, FS_Bijection

LEMMA SingleQueryStep ==
    ASSUME IInv, NEW s \in Searches, Search(s), Len(s.xq) = 1, ~aborted',
           reply'.cacheHits[1] > -1
    PROVE  KNearest(reply'.data[1],
                    UNION {Contents(c) : c \in NearestCells(s.xq[1], s.nprobe)}, s.k)
<1>. DEFINE v == s.xq[1]
            scanned == Candidates(v, s.nprobe)
            near == UNION {Contents(c) : c \in NearestCells(v, s.nprobe)}
            hit == CacheHit(v, s.nprobe, s.require_all)
<1>1. /\ s.xq \in Seq(Vectors) /\ DOMAIN s.xq = 1 .. 1 /\ 1 \in DOMAIN s.xq
      /\ s.k \in Nat /\ s.nprobe \in 1 .. NCells
      /\ v \in Vectors
      /\ quantizer # None
  <2>1. s.xq \in Seq(Vectors) /\ s.k \in Nat /\ s.nprobe \in 1 .. NCells
    BY InputsAssumption
  <2>2. quantizer # None
    BY DEF Search, Ready
  <2>. QED
    BY <2>1, <2>2
<1>2. PICK found \in [DOMAIN s.xq -> SUBSET UNION {invlists[c] : c \in Cells}] :
        /\ IF hit THEN KNearest(found[1], Candidates(IndexQuery(s.xq, 1), s.nprobe), s.k)
                  ELSE found[1] = {}
        /\ reply' = SearchReply(s, found)
  BY <1>1 DEF Search, Abort
<1>3. /\ reply'.cacheHits[1] = IF hit THEN Cardinality(found[1]) ELSE -1
      /\ reply'.data[1] = IF hit THEN {data_map[l] : l \in found[1]} ELSE {}
  BY <1>1, <1>2 DEF SearchReply
<1>4. hit
  <2>1. CASE ~hit
    <3>1. reply'.cacheHits[1] = -1
      BY <1>3, <2>1
    <3>. QED
      BY <3>1
  <2>. QED
    BY <2>1
<1>5. KNearest(found[1], scanned, s.k) /\ reply'.data[1] = {data_map[l] : l \in found[1]}
  BY <1>1, <1>2, <1>3, <1>4, FirstQueryIsIndexed
<1>6. NearestCells(v, s.nprobe) \subseteq Cells
  BY <1>1, NearestAreCells DEF IInv
<1>7. near = {data_map[l] : l \in scanned}
  <2>1. \A c \in Cells : invlists[c] \subseteq DOMAIN data_map /\ invlists[c] \subseteq Labels
    BY DEF IInv, TypeOK, IndexMatchesDataMap
  <2>2. \A c \in Cells : Contents(c) = {data_map[l] : l \in invlists[c]}
    BY <2>1 DEF Contents
  <2>3. scanned = UNION {invlists[c] : c \in NearestCells(v, s.nprobe)}
    BY <1>6, <2>1 DEF Candidates
  <2>. QED
    BY <1>6, <2>2, <2>3
<1>8. /\ scanned \subseteq UNION {invlists[c] : c \in Cells}
      /\ found[1] \subseteq scanned
  BY <1>5 DEF Candidates, KNearest
<1>9. Cardinality(near) = Cardinality(scanned)
  BY <1>7, <1>8, DistinctData
<1>10. Cardinality(reply'.data[1]) = Cardinality(found[1]) /\ reply'.data[1] \subseteq near
  BY <1>5, <1>7, <1>8, DistinctData
<1>. QED
  BY <1>5, <1>9, <1>10 DEF KNearest

(* Whatever was added, loaded, evicted and written before it, a SEARCH of   *)
(* one query that hits answers with k records of the cells it probes, or    *)
(* all there are, each once.                                                *)
THEOREM SearchIsExact == Spec => SingleQueryExact
<1>. DEFINE Exact ==
        \A s \in Searches :
          Search(s) /\ Len(s.xq) = 1 /\ ~aborted' /\ reply'.cacheHits[1] > -1 =>
             LET near == UNION {Contents(c) : c \in NearestCells(s.xq[1], s.nprobe)}
             IN  KNearest(reply'.data[1], near, s.k)
<1>1. IInv /\ [Next]_vars => [Exact]_vars
  BY SingleQueryStep
<1>2. [][Exact]_vars <=> SingleQueryExact
  BY DEF SingleQueryExact
<1>. HIDE DEF Exact
<1>. QED
  BY <1>1, <1>2, Invariance, PTL DEF Spec
=============================================================================
