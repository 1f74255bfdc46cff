-------------------------------- MODULE Core --------------------------------
(***************************************************************************)
(* The cache engine of Periplus: struct Core (src/src/core.h, core.cpp),   *)
(* the answers its DBClient accepts (src/src/db_client.cpp) from a proxy   *)
(* built with periplus_proxy, and the reply of the Cache handler that      *)
(* calls it (src/src/cache.cpp).                                           *)
(*                                                                         *)
(* The server runs one thread.  INITIALIZE, TRAIN, ADD, SEARCH and EVICT   *)
(* are one step each; a LOAD posts one blocking request per cell to the    *)
(* database, so it is one step per cell, between which only the database   *)
(* moves.  A failed assert ends the process: `aborted' is then TRUE.       *)
(***************************************************************************)
EXTENDS Integers, FiniteSets, Sequences

CONSTANTS
    Ids,        \* the document ids clients use
    LongIds,    \* those of 100 characters or more
    D,          \* the dimension given to INITIALIZE
    Coords,     \* the values a coordinate takes
    NCells,     \* the number of IVF cells
    Quantizers, \* the trained quantizers: each ranks all cells for a vector
    MaxLabel,   \* bound: the labels next_id may hand out are 0..MaxLabel
    Proxy,      \* how the database proxy answers: "keyed" or "fetch"
    Batches,    \* the ADD commands: sequences of documents
    Targets,    \* the (xq, n) of LOAD and EVICT commands
    Searches,   \* the SEARCH commands
    None        \* no quantizer, no LOAD in progress, no reply

Cells   == 0 .. NCells - 1
Vectors == [1 .. D -> Coords]
Data    == [id : Ids, embedding : Vectors]
Labels  == 0 .. MaxLabel

(* A quantizer maps a vector to all cells, nearest centroid first. *)
Rankings == {r \in [1 .. NCells -> Cells] :
                \A i, j \in 1 .. NCells : r[i] = r[j] => i = j}

Commands == [xq : Vectors, n : 1 .. NCells]

(* A LOAD in progress: its arguments, and the position of the next cell. *)
LoadsInProgress == [xq : Vectors, n : 1 .. NCells, next : 1 .. NCells + 1]

ASSUME SizesAssumption ==
    /\ NCells \in Nat \ {0}
    /\ D \in Nat \ {0}
    /\ MaxLabel \in Nat
ASSUME QuantizersAssumption == Quantizers \subseteq [Vectors -> Rankings]
ASSUME NoneAssumption ==
    None \notin Quantizers \cup LoadsInProgress \cup [Vectors -> Cells]
ASSUME InputsAssumption ==
    /\ LongIds \subseteq Ids
    /\ Proxy \in {"keyed", "fetch"}
    /\ Batches \subseteq Seq(Data)
    /\ Targets \subseteq Commands
    /\ \A s \in Searches : /\ s.xq \in Seq(Vectors)
                           /\ s.k \in Nat \ {0}
                           /\ s.nprobe \in 1 .. NCells
                           /\ s.require_all \in BOOLEAN

VARIABLES
    quantizer,          \* the trained quantizer; None until the first TRAIN
    residence_statuses, \* per cell: -1, or the number of ids when it was loaded
    ids_by_cell,        \* per cell: its vector of ids, as a set of numbered pushes
    id_map,             \* id -> label
    next_id,            \* the number of the next push
    invlists,           \* the inverted lists of the faiss index: labels per cell
    data_map,           \* label -> data
    db,                 \* the vector database: id -> embedding
    load,               \* the LOAD in progress, or None
    reply,              \* the reply, when the last command was a LOAD or a SEARCH:
                        \* the others are acknowledged with a constant text
    promised,           \* history: LOADs answered "Loaded cell", not evicted since
    aborted             \* the process has been ended by an assert

index == <<invlists, data_map, residence_statuses>>
registry == <<ids_by_cell, id_map, next_id>>
vars == <<quantizer, index, registry, db, load, reply, promised, aborted>>

-----------------------------------------------------------------------------
Empty == [x \in {} |-> None]

(* The ids of the vector ids_by_cell[c], whose element e was the e.at-th push. *)
Asked(c) == {e.id : e \in ids_by_cell[c]}

Nearest(v) == quantizer[v][1]
NearestCells(v, n) == {quantizer[v][j] : j \in 1 .. n}
InResidence(c) == residence_statuses[c] > -1

Idle == ~aborted /\ load = None
Ready == Idle /\ quantizer # None

Init ==
    /\ quantizer = None
    /\ residence_statuses = [c \in Cells |-> -1]
    /\ ids_by_cell = [c \in Cells |-> {}]
    /\ id_map = Empty
    /\ next_id = 0
    /\ invlists = [c \in Cells |-> {}]
    /\ data_map = Empty
    /\ db = Empty
    /\ load = None
    /\ reply = None
    /\ promised = {}
    /\ aborted = FALSE

(* INITIALIZE replaces the core by a new one: everything but the database. *)
Initialize ==
    /\ Idle
    /\ quantizer' = None
    /\ residence_statuses' = [c \in Cells |-> -1]
    /\ ids_by_cell' = [c \in Cells |-> {}]
    /\ id_map' = Empty
    /\ next_id' = 0
    /\ invlists' = [c \in Cells |-> {}]
    /\ data_map' = Empty
    /\ reply' = None
    /\ promised' = {}
    /\ UNCHANGED <<db, load, aborted>>

(* Mutant of Train: no is_trained guard. *)
TrainAgain(q) ==
    /\ Idle
    /\ quantizer' = q
    /\ reply' = None
    /\ UNCHANGED <<index, registry, db, load, promised, aborted>>

(* TRAIN fixes the centroids once; a second TRAIN finds the index trained. *)
Train(q) ==
    /\ Idle
    /\ quantizer' = IF quantizer = None THEN q ELSE quantizer
    /\ reply' = None
    /\ UNCHANGED <<index, registry, db, load, promised, aborted>>

(* A failed assert: the client gets no reply, the process is gone. *)
Abort ==
    /\ aborted' = TRUE
    /\ reply' = None
    /\ UNCHANGED <<quantizer, index, registry, db, load, promised>>

-----------------------------------------------------------------------------
(* ADD *)

HasLongId(docs) == \E i \in DOMAIN docs : docs[i].id \in LongIds

(* Mutant of PushesTo: next_id is advanced before it is used. *)
PushesLate(c, docs) ==
    {[at |-> next_id + i, id |-> docs[i].id] :
        i \in {j \in DOMAIN docs : Nearest(docs[j].embedding) = c}}

PushesTo(c, docs) ==
    {[at |-> next_id + i - 1, id |-> docs[i].id] :
        i \in {j \in DOMAIN docs : Nearest(docs[j].embedding) = c}}

FirstOf(id, docs) ==
    CHOOSE i \in DOMAIN docs :
        docs[i].id = id /\ \A j \in DOMAIN docs : docs[j].id = id => i <= j

(* Mutant of MapWith: id_map[id] = next_id, instead of insert. *)
MapOverwritten(docs) ==
    [id \in DOMAIN id_map \cup {docs[i].id : i \in DOMAIN docs} |->
        IF \E i \in DOMAIN docs : docs[i].id = id
          THEN next_id + FirstOf(id, docs) - 1
          ELSE id_map[id]]

(* id_map.insert keeps the label of an id that already has one. *)
MapWith(docs) ==
    [id \in DOMAIN id_map \cup {docs[i].id : i \in DOMAIN docs} |->
        IF id \in DOMAIN id_map THEN id_map[id]
                                ELSE next_id + FirstOf(id, docs) - 1]

Add(docs) ==
    /\ Ready
    /\ next_id + Len(docs) <= MaxLabel + 1
    /\ IF HasLongId(docs)
         THEN Abort
         ELSE /\ ids_by_cell' = [c \in Cells |-> ids_by_cell[c] \cup PushesTo(c, docs)]
              /\ id_map' = MapWith(docs)
              /\ next_id' = next_id + Len(docs)
              /\ reply' = None
              /\ UNCHANGED <<quantizer, index, db, load, promised, aborted>>

-----------------------------------------------------------------------------
(* LOAD *)

LoadBegin(t) ==
    /\ Ready
    /\ load' = [xq |-> t.xq, n |-> t.n, next |-> 1]
    /\ UNCHANGED <<quantizer, index, registry, db, reply, promised, aborted>>

Loading(c) ==
    /\ ~aborted
    /\ load # None
    /\ load.next <= load.n
    /\ c = quantizer[load.xq][load.next]

LoadNext == load' = [load EXCEPT !.next = @ + 1]

SkipCell(c) ==
    /\ Loading(c)
    /\ InResidence(c)
    /\ LoadNext
    /\ UNCHANGED <<quantizer, index, registry, db, reply, promised, aborted>>

(* A keyed proxy looks up one record per id asked, and when one is missing  *)
(* the exception is a failure (500); a fetch proxy answers one record per   *)
(* distinct id it has.                                                      *)
Answered(c) == Asked(c) \cap DOMAIN db
LooksUp(c) == Asked(c) \subseteq DOMAIN db
Responds(c) == Proxy = "keyed" => LooksUp(c)
ShortAnswer(c) == Proxy = "fetch" /\ Cardinality(Answered(c)) < Cardinality(ids_by_cell[c])

(* Mutant of Placed: the quantizer is not asked again. *)
PlacedUnchecked(c) == Answered(c)

(* The records of the answer that the quantizer places in the cell loaded. *)
Placed(c) == {id \in Answered(c) : Nearest(db[id]) = c}

Repeated(c) == \E e, f \in ids_by_cell[c] : e # f /\ e.id = f.id /\ e.id \in Placed(c)
Clashes(c) == \E id \in Placed(c) : id \notin DOMAIN id_map \/ id_map[id] \in DOMAIN data_map

(* The asserts of loadCell: an embedding per id asked, a label for its id,  *)
(* and no data under that label yet.                                        *)
AssertFails(c) == ShortAnswer(c) \/ Repeated(c) \/ Clashes(c)

PlacedLabels(c) == {id_map[id] : id \in Placed(c)}

DataMapWith(c) ==
    [l \in DOMAIN data_map \cup PlacedLabels(c) |->
        IF l \in DOMAIN data_map
          THEN data_map[l]
          ELSE LET id == CHOOSE id \in Placed(c) : id_map[id] = l
               IN  [id |-> id, embedding |-> db[id]]]

LoadCell(c) ==
    /\ Loading(c)
    /\ ~InResidence(c)
    /\ Responds(c)
    /\ IF AssertFails(c)
         THEN Abort
         ELSE /\ data_map' = DataMapWith(c)
              /\ invlists' = [invlists EXCEPT ![c] = @ \cup PlacedLabels(c)]
              /\ residence_statuses' =
                    [residence_statuses EXCEPT ![c] = Cardinality(ids_by_cell[c])]
              /\ LoadNext
              /\ UNCHANGED <<quantizer, registry, db, reply, promised, aborted>>

(* Mutants of LoadHttpError: the error is caught inside the loop, which goes *)
(* on; or the cell is marked resident before its data is fetched.            *)
LoadGoesOn(c) ==
    /\ Loading(c)
    /\ ~InResidence(c)
    /\ LoadNext
    /\ UNCHANGED <<quantizer, index, registry, db, reply, promised, aborted>>

LoadMarksFirst(c) ==
    /\ Loading(c)
    /\ ~InResidence(c)
    /\ load' = None
    /\ reply' = [command |-> "LOAD", ok |-> FALSE]
    /\ residence_statuses' =
          [residence_statuses EXCEPT ![c] = Cardinality(ids_by_cell[c])]
    /\ UNCHANGED <<quantizer, invlists, data_map, registry, db, promised, aborted>>

(* Any status but 200, or none: the LOAD stops there and replies the error. *)
LoadHttpError(c) ==
    /\ Loading(c)
    /\ ~InResidence(c)
    /\ load' = None
    /\ reply' = [command |-> "LOAD", ok |-> FALSE]
    /\ UNCHANGED <<quantizer, index, registry, db, promised, aborted>>

LoadReply ==
    /\ ~aborted
    /\ load # None
    /\ load.next > load.n
    /\ load' = None
    /\ reply' = [command |-> "LOAD", ok |-> TRUE]
    /\ promised' = promised \cup {[xq |-> load.xq, n |-> load.n]}
    /\ UNCHANGED <<quantizer, index, registry, db, aborted>>

-----------------------------------------------------------------------------
(* EVICT *)

Evicted(t) == {c \in NearestCells(t.xq, t.n) : InResidence(c)}

(* Mutants of Evict: the data map is left alone; or it is cleared of the ids *)
(* registered in the cell, not of those listed in it.                        *)
EvictKeepsData(t) ==
    /\ Ready
    /\ invlists' = [c \in Cells |-> IF c \in Evicted(t) THEN {} ELSE invlists[c]]
    /\ residence_statuses' =
          [c \in Cells |-> IF c \in Evicted(t) THEN -1 ELSE residence_statuses[c]]
    /\ reply' = None
    /\ promised' = {p \in promised : NearestCells(p.xq, p.n) \cap Evicted(t) = {}}
    /\ UNCHANGED <<quantizer, data_map, registry, db, load, aborted>>

EvictRegistered(t) ==
    /\ Ready
    /\ LET gone == {id_map[id] : id \in UNION {Asked(c) : c \in Evicted(t)}}
       IN  data_map' = [l \in DOMAIN data_map \ gone |-> data_map[l]]
    /\ invlists' = [c \in Cells |-> IF c \in Evicted(t) THEN {} ELSE invlists[c]]
    /\ residence_statuses' =
          [c \in Cells |-> IF c \in Evicted(t) THEN -1 ELSE residence_statuses[c]]
    /\ reply' = None
    /\ promised' = {p \in promised : NearestCells(p.xq, p.n) \cap Evicted(t) = {}}
    /\ UNCHANGED <<quantizer, registry, db, load, aborted>>

Evict(t) ==
    /\ Ready
    /\ LET gone == UNION {invlists[c] : c \in Evicted(t)}
       IN  data_map' = [l \in DOMAIN data_map \ gone |-> data_map[l]]
    /\ invlists' = [c \in Cells |-> IF c \in Evicted(t) THEN {} ELSE invlists[c]]
    /\ residence_statuses' =
          [c \in Cells |-> IF c \in Evicted(t) THEN -1 ELSE residence_statuses[c]]
    /\ reply' = None
    /\ promised' = {p \in promised : NearestCells(p.xq, p.n) \cap Evicted(t) = {}}
    /\ UNCHANGED <<quantizer, registry, db, load, aborted>>

-----------------------------------------------------------------------------
(* SEARCH *)

CacheHit(v, nprobe, require_all) ==
    /\ InResidence(Nearest(v))
    /\ require_all => \A j \in 2 .. nprobe : InResidence(quantizer[v][j])

(* index->search(1, &xq[i], ...) reads D floats of the flat n*D array from  *)
(* float i on, not from float i*D on.                                       *)
IndexQuery(xq, i) ==
    [j \in 1 .. D |-> LET p == (i - 1) + (j - 1)
                      IN  xq[(p \div D) + 1][(p % D) + 1]]

(* Mutant of Candidates: nprobe is not passed to the index. *)
CandidatesNearest(v, nprobe) == {l \in Labels : l \in invlists[Nearest(v)]}

(* The labels in the nprobe lists the index scans for a vector. *)
Candidates(v, nprobe) ==
    {l \in Labels : \E c \in Cells : c \in NearestCells(v, nprobe) /\ l \in invlists[c]}

(* The k nearest of the labels scanned, or all; distances are abstracted.  *)
KNearest(found, scanned, k) ==
    /\ found \subseteq scanned
    /\ Cardinality(found) = IF k <= Cardinality(scanned) THEN k ELSE Cardinality(scanned)

SearchReply(s, found) ==
    LET hit(i) == CacheHit(s.xq[i], s.nprobe, s.require_all)
    IN  [command   |-> "SEARCH",
         cacheHits |-> [i \in DOMAIN s.xq |-> IF hit(i) THEN Cardinality(found[i]) ELSE -1],
         data      |-> [i \in DOMAIN s.xq |->
                           IF hit(i) THEN {data_map[l] : l \in found[i]} ELSE {}]]

Search(s) ==
    /\ Ready
    /\ \E found \in [DOMAIN s.xq -> SUBSET UNION {invlists[c] : c \in Cells}] :
          /\ \A i \in DOMAIN s.xq :
                IF CacheHit(s.xq[i], s.nprobe, s.require_all)
                  THEN KNearest(found[i], Candidates(IndexQuery(s.xq, i), s.nprobe), s.k)
                  ELSE found[i] = {}
          /\ IF \E i \in DOMAIN s.xq : ~(found[i] \subseteq DOMAIN data_map)
               THEN Abort
               ELSE /\ reply' = SearchReply(s, found)
                    /\ UNCHANGED <<quantizer, index, registry, db, load, promised, aborted>>

-----------------------------------------------------------------------------
(* The database belongs to the application, which writes and deletes at any *)
(* time: between a LOAD's cells, and after an ADD.                          *)

DbPut(id, v) ==
    /\ ~aborted
    /\ db' = [i \in DOMAIN db \cup {id} |-> IF i = id THEN v ELSE db[i]]
    /\ UNCHANGED <<quantizer, index, registry, load, reply, promised, aborted>>

DbDelete(id) ==
    /\ ~aborted
    /\ id \in DOMAIN db
    /\ db' = [i \in DOMAIN db \ {id} |-> db[i]]
    /\ UNCHANGED <<quantizer, index, registry, load, reply, promised, aborted>>

AddAny == \E docs \in Batches : Add(docs)

OtherStep ==
    \/ Initialize
    \/ \E q \in Quantizers : Train(q)
    \/ \E t \in Targets : LoadBegin(t)
    \/ \E c \in Cells : SkipCell(c)
    \/ \E c \in Cells : LoadCell(c)
    \/ \E c \in Cells : LoadHttpError(c)
    \/ LoadReply
    \/ \E t \in Targets : Evict(t)
    \/ \E s \in Searches : Search(s)
    \/ \E id \in Ids, v \in Vectors : DbPut(id, v)
    \/ \E id \in Ids : DbDelete(id)

Next == AddAny \/ OtherStep

Spec == Init /\ [][Next]_vars
-----------------------------------------------------------------------------
(* What the application must do to be served: register an id once, store it *)
(* before it is asked for, keep it stored in the cell it was registered in, *)
(* and use ids of fewer than 100 characters.                                *)

UniqueIds ==
    \A c1, c2 \in Cells : \A e \in ids_by_cell[c1], f \in ids_by_cell[c2] :
        e.id = f.id => e = f

Stored ==
    \A c \in Cells : \A id \in Asked(c) : id \in DOMAIN db /\ Nearest(db[id]) = c

Contract == UniqueIds /\ Stored

DisciplinedNext ==
    /\ \/ \E docs \in Batches : ~HasLongId(docs) /\ Add(docs)
       \/ OtherStep
    /\ Contract'

DisciplinedSpec == Init /\ [][DisciplinedNext]_vars

-----------------------------------------------------------------------------
(* PROPERTIES *)

Contents(c) == {data_map[l] : l \in invlists[c] \cap DOMAIN data_map}

(* Types of the members of struct Core, of the LOAD loop and the history.  *)
TypeOK ==
    /\ quantizer \in Quantizers \cup {None}
    /\ residence_statuses \in [Cells -> Nat \cup {-1}]
    /\ ids_by_cell \in [Cells -> SUBSET [at : Labels, id : Ids]]
    /\ DOMAIN id_map \subseteq Ids
    /\ id_map \in [DOMAIN id_map -> Labels]
    /\ next_id \in 0 .. MaxLabel + 1
    /\ invlists \in [Cells -> SUBSET Labels]
    /\ DOMAIN data_map \subseteq Labels
    /\ data_map \in [DOMAIN data_map -> Data]
    /\ DOMAIN db \subseteq Ids
    /\ db \in [DOMAIN db -> Vectors]
    /\ load \in LoadsInProgress \cup {None}
    /\ promised \subseteq Commands
    /\ aborted \in BOOLEAN

(* The index and the data map hold the same labels, each in one list only:  *)
(* what the assert of Core::search (core.cpp:147) relies on, and what keeps *)
(* an EVICT of one cell from erasing data another cell still lists.         *)
IndexMatchesDataMap ==
    /\ \A c \in Cells : invlists[c] \subseteq DOMAIN data_map
    /\ \A l \in DOMAIN data_map : \E c \in Cells : l \in invlists[c]
    /\ \A c1, c2 \in Cells : invlists[c1] \cap invlists[c2] # {} => c1 = c2

(* Whatever is listed under a cell is there because the cell is resident,   *)
(* was registered for that cell by an ADD, lies in it, and is stored under  *)
(* the label its id has: no LOAD, EVICT, failed LOAD, repeated ADD or       *)
(* database change leaves data behind that no command could find or evict.  *)
ListedDataBelongs ==
    \A c \in Cells : \A l \in invlists[c] :
        /\ InResidence(c)
        /\ l \in DOMAIN data_map
        /\ data_map[l].id \in Asked(c)
        /\ Nearest(data_map[l].embedding) = c
        /\ data_map[l].id \in DOMAIN id_map
        /\ id_map[data_map[l].id] = l

(* An id's label is the number of its first ADD, whatever was added since,  *)
(* in the same batch or a later one, in the same cell or another: labels    *)
(* are unique although next_id also advances for ids already known.         *)
LabelIsFirstPush ==
    /\ \A id \in DOMAIN id_map : \E c \in Cells : [at |-> id_map[id], id |-> id] \in ids_by_cell[c]
    /\ \A c \in Cells : \A e \in ids_by_cell[c] :
          e.id \in DOMAIN id_map /\ id_map[e.id] <= e.at /\ e.at < next_id
    /\ \A i, j \in DOMAIN id_map : id_map[i] = id_map[j] => i = j

(* README.md:102: a LOAD answered "Loaded cell" guarantees a hit to a SEARCH *)
(* with the same vector and n_probe = n_load, until a cell of it is evicted, *)
(* whatever other LOADs, failed LOADs, EVICTs and database changes happen.   *)
LoadPromise == \A p \in promised : CacheHit(p.xq, p.n, TRUE)

(* README.md:101: the centroids cannot be reset without wiping the cache.   *)
MovesOnlyEmpty ==
    quantizer # None /\ quantizer' # quantizer =>
        \A c \in Cells : /\ ids_by_cell'[c] = {}
                        /\ invlists'[c] = {}
                        /\ residence_statuses'[c] = -1

CentroidsFixed == [][MovesOnlyEmpty]_vars

(* A cell that stays resident keeps exactly the data it was loaded with:    *)
(* LOADs that skip it or place data elsewhere, EVICTs of other cells, ADDs  *)
(* and database writes do not reach it.                                     *)
ResidentCellsFrozen ==
    [][\A c \in Cells : InResidence(c) /\ InResidence(c)' => Contents(c)' = Contents(c)]_vars

(* A SEARCH of one query answers a hit with records of the cells it probes, *)
(* k of them or all there are.                                              *)
SingleQueryExact ==
    [][\A s \in Searches :
          Search(s) /\ Len(s.xq) = 1 /\ ~aborted' /\ reply'.cacheHits[1] > -1 =>
             LET near == UNION {Contents(c) : c \in NearestCells(s.xq[1], s.nprobe)}
             IN  KNearest(reply'.data[1], near, s.k)]_vars

(* Under the contract no assert of the engine can fail.                     *)
NoAbort == ~aborted

(* Under the contract a resident cell holds every id that had been          *)
(* registered in it when it was loaded (the e2e test compares it with a     *)
(* local index), that is the first residence_statuses[c] elements of its    *)
(* vector of ids, and no other.                                             *)
SnapshotComplete ==
    \A c \in Cells : InResidence(c) =>
        {d.id : d \in Contents(c)} =
        {e.id : e \in {e \in ids_by_cell[c] :
            Cardinality({f \in ids_by_cell[c] : f.at < e.at}) < residence_statuses[c]}}

-----------------------------------------------------------------------------
(* What the documentation says and the code does not do. *)

(* api_reference.md:213: "each element corresponds to the results for a     *)
(* query vector": every hit of a SEARCH answers its own query.              *)
EveryQueryExact ==
    [][\A s \in Searches : Search(s) /\ ~aborted' =>
          \A i \in DOMAIN s.xq : reply'.cacheHits[i] > -1 =>
             LET near == UNION {Contents(c) : c \in NearestCells(s.xq[i], s.nprobe)}
             IN  KNearest(reply'.data[i], near, s.k)]_vars

(* api_reference.md:134: added vectors "become available for loading and    *)
(* searching": a LOAD answered "Loaded cell" leaves every vector registered *)
(* in its cells searchable.                                                 *)
LoadedIsCurrent ==
    [][LoadReply => \A c \in NearestCells(load.xq, load.n) :
          Asked(c) \subseteq {d.id : d \in Contents(c)}]_vars
=============================================================================
