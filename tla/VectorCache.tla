---------------------------- MODULE VectorCache ----------------------------
(***************************************************************************)
(* What Periplus promises, without its index: a cache of whole cells of a  *)
(* document database.  A cell is absent or holds the documents that were   *)
(* registered in it, that the database had when the cell was fetched, and  *)
(* that lay in it then; it holds them unchanged until it is dropped.  No   *)
(* document is held by two cells.  (README.md:12 and 98-104.)              *)
(***************************************************************************)

CONSTANTS
    Ids,        \* the documents' ids
    Vectors,    \* the embeddings
    Cells,      \* the cells the vectors are divided into
    Places,     \* the divisions a training can give: vector -> cell
    None        \* no division yet

VARIABLES
    place,      \* the division in use, or None
    registered, \* per cell: the ids it may hold
    resident,   \* the cells held
    held,       \* per cell: its documents, none when it is not resident
    db          \* the database: id -> embedding

vars == <<place, registered, resident, held, db>>

(* The documents of the database that belong in a cell. *)
Documents(c) ==
    {[id |-> id, embedding |-> db[id]] :
        id \in {i \in registered[c] \cap DOMAIN db : place[db[i]] = c}}

Init ==
    /\ place = None
    /\ registered = [c \in Cells |-> {}]
    /\ resident = {}
    /\ held = [c \in Cells |-> {}]
    /\ DOMAIN db = {}

Wipe ==
    /\ place' = None
    /\ registered' = [c \in Cells |-> {}]
    /\ resident' = {}
    /\ held' = [c \in Cells |-> {}]
    /\ UNCHANGED db

Divide ==
    /\ place = None
    /\ place' \in Places
    /\ UNCHANGED <<registered, resident, held, db>>

Register ==
    /\ place # None
    /\ registered' \in [Cells -> SUBSET Ids]
    /\ \A c \in Cells : registered[c] \subseteq registered'[c]
    /\ UNCHANGED <<place, resident, held, db>>

Fetch(c) ==
    /\ place # None
    /\ c \notin resident
    /\ \A d \in Cells : \A x \in held[d], y \in Documents(c) : x.id # y.id
    /\ resident' = resident \cup {c}
    /\ held' = [held EXCEPT ![c] = Documents(c)]
    /\ UNCHANGED <<place, registered, db>>

Drop ==
    /\ resident' \in SUBSET resident
    /\ held' = [c \in Cells |-> IF c \in resident' THEN held[c] ELSE {}]
    /\ UNCHANGED <<place, registered, db>>

(* The database is the application's: it changes a document at a time. *)
Write ==
    /\ \E id \in Ids :
          /\ DOMAIN db' \in {DOMAIN db \cup {id}, DOMAIN db \ {id}}
          /\ \A i \in DOMAIN db' \ {id} : db'[i] = db[i]
    /\ UNCHANGED <<place, registered, resident, held>>

Next ==
    \/ Wipe
    \/ Divide
    \/ Register
    \/ \E c \in Cells : Fetch(c)
    \/ Drop
    \/ Write

Spec == Init /\ [][Next]_vars
=============================================================================
