-------------------------------- MODULE MCWire --------------------------------
(***************************************************************************)
(* Instances of Wire for TLC: every method, with and without options; what *)
(* a SEARCH finds has records one byte shorter than two chunks, two chunks *)
(* long, and one byte longer.                                              *)
(***************************************************************************)
EXTENDS WireRefinement

NoOptions == << >>

EveryMethod ==
    {[command |-> "INITIALIZE", d |-> 2, url |-> 3, options |-> o] :
        o \in {NoOptions, [max_mem |-> 7, n_records |-> 5, use_flat |-> TRUE]}}
    \cup {[command |-> "TRAIN", vectors |-> <<2, 2>>]}
    \cup {[command |-> "ADD", ids |-> i, vectors |-> <<2, 2>>] : i \in {<<1, 2>>, <<2, 0>>}}
    \cup {[command |-> "LOAD", vectors |-> <<2>>, options |-> o] : o \in {NoOptions, [n_load |-> 3]}}
    \cup {[command |-> "SEARCH", vectors |-> <<1, 1>>, k |-> 2, options |-> o] :
             o \in {NoOptions, [n_probe |-> 3, require_all |-> FALSE]}}
    \cup {[command |-> "EVICT", vectors |-> <<2>>, options |-> o] : o \in {NoOptions, [n_evict |-> 3]}}

(* Of 32 bytes for the lengths, and those of the members. *)
Shorter == [id |-> 1, embedding |-> 1, document |-> 0, metadata |-> 0]
Equal == [id |-> 1, embedding |-> 1, document |-> 0, metadata |-> 1]
Longer == [id |-> 1, embedding |-> 1, document |-> 1, metadata |-> 1]
Long == [id |-> 2, embedding |-> 2, document |-> 18, metadata |-> 3]

Miss == [hit |-> FALSE, records |-> <<>>]
Hit(records) == [hit |-> TRUE, records |-> records]

TwoQueries ==
    {<<Miss, Hit(<<Equal>>)>>,
     <<Hit(<<Shorter, Longer>>), Miss>>,
     <<Hit(<<Equal, Shorter>>), Hit(<<Long>>)>>,
     <<Hit(<<>>), Hit(<<Longer, Equal>>)>>}
=============================================================================
