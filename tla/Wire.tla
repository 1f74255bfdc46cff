--------------------------------- MODULE Wire ---------------------------------
(***************************************************************************)
(* One call of the Python client, byte for byte: what its method packs,    *)
(* what Session and the Args structs read of it however the stream is cut, *)
(* what Cache::search writes of its results through the output buffer, and *)
(* what the client reads back.                                             *)
(*                                                                         *)
(* A byte is known by the item it is of, the item's value, and its place   *)
(* in it.  A command line, which is read whole, counts as one byte.        *)
(***************************************************************************)
EXTENDS Integers, Sequences, SequencesExt

CONSTANTS
    Calls,     \* the calls: records of a command and the method's arguments
    Found,     \* what a SEARCH of two queries may find: per query if it hit, and its records
    MaxLength, \* Session::max_length, smaller than 1024
    MaxRead    \* the most bytes of a body read at once, smaller than 2048

(* The output buffer holds a text, which counts as two bytes. *)
ASSUME SizesAssumption == {MaxLength, MaxRead} \subseteq Nat \ {0} /\ MaxLength > 1

(* Of an id, a URL and an embedding the length is given, and of options     *)
(* those the caller sets.                                                   *)
ASSUME CallsAssumption ==
    \A p \in Calls :
        /\ p.command \in {"INITIALIZE", "TRAIN", "ADD", "LOAD", "SEARCH", "EVICT"}
        /\ p.command = "INITIALIZE" => {p.d, p.url} \subseteq Nat
        /\ p.command = "ADD" => p.ids \in Seq(Nat)
        /\ p.command = "SEARCH" => p.k \in Nat
        /\ p.command \in {"LOAD", "EVICT"} => Len(p.vectors) = 1
        /\ p.command \in {"INITIALIZE", "LOAD", "SEARCH", "EVICT"} =>
              \A name \in DOMAIN p.options :
                  p.options[name] \in IF name \in {"use_flat", "require_all"} THEN BOOLEAN ELSE Nat

(* The embeddings of one call have one length, as the methods' docs ask.    *)
ASSUME UniformAssumption ==
    \A p \in Calls : p.command # "INITIALIZE" =>
        /\ p.vectors \in Seq(Nat) \ {<<>>}
        /\ \A i \in DOMAIN p.vectors : p.vectors[i] = p.vectors[1]

(* Of a record the lengths of its members are given; a miss has none. *)
ASSUME FoundAssumption ==
    \A f \in Found :
        /\ f \in Seq([hit : BOOLEAN, records : Seq([id : Nat, embedding : Nat, document : Nat, metadata : Nat])])
        /\ \A i \in DOMAIN f : ~f[i].hit => f[i].records = <<>>

VARIABLES
    call,    \* the call made
    phase,   \* the session: where it waits, or what it does
    wire,    \* bytes sent by the client and not read
    input,   \* Session::input_stream
    args,    \* Session::args: the static arguments
    data,    \* Session::args: the dynamic ones
    found,   \* what the SEARCH has found
    piece,   \* the part of the reply being written: a count or a record
    l,       \* its bytes written
    written, \* the length of the last write
    sent,    \* bytes sent by the server and not read
    parse,   \* what the client still has to read
    body,    \* the part of a string or an embedding it has read
    results, \* the counts, strings and embeddings it has read
    outcome  \* what the call returned or raised

request == <<call, wire, input, args, data>>
reply == <<found, piece, l, written>>
client == <<parse, body, results, outcome>>
vars == <<request, phase, reply, sent, client>>

SizeT == 8
FloatSize == 4

(* The bytes of an item. *)
Bytes(item, value, width) ==
    [i \in 1 .. width |-> [item |-> item, value |-> value, width |-> width, at |-> i]]

(* What width bytes of s after the first off stand for. *)
Value(s, off, width) ==
    LET b == s[off + 1]
    IN  IF SubSeq(s, off + 1, off + width) = Bytes(b.item, b.value, width) THEN b.value ELSE "garbage"

Floats(n) == FlattenSeq([i \in 1 .. n |-> Bytes("float", i, FloatSize)])

Sum(s) == LET sum[i \in 0 .. Len(s)] == IF i = 0 THEN 0 ELSE sum[i - 1] + s[i] IN sum[Len(s)]

-----------------------------------------------------------------------------
(* The methods of the client: the message each packs *)

Line(command) == <<[item |-> "line", value |-> command, width |-> 1, at |-> 1]>>
Newline == Bytes("newline", 0, 1)
End == Bytes("end", 0, 2)

_format_command(command, static_args, dynamic_args) ==
    Line(command) \o static_args \o Newline \o dynamic_args \o End

Number(item, value) == Bytes(item, value, SizeT)
Flag(item, value) == Bytes(item, value, 1)
Option(p, name, default) == IF name \in DOMAIN p.options THEN p.options[name] ELSE default

initialize(p) ==
    _format_command("INITIALIZE",
        Number("d", p.d) \o Number("max_mem", Option(p, "max_mem", 1024))
        \o Number("nTotal", Option(p, "n_records", 250000))
        \o Flag("use_flat", Option(p, "use_flat", FALSE)) \o Number("size", p.url),
        Bytes("db_url", "url", p.url))

train(p) ==
    _format_command("TRAIN",
        Number("size", FloatSize * Len(p.vectors) * p.vectors[1]), Floats(Sum(p.vectors)))

(* Mutant of AddSize: the delimiter after the ids is not counted. *)
AddSizeShort(p) == Sum(p.ids) + SizeT * Len(p.ids) + FloatSize * Len(p.vectors) * p.vectors[1]

AddSize(p) == Sum(p.ids) + SizeT * Len(p.ids) + 1 + FloatSize * Len(p.vectors) * p.vectors[1]

(* Mutant of add: the end is not sent. *)
addEndless(p) ==
    Line("ADD") \o Number("num_docs", Len(p.ids)) \o Number("size", AddSize(p)) \o Newline
    \o FlattenSeq([i \in DOMAIN p.ids |-> Number("id_len", p.ids[i]) \o Bytes("id", i, p.ids[i])])
    \o Newline \o Floats(Sum(p.vectors))

add(p) ==
    Line("ADD") \o Number("num_docs", Len(p.ids)) \o Number("size", AddSize(p)) \o Newline
    \o FlattenSeq([i \in DOMAIN p.ids |-> Number("id_len", p.ids[i]) \o Bytes("id", i, p.ids[i])])
    \o Newline \o Floats(Sum(p.vectors)) \o End

load(p) ==
    _format_command("LOAD",
        Number("nload", Option(p, "n_load", 1)) \o Number("size", FloatSize * p.vectors[1]),
        Floats(p.vectors[1]))

search(p) ==
    _format_command("SEARCH",
        Number("n", Len(p.vectors)) \o Number("k", p.k) \o Number("nprobe", Option(p, "n_probe", 1))
        \o Flag("require_all", Option(p, "require_all", TRUE)) \o Number("size", FloatSize * Sum(p.vectors)),
        Floats(Sum(p.vectors)))

evict(p) ==
    _format_command("EVICT",
        Number("nevict", Option(p, "n_evict", 1)) \o Number("size", FloatSize * p.vectors[1]),
        Floats(p.vectors[1]))

Message(p) ==
    CASE p.command = "INITIALIZE" -> initialize(p)
      [] p.command = "TRAIN" -> train(p)
      [] p.command = "ADD" -> add(p)
      [] p.command = "LOAD" -> load(p)
      [] p.command = "SEARCH" -> search(p)
      [] p.command = "EVICT" -> evict(p)

-----------------------------------------------------------------------------
(* The Args structs of the server *)

(* Mutant of static_size: the delimiter of a SEARCH is not counted. *)
static_sizeShort ==
    [INITIALIZE |-> 34, TRAIN |-> 9, ADD |-> 9, LOAD |-> 17, SEARCH |-> 33, EVICT |-> 17]

static_size ==
    [INITIALIZE |-> 34, TRAIN |-> 9, ADD |-> 9, LOAD |-> 17, SEARCH |-> 34, EVICT |-> 17]

(* deserialize_static: the members, in the order they are read. *)
Members ==
    [INITIALIZE |-> <<"d", "max_mem", "nTotal", "use_flat", "size">>,
     TRAIN      |-> <<"size">>,
     ADD        |-> <<"num_docs", "size">>,
     LOAD       |-> <<"nload", "size">>,
     SEARCH     |-> <<"n", "k", "nprobe", "require_all", "size">>,
     EVICT      |-> <<"nevict", "size">>]

Width(member) == IF member \in {"use_flat", "require_all"} THEN 1 ELSE SizeT
Offset(ms, i) == Sum([j \in 1 .. i - 1 |-> Width(ms[j])])
StaticLength(command) == Offset(Members[command], Len(Members[command]) + 1) + 1

StaticArgs(command, s) ==
    LET ms == Members[command]
    IN  [m \in {ms[i] : i \in DOMAIN ms} |->
            LET i == CHOOSE j \in DOMAIN ms : ms[j] = m IN Value(s, Offset(ms, i), Width(m))]

(* read_dynamic_data<float>: the value of each. *)
FloatsAt(s, off, n) == [i \in 1 .. n |-> Value(s, off + FloatSize * (i - 1), FloatSize)]

(* AddArgs::deserialize_dynamic: where the i-th id starts. *)
IdOffsets(a, s) ==
    LET off[i \in 0 .. a.num_docs] ==
            IF i = 0 THEN 0 ELSE off[i - 1] + SizeT + Value(s, off[i - 1], SizeT)
    IN  off

(* The ids, then the embeddings after the delimiter. *)
AddData(a, s) ==
    LET off == IdOffsets(a, s)
        ids == [i \in 1 .. a.num_docs |-> SubSeq(s, off[i - 1] + SizeT + 1, off[i])]
        total == off[a.num_docs] + 1
    IN  ids \o FloatsAt(s, total, (a.size - total) \div FloatSize)

DynamicArgs(command, a, s) ==
    CASE command = "INITIALIZE" -> <<SubSeq(s, 1, a.size)>>
      [] command = "ADD" -> AddData(a, s)
      [] OTHER -> FloatsAt(s, 0, a.size \div FloatSize)

-----------------------------------------------------------------------------
(* The reply to a SEARCH *)

(* Mutant of serialize: the metadata goes before the document. *)
serializeSwapped(r) ==
    Number("id_len", r.id) \o Bytes("id", "id", r.id)
    \o Number("embedding_len", r.embedding) \o Floats(r.embedding)
    \o Number("metadata_len", r.metadata) \o Bytes("metadata", "metadata", r.metadata)
    \o Number("document_len", r.document) \o Bytes("document", "document", r.document)

(* Data::serialize: the four members, each after its length. *)
serialize(r) ==
    Number("id_len", r.id) \o Bytes("id", "id", r.id)
    \o Number("embedding_len", r.embedding) \o Floats(r.embedding)
    \o Number("document_len", r.document) \o Bytes("document", "document", r.document)
    \o Number("metadata_len", r.metadata) \o Bytes("metadata", "metadata", r.metadata)

Hits(q) == IF q.hit THEN Len(q.records) ELSE -1

(* What is written one after the other: per query its count and records. *)
Pieces(f) == FlattenSeq([i \in DOMAIN f |->
    <<Bytes("count", Hits(f[i]), 4)>> \o [j \in DOMAIN f[i].records |-> serialize(f[i].records[j])]])

-----------------------------------------------------------------------------
Nothing == [queries |-> 0, fields |-> 0, need |-> 0]

Init ==
    /\ call \in Calls
    /\ phase = "line"
    /\ wire = Message(call)
    /\ input = <<>>
    /\ args = <<>>
    /\ data = <<>>
    /\ found = <<>>
    /\ piece = 1
    /\ l = 0
    /\ written = 0
    /\ sent = <<>>
    /\ parse = IF call.command = "SEARCH" THEN [Nothing EXCEPT !.queries = Len(call.vectors)] ELSE Nothing
    /\ body = <<>>
    /\ results = <<>>
    /\ outcome = "none"

(* process_args and the handler, up to its first write. *)
process_args ==
    /\ phase' = "reply"
    /\ IF call.command = "SEARCH" THEN found' \in {f \in Found : Len(f) = args'.n} ELSE UNCHANGED found

(* read_dynamic_args, with s in the input stream: at once if all is there.  *)
read_dynamic_args(a, s) ==
    LET n == a.size + 2
    IN  IF Len(s) >= n
        THEN /\ data' = DynamicArgs(call.command, a, s)
             /\ input' = SubSeq(s, n + 1, Len(s))
             /\ process_args
        ELSE /\ input' = s
             /\ phase' = "dynamic"
             /\ UNCHANGED <<data, found>>

Terminate(s) ==
    /\ phase' = "terminated"
    /\ input' = s
    /\ UNCHANGED <<args, data, found>>

(* deserialize_static: it needs all its bytes, or the process ends.         *)
deserialize_static(s) ==
    LET n == StaticLength(call.command)
    IN  IF Len(s) >= n
        THEN /\ args' = StaticArgs(call.command, s)
             /\ read_dynamic_args(args', SubSeq(s, n + 1, Len(s)))
        ELSE Terminate(s)

(* read_command: the line, and more bytes that have arrived; read_args.     *)
ReadLine(more) ==
    /\ phase = "line"
    /\ wire' = SubSeq(wire, more + 2, Len(wire))
    /\ LET s == SubSeq(wire, 2, more + 1)
       IN  IF Len(s) >= static_size[call.command]
           THEN deserialize_static(s)
           ELSE /\ input' = s
                /\ phase' = "static"
                /\ UNCHANGED <<args, data, found>>
    /\ UNCHANGED <<call, piece, l, written, sent, client>>

(* The bytes of the static arguments that were missing.  The handler then   *)
(* copies args through a reference to a parameter that is gone: it goes on, *)
(* or the process ends.                                                     *)
ReadStatic ==
    /\ phase = "static"
    /\ LET n == static_size[call.command] - Len(input)
           s == input \o SubSeq(wire, 1, n)
       IN  /\ Len(wire) >= n
           /\ wire' = SubSeq(wire, n + 1, Len(wire))
           /\ deserialize_static(s) \/ Terminate(s)
    /\ UNCHANGED <<call, piece, l, written, sent, client>>

ReadDynamic ==
    /\ phase = "dynamic"
    /\ LET n == args.size + 2 - Len(input)
       IN  /\ Len(wire) >= n
           /\ wire' = SubSeq(wire, n + 1, Len(wire))
           /\ UNCHANGED args
           /\ read_dynamic_args(args, input \o SubSeq(wire, 1, n))
    /\ UNCHANGED <<call, piece, l, written, sent, client>>

(* The other commands are answered by a text, in one write. *)
WriteText ==
    /\ phase = "reply"
    /\ call.command # "SEARCH"
    /\ sent' = sent \o Bytes("text", call.command, 2)
    /\ written' = 2
    /\ phase' = "done"
    /\ UNCHANGED <<request, found, piece, l, client>>

(* Mutant of More: one byte more may wait for the last write. *)
MoreThanOne(size) == size >= MaxLength /\ l + 1 < size - MaxLength

More(size) == size >= MaxLength /\ l < size - MaxLength

write(n) ==
    /\ sent' = sent \o SubSeq(Pieces(found)[piece], l + 1, l + n)
    /\ written' = n

(* The bytes of a record are written MaxLength at a time while more are     *)
(* left, then the rest.                                                     *)
WriteSearch ==
    /\ phase = "reply"
    /\ call.command = "SEARCH"
    /\ piece <= Len(Pieces(found))
    /\ LET size == Len(Pieces(found)[piece])
       IN  \/ /\ More(size)
              /\ write(MaxLength)
              /\ l' = l + MaxLength
              /\ UNCHANGED piece
           \/ /\ ~More(size)
              /\ write(size - l)
              /\ l' = 0
              /\ piece' = piece + 1
    /\ UNCHANGED <<request, phase, found, client>>

SearchDone ==
    /\ phase = "reply"
    /\ call.command = "SEARCH"
    /\ piece > Len(Pieces(found))
    /\ phase' = "done"
    /\ UNCHANGED <<request, reply, sent, client>>

-----------------------------------------------------------------------------
(* The client reads *)

(* n bytes that have arrived, all there are or the start of them. *)
receive(n) == n \in 1 .. Len(sent) /\ sent' = SubSeq(sent, n + 1, Len(sent))

Least(a, b) == IF a < b THEN a ELSE b

ReadText(n) ==
    /\ call.command # "SEARCH"
    /\ outcome = "none"
    /\ receive(n)
    /\ outcome' = IF SubSeq(sent, 1, n) = Bytes("text", call.command, 2) THEN "ok" ELSE "PeriplusServerError"
    /\ UNCHANGED <<request, phase, reply, parse, body, results>>

(* Mutant of FieldsOf: a miss, -1, is taken for a number of records. *)
FieldsOfMiss(v) == 4 * v

(* What is left to read of the records counted. *)
FieldsOf(v) == IF v > 0 THEN 4 * v ELSE 0

(* A count, 4 bytes, or a length, 8 bytes: the read must give all of them.  *)
ReadNumber(n) ==
    /\ outcome = "none"
    /\ parse # Nothing /\ parse.need = 0
    /\ LET width == IF parse.fields = 0 THEN 4 ELSE SizeT
           v == Value(sent, 0, width)
       IN  /\ n <= width
           /\ receive(n)
           /\ \/ /\ n < width
                 /\ outcome' = "struct.error"
                 /\ UNCHANGED <<parse, results>>
              \/ /\ n = width /\ parse.fields = 0
                 /\ parse' = [parse EXCEPT !.queries = @ - 1, !.fields = FieldsOf(v)]
                 /\ results' = Append(results, v)
                 /\ UNCHANGED outcome
              \/ /\ n = width /\ parse.fields > 0
                 /\ parse' = [parse EXCEPT !.fields = @ - 1,
                                           !.need = IF parse.fields % 4 = 3 THEN FloatSize * v ELSE v]
                 /\ results' = IF v = 0 THEN Append(results, <<>>) ELSE results
                 /\ UNCHANGED outcome
    /\ UNCHANGED <<request, phase, reply, body>>

(* Mutant of ReadBody: what earlier reads gave is dropped. *)
ReadBodyLast(n) ==
    /\ outcome = "none"
    /\ parse.need > 0
    /\ n <= Least(parse.need, MaxRead)
    /\ receive(n)
    /\ LET b == SubSeq(sent, 1, n)
       IN  /\ body' = IF n = parse.need THEN <<>> ELSE b
           /\ results' = IF n = parse.need THEN Append(results, b) ELSE results
    /\ parse' = [parse EXCEPT !.need = @ - n]
    /\ UNCHANGED <<request, phase, reply, outcome>>

(* _read_string, _read_floats: as many reads as it takes. *)
ReadBody(n) ==
    /\ outcome = "none"
    /\ parse.need > 0
    /\ n <= Least(parse.need, MaxRead)
    /\ receive(n)
    /\ LET b == body \o SubSeq(sent, 1, n)
       IN  /\ body' = IF n = parse.need THEN <<>> ELSE b
           /\ results' = IF n = parse.need THEN Append(results, b) ELSE results
    /\ parse' = [parse EXCEPT !.need = @ - n]
    /\ UNCHANGED <<request, phase, reply, outcome>>

ReturnResults ==
    /\ call.command = "SEARCH"
    /\ outcome = "none"
    /\ parse = Nothing
    /\ outcome' = "ok"
    /\ UNCHANGED <<request, phase, reply, sent, parse, body, results>>

Server ==
    \/ \E more \in 0 .. Len(wire) - 1 : ReadLine(more)
    \/ ReadStatic
    \/ ReadDynamic
    \/ WriteText
    \/ WriteSearch
    \/ SearchDone

Client ==
    \/ \E n \in 1 .. Len(sent) : ReadText(n) \/ ReadNumber(n) \/ ReadBody(n)
    \/ ReturnResults

Next == Server \/ Client

Spec == Init /\ [][Next]_vars

FairSpec == Spec /\ WF_vars(Server) /\ WF_vars(Client)

-----------------------------------------------------------------------------
(* PROPERTIES *)

(* Types of the session's members and the client's locals. *)
TypeOK ==
    /\ call \in Calls
    /\ phase \in {"line", "static", "dynamic", "reply", "done", "terminated"}
    /\ {piece, l, written} \subseteq Nat
    /\ parse \in [queries : Nat, fields : Nat, need : Nat]
    /\ outcome \in {"none", "ok", "PeriplusServerError", "struct.error"}

UpTo(n) == [i \in 1 .. n |-> i]

(* What the caller of p has asked for, as the method's documentation names  *)
(* it: the static arguments, the strings and floats in their order.         *)
Meant(p) ==
    CASE p.command = "INITIALIZE" ->
            /\ args.d = p.d
            /\ args.max_mem = Option(p, "max_mem", 1024)
            /\ args.nTotal = Option(p, "n_records", 250000)
            /\ args.use_flat = Option(p, "use_flat", FALSE)
            /\ data = <<Bytes("db_url", "url", p.url)>>
      [] p.command = "TRAIN" -> data = UpTo(Sum(p.vectors))
      [] p.command = "ADD" ->
            /\ args.num_docs = Len(p.ids)
            /\ data = [i \in DOMAIN p.ids |-> Bytes("id", i, p.ids[i])] \o UpTo(Sum(p.vectors))
      [] p.command = "LOAD" -> args.nload = Option(p, "n_load", 1) /\ data = UpTo(Sum(p.vectors))
      [] p.command = "SEARCH" ->
            /\ args.n = Len(p.vectors)
            /\ args.k = p.k
            /\ args.nprobe = Option(p, "n_probe", 1)
            /\ args.require_all = Option(p, "require_all", TRUE)
            /\ data = UpTo(Sum(p.vectors))
      [] p.command = "EVICT" -> args.nevict = Option(p, "n_evict", 1) /\ data = UpTo(Sum(p.vectors))

(* However the stream is cut into segments, a handler runs with the         *)
(* arguments its caller meant, and nothing of the command is left to be     *)
(* taken for the next.                                                      *)
ArgsReadBack == phase \in {"reply", "done"} => Meant(call) /\ input = <<>> /\ wire = <<>>

SplitHead(s) == Len(s) < StaticLength(call.command)

(* The process ends only for a command whose static arguments did not all   *)
(* arrive with its line: at once for an ADD, of which static_size counts    *)
(* one argument of two, and else in the handler of the read that gets the   *)
(* others.  No cut of the dynamic arguments ends it.                        *)
OnlySplitHeadEnds ==
    [][phase' = "terminated" /\ phase # "terminated" =>
          \/ phase = "line" /\ call.command = "ADD" /\ SplitHead(input')
          \/ phase = "static" /\ SplitHead(input)]_vars

(* No write of a reply is longer than the output buffer, and no record's    *)
(* bytes run out.                                                           *)
WritesFit ==
    /\ written <= MaxLength
    /\ piece <= Len(Pieces(found)) => l < Len(Pieces(found)[piece])

ReadBack(f) == FlattenSeq([i \in DOMAIN f |->
    <<Hits(f[i])>> \o FlattenSeq([j \in DOMAIN f[i].records |->
        LET r == f[i].records[j]
        IN  <<Bytes("id", "id", r.id), Floats(r.embedding),
              Bytes("document", "document", r.document), Bytes("metadata", "metadata", r.metadata)>>])])

(* A search returns the records the server found, each string and embedding *)
(* whole, however writes and reads cut them, or it raises.                  *)
ResultsReadBack == call.command = "SEARCH" /\ outcome = "ok" => results = ReadBack(found)

(* Every exchange ends, but for the process's end. *)
ExchangeEnds == <>(outcome # "none" \/ phase = "terminated")
=============================================================================
