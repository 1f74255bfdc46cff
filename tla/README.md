# Periplus in TLA+

A model of the Periplus vector-database cache (`src/`), checked with TLC and
proved about with TLAPS. Paths below are relative to `src/`; line numbers are
those of the modelled commit.

## 1. The system

Periplus keeps a part of a vector database in memory. The vector space is
divided into IVF cells by the centroids of a trained faiss index; the unit of
caching is a whole cell. A client adds the ids and embeddings of documents (only
the id and the cell are remembered), loads the cells around a vector (the server
fetches their documents from the database through an HTTP proxy), searches, and
evicts cells.

| part | source | state | operations |
|---|---|---|---|
| core engine | `src/core.h`, `src/core.cpp` | the faiss index (centroids, inverted lists of labels), `data_map` label -> record, `residence_statuses` per cell, `ids_by_cell`, `id_map` id -> label, `next_id` | `train`, `add`, `loadCellWithVec` / `loadCell`, `evictCellWithVec` / `evictCell`, `search` |
| database client | `src/db_client.cpp` | a url | `search`: one blocking POST per cell, any status but 200 is an `HttpException` |
| cache dispatcher | `src/cache.cpp`, `src/cache.h` | `status`: UNINITIALIZED, INITIALIZED, READY; the core | `processCommand`, `process_args`, `search`, `load`, ... |
| session | `src/session.cpp` | the socket, the input and output buffers | `read_command`, `read_args`, `read_dynamic_args`, `async_write`, `sync_write` |
| server, driver | `src/server.cpp`, `src/driver.cpp` | the vector of sessions | `do_accept`; one thread runs `io_context.run()` |
| arguments, records | `src/args.h`, `src/args.cpp`, `src/data.cpp` | - | the binary layouts of commands and records |
| Python client | `clients/python/periplus_client/` | one `Connection`: `connected`, `reader`, `writer` | one coroutine per call: `_connect`, `send`, `receive`, `close`; a `send` that fails connects and sends again |
| database proxy | `proxies/python/periplus_proxy/` | the user's fetch function | answers `{ids}` with records; outside the server |

How they interact. The server has one thread. A session reads a command line,
and the dispatcher checks there, against `status`, that the command is allowed;
it then asks the session to read the arguments, and runs the command in the
callback that has them. A command runs to completion before the thread serves any
other session: a LOAD blocks on one POST per cell. The application writes the
database on its own, before, between and after the commands.

What is hard about it:

- *stale state.* A cell is a copy of the database at the time of its LOAD, and
  the ids in it are those registered by then; the database and the registry go on.
- *partial failure.* A LOAD of n cells can fail at any of them.
- *repeated registration.* An id can be added twice, in one batch or two, in one
  cell or two; `id_map.insert` keeps the first label, `ids_by_cell` takes both.
- *shared keys.* The inverted lists, `data_map`, `id_map` and `ids_by_cell` name
  the same document by label or by id, and are updated by different commands.
- *asserts.* The build keeps them; one that fails ends the server.
- *between the command line and its arguments* other sessions run.
- *one output buffer per session* under writes that may have to wait.
- *parts.* A command reaches the server in as many pieces as the network likes.
- *hung-up clients* leave a session, and its socket, behind.
- *one connection, many coroutines.* Calls on one `Periplus` object interleave at
  every await; each may close, replace or read from the connection of another.
- *reconnection.* A failed `send` opens a new connection and sends again the fragment
  at hand, and not those before it; a lost reply leaves open whether the command ran.
- *exceptions* in the middle of a message or of a reply leave the connection open,
  with half of it in the stream.

What makes each part correct:

- core: index and data map agree; a document is cached under one cell, the one
  it lies in; a LOAD's promise of hits holds until an EVICT; the centroids do not
  move under data; a resident cell does not change; a SEARCH answers from the cells
  it probes; no assert fails for an application that keeps to the contract.
- dispatcher and session: a command runs only in a status that allows it; each
  command gets one reply, in order; a bad command does not end the server.
- server: every session is served (as long as there are sockets: a finished session
  keeps its own, see section 4).
- client: a reply answers the command it was read for.
- wire: what is written is what is read back, at every length.

## 2. The plan

Modules, in the order they were written.

1. `Core`: the engine, one action per command, LOAD one per cell.
2. `VectorCache`, `CoreRefinement`: what a cache of whole cells promises, and
   that `Core` implements it.
3. `CoreProofs`, `CoreRefinementProofs`.
4. `Server`: dispatcher, session and server, for several sessions over the same
   core, abstracted to the facts the dispatcher depends on (trained or not), with
   the abstract `SerialServer`, the mapping `ServerRefinement`, and the proofs in
   `ServerProofs` and `ServerContractProofs`.
5. `Client`: the Python client, its streams and a server that runs each whole
   command once, with connections that break and a server that ends and starts;
   the abstract `RemoteCalls`, the mapping `ClientRefinement`, the proofs in
   `ClientProofs` and `ClientContractProofs`.
6. `Wire`: one call byte for byte, from the message a method packs to the results it
   returns; the abstract `Exchange`, the mapping `WireRefinement`, the lemmas about the
   layouts in `WireFacts`, the proofs in `WireProofs`.

Left: faults in the middle of a call of `Wire` (`Client` has them between fragments), and
several of its calls on one connection.

## 3. The modules

### Core

State and code:

| variable | code |
|---|---|
| `quantizer` | the centroids of the trained index: for a vector, all cells, nearest first; `None` while `is_trained` is false or there is no core |
| `residence_statuses` | the member of the same name (`core.h`) |
| `ids_by_cell` | the member: the vector of a cell as a set of pushes, each with the value `next_id` had. The order of the vector is the order of the numbers |
| `id_map`, `next_id`, `data_map` | the members |
| `invlists` | `index->invlists`: the labels per cell |
| `load` | the arguments of the LOAD in progress and the position of its loop |
| `reply` | the reply to the last LOAD or SEARCH; the other commands answer a constant text |
| `db` | the database behind the proxy (external) |
| `promised` | history: the LOADs answered "Loaded cell" none of whose cells has been evicted since |
| `aborted` | an assert has ended the process |

Actions: `Initialize`, `Train`, `Add`, `Evict` and `Search` are one step each,
since nothing else runs on the thread meanwhile. A LOAD is `LoadBegin`, then per
cell `SkipCell`, `LoadCell` or `LoadHttpError`, then `LoadReply`: the POST of a cell
is the one point at which the world (the database) can move. `DbPut` and
`DbDelete` are the application's.

The proxy comes in the two forms the repository's proxy library allows, as the constant
`Proxy`: `"keyed"` looks every id up, and a missing one is an error (status
500); `"fetch"` answers one record per distinct id it has. Any cell may also meet
an error for other reasons (`LoadHttpError` has no condition on the database).

`Search` follows the code to the query offset: `IndexQuery` is
the vector at `&xq[i]` in the flat array, which is the i-th query only for i = 0 or
d = 1. Distances are abstracted: of the labels scanned, any k may be the
nearest, so what is checked is which cells an answer comes from and how many
records it has. A label -1 that faiss pads with is not in the answer.

`DisciplinedSpec` is the same system with an application that keeps the contract
(`Contract`): register an id once, store it before it is asked for, keep it
in the cell it was registered in, use ids of fewer than 100 characters.

### VectorCache and CoreRefinement

`VectorCache` is what the README of Periplus promises without labels, lists,
maps or a LOAD loop: a cell is absent or holds the documents that were registered in it,
that the database had when it was fetched, and that lay in it. `CoreRefinement`
maps `Core` to it: the division is the nearest centroid, a cell's documents are
what `data_map` has for its inverted list. SEARCH, failures and LOAD's bookkeeping are
stutters.

### MCCore

The instances: centroids are points, a quantizer ranks the cells by squared
distance, ties to the lower cell, as `IndexFlatL2` does.

### Server

State and code:

| variable | code |
|---|---|
| `status` | `Cache::status` |
| `core` | `Cache::core`: none, constructed, or trained; the rest of the engine is `Core`'s |
| `pc` | what the session's pending asynchronous operation is: `backlog` (connected, not accepted), `line`, `head`, `dynamic`; or `proxy`, `writing`: the thread is inside the session's LOAD or SEARCH; or `ended`: a read failed, nothing pends, the session stays in `sessions` |
| `sent`, `begun` | the commands on the connection, and how many lines `read_command` has taken |
| `output_buf` | the member: the command whose reply it holds |
| `writes` | `async_write`s the socket has not taken; they will send what `output_buf` holds then |
| `replies`, `taken` | what the socket has taken, and what the client has read of it: per reply, the command whose text was sent and the command that was answered |
| `gone`, `down` | the client has hung up; an exception has left `io_context.run()` |

Actions: `Accept`, `ReadLine`, `ReadHead`, `ReadDynamic`, `ReadError` and `Transmit`
are the handlers of the one thread, each run to its end. `ProxyAnswers` and
`SearchWrites` are the two points where the thread blocks in a handler; nothing
else runs meanwhile (`ThreadFree`). `Connect`, `Send`, `Receive` and `Hangup` are the
clients'.

What is in the input buffer counts in parts of a command: the line, the
`get_static_size()` bytes, the rest of the static arguments (ADD alone has one: its static
size leaves out 8 bytes that `deserialize_static` reads), the dynamic arguments.
`ReadLine(s, n)` finds `n` parts after the line. A command whose line alone has arrived
goes to `head` and reads exactly the static size, after which the handler copies `args`
through a reference to a parameter of a function that has returned: undefined, modelled as
going on or ending the process. An ADD with one part, or in `head`, fails in `read_arg`,
whose bare `throw` ends the process, as does a command the status does not allow. SEARCH,
LOAD, ADD and EVICT on a core that is not trained (another session's INITIALIZE came
between check and run) use the cell number -1 of an empty quantizer: they answer or end
the process.

A reply goes out at once when the socket takes it and no earlier write waits;
otherwise it waits, and is sent from what `output_buf` holds by then. SEARCH
writes synchronously, ahead of what waits.

`DisciplinedSpec` has clients and a network that keep the contract (`Coordinated`,
`WholeLine`): a client awaits each reply before its next command, sends what the status
allows, keeps INITIALIZE apart from everything else, and a command's static arguments
arrive with its line. The Python client and its tests behave so; nothing enforces it.

### SerialServer and ServerRefinement

`SerialServer` is a server that runs one whole command at a time in the order of
each session, each in a status that allows it, and answers each with its own
reply. `ServerRefinement` maps `Server` to it: a command takes effect when its reply
is handed over (LOAD and SEARCH when the thread is free again); a session that ended
has forgotten what was sent on it.

### MCServer

How many commands each connection may send in a run.

### Client

State and code:

| variable | code |
|---|---|
| `connected` | `Connection.connected` |
| `writer` | `Connection.reader` and `.writer`, which are assigned together: the number of their socket, or `None` |
| `link` | per socket, the state of the client's transport: `up`; `fin`: the server has ended; `stale`: written to after that; `reset`; `closed`: the client's end, the server still reads; `dead` |
| `inbox`, `outbox` | per socket: the fragments the server, the units the client has not read |
| `pc`, `mine` | per call: the await it is at, and the socket of the stream it awaits there |
| `frag` | the message of the call `send` is at: `add` sends 2n + 3, every other method one |
| `parse` | of a search: the queries, fields and units of the field at hand still to be read (the loops of `_deserialize_query_results` and `_deserialize_record`) |
| `got`, `outcome` | what the call has read, and returned or raised |
| `status`, `owed` | the server: `Cache::status`, and the queries of the SEARCH it is answering |
| `ran`, `answered`, `clean` | history |

A coroutine runs from one await to the next in one action, with all it changes on the way.
`Start` and `Opened` are `_connect` and what follows it up to the first write (`Begin`:
`add` compares its lists first, every method encodes what it sends); `Drained` is a
`drain()` that returns, with the next `send` or the first `receive`; `Reclose`,
`Opened` and `RedrainFails` are `Connection.send`'s second attempt; `WaitClosed` is the
end of `close`, in a call or in that attempt; `ReadText` is the `receive` of the five
methods that expect a text, with the `close` after it, `ReadRecords` those of a search.
An exception leaves the object as it is at that point: `Return` writes nothing else.

What is outside, from how the client uses it: `open_connection` fails or succeeds; a
`StreamReader` takes one waiting coroutine (`Contended`) and raises, once its connection
was reset, whatever it holds; `write` never raises, `drain` does; `wait_closed` raises the
connection's exception; a writer without a reference may be closed (`Collect`). The server
is `SerialServer` with its two ways to fail: it ends on a line that is no command or is
not allowed (`Reject`), and takes other bytes where a command's should follow for
arguments (`RunGarbled`), which ends it or gets them answered. `Crash`, `Restart` and
`Cut` are the world's.

Data. Bytes are counted four at a time: a count is one unit, a length two, of which
the second is 0, what a field holds is one. `Numbers` says what a number reads
when its bytes are not those of one number: 0 or 1 (`Garbage`). A confirmation is one
unit and arrives whole (`Wire` cuts it). Two exceptions of the
same place are one: `ConnectionResetError` stands for `BrokenPipeError` too. A
coroutine waiting for data of a link that is up reads when there is some, and takes it
before another one can ask for it.

`ContractSpec` is the same system under a program that awaits each call before the next
and whose ids are Latin-1 (`connection.py:49` encodes every message so), on a network that
does not cut a number in two (`ReadWhole`). None of the three is enforced or documented;
without the first, `ConfirmedByOne` and `AtMostOnce` are what is left, and without the
last, `client_short_read` shows what happens.

### RemoteCalls and ClientRefinement

`RemoteCalls` is what a program may rely on: one call at a time is in progress; a command takes
effect at most once, and has when its call returns; one whose call
failed took effect, did not, or does later, after calls that follow it.
`ClientRefinement` maps `Client` to it: the state of a call is read off `pc` and
`outcome`, its effect off `ran`. Everything else, reconnections included, is a stutter.

### Wire

One call of one method. `initialize` ... `evict` are the messages the methods pack;
`static_size`, `Members` and `DynamicArgs` (with `AddData` for the ids and embeddings of an ADD)
what the `Args` structs take them for;
`serialize` and `Pieces` the reply to a SEARCH. A byte is known by its item, the item's
value and its place in it, so a number read from bytes of two items is `"garbage"`. A
command line counts as one byte, as `async_read_until` reads it whole.

The actions are the handlers of the session (`ReadLine`, `ReadStatic`, `ReadDynamic`),
each with what it calls up to its next read or write, the writes of the reply, one each
(`WriteText`, `WriteSearch`), and the client's reads. How many bytes have arrived is
open at every read: `ReadLine(more)` finds any number of bytes after the line, and
`receive(n)` may return any part of what was sent.

`ReadStatic` is the handler in which `session.cpp:54` copies `args` through a reference to a
parameter of a function that has returned, as in `Server!ReadHead`: it goes on or ends the
process, for any command whose static arguments come after its line. `ReadLine` and
`ReadDynamic` do not use the reference: the one runs while the parameter is there, the handler
of the other captures it and makes no use of it. The process ends as well where
`deserialize_static` lacks bytes (`Terminate`), which only an ADD can meet.

### Exchange and WireRefinement

`Exchange` is one call without bytes: the server runs the command as it was meant, once;
then the call returns what the server found, or raises; the server may end instead, before it
has run the command. `WireRefinement` maps `Wire` to it: a command is served when its handler
has its arguments (if they are other than meant, or bytes of the command are left, it is
`"misread"`, which `Exchange` has no step to); what a call returns is what `results` is when
it returns. Every read that does not complete the command, every write and every read of a
part of the reply is a stutter.

### MCClient, MCWire

The programs of calls, and the methods, options and records of the instances.

## 4. The runs

| run | specification | shows |
|---|---|---|
| `core_spec` | `Core!Spec`, keyed proxy | types; index and data map agree; what is listed in a cell belongs there; labels are those of the first ADD; LOAD's promise; resident cells are frozen; `Core` implements `VectorCache` |
| `core_search` | `Core!Spec`, d = 2, fetch proxy | TRAIN cannot move the centroids of a cache that is not empty; a SEARCH of one query answers a hit exactly from the cells it probes |
| `core_contract` | `Core!DisciplinedSpec` | under the contract no assert fails, and a resident cell holds every id registered in it when it was loaded |
| `core_many_queries` | `Core!Spec`, d = 2 | *violated:* every hit of a SEARCH answers its own query |
| `core_add_after_load` | `Core!DisciplinedSpec` | *violated:* a LOAD answered "Loaded cell" leaves all that was added to its cells searchable |
| `server_spec` | `Server!Spec` | types; the status describes the core; each command is answered once, for any interleaving, pipelining and hang-up |
| `server_contract` | `Server!FairSpec` | under the contract the server stays up, the replies match, it implements `SerialServer`, and every client that waits is served or hangs up |
| `server_overtaken` | `Server!Spec` | *violated:* a command runs in a status that allows it |
| `client_spec` | `Client!Spec` | types; with two calls at once on one object, an id that cannot be encoded and a fault, no command runs twice and every call that returns True has a confirmation of its command to itself |
| `client_contract` | `Client!FairSpec` | under the contract the object stays usable, the server reads whole commands, a call returns its own reply, a call without a fault succeeds, every call ends, and the client implements `RemoteCalls` |
| `client_short_read` | `Client!SequentialSpec` | *violated:* a call returns what was sent in reply to it |
| `wire` | `Wire!FairSpec` | every message is read as what was meant, nothing is left over, and the process ends only where static arguments were cut from their line; replies are written within the buffer and read back whole; every exchange ends; `Wire` implements `Exchange` |

Bounds and why they are enough.

- Two cells: a LOAD or EVICT of one and of both, a cell skipped and one fetched in the
  same LOAD, a document whose registered cell is not the one it lies in.
- Two ids, `MaxLabel` 2 (three pushes): an id added twice in one batch, in two
  batches, in two cells; a label that differs from the number of the latest push; a
  second id with a later label. `MaxLabel` is a bound of the model, in the guard
  of `Add`; the code's counter is 63 bits wide.
- Coordinates 0 and 2 in one dimension: a point in each cell, so the database can
  move a document from one to the other. The contract runs add the coordinate 1, the
  tie. `core_search` has four points of the plane and two trainings with the cells
  swapped, so a second TRAIN would be seen.
- The searches cover k below and at the number of records, nprobe 1 and 2, with
  and without `require_all`.

- Server runs: two sessions, `a` with up to three commands (INITIALIZE, TRAIN and one
  that needs a core), `b` with one or two that fall between any two steps of `a`. The
  bounds `MaxCommands` are those of the model's clients. `SndBuf` 1: the
  second unread reply has to wait, and with three commands a waiting write is
  overtaken or overwritten.
- `MaxOpen` 2, one socket per connection. `TcpServer::sessions` never shrinks, so a
  server that has made `MaxOpen` sessions accepts no more, whatever has ended; `Served` is
  claimed for as many connections as the process has sockets, counted from its start.
- Client runs: a program chooses its calls, in any order, from five. `client_spec` has two
  ADDs, of which one cannot be encoded at its second fragment, two LOADs and a SEARCH: two
  calls of one command can swap confirmations, a call can meet another's half command and
  another's records. `MaxCalls` 2 lets every two of them overlap at every await, with one
  fault. `client_contract` has `MaxCalls` 3: one call whose connection is lost, one that
  finds what is left of it, one after. An ADD of one document is five fragments, so a
  connection can be lost before, between and after those that matter; a SEARCH of two
  queries and one of one, each a miss or with up to `MaxHits` 1 records, so that a count
  follows records and a miss. `MaxFaults` 1 is one refusal, cut or crash, anywhere; two
  are not checked, but `RunsAtMostOnce` holds for any number. `MaxSockets` 4 is more than
  the three calls can open: otherwise one would wait for ever, and `CallsEnd` fail.
- `wire`: `MaxLength` 19 in place of 1024 and `MaxRead` 2 in place of 2048. What matters
  is a record one byte shorter than two chunks, equal and longer, and one of more than
  two, and that a count and the lengths are shorter than a chunk: lengths alone take 32
  bytes of a record, so 19 is about the smallest. Bodies are longer than one read.

Deadlock. In `Core` and `Server` under `Spec` the process can end, and nothing
follows; in `server_contract` the clients may stop sending; the programs of the
client's runs, and the one call of `wire`, come to an end: those runs do not check
deadlock. `core_contract` does: under the contract no state of the engine is without
a next step.

Fairness. The runs of `Core` assume none. `FairSpec` assumes, per session, strong
fairness of the thread's steps: asio runs the handlers that are ready in
turn, so one that is ready again and again runs, although the thread, busy with others, keeps
disabling it; it includes that the proxy answers (the code sets no time limit: a
proxy that does not answer stops the server). It assumes weak fairness of
`Receive`: a client reads its reply or hangs up. A client that does neither blocks the
server for good in `SearchWrites` (`Session::sync_write`), as the model shows without that
assumption. Sending, connecting and hanging up are under no fairness.

`Client!FairSpec` assumes weak fairness of each coroutine's next step, which the event
loop gives: a future that is done stays done, and its coroutine is resumed. It assumes the
same of the server on each socket. A server that is down need not come back, and nothing
goes wrong fairly. `CallsEnd` rests on `Reject` and `RunGarbled` too: a reader is woken by
a reply or by the end of its connection. A program whose bytes the server takes for the
beginning of a command can wait for ever, which the contract excludes. `Wire!FairSpec` is
weak fairness of the session and of the client.

## 5. Where code and documents disagree

- `core.cpp:139` passes `&xq[i]`, not `&xq[i * d]`: from the second query on, a
  SEARCH of d > 1 answers a vector that straddles two queries (run
  `core_many_queries`; `core_search` shows that single queries are right).
- `core.cpp:58` skips resident cells: what is added to a cell after its LOAD stays
  invisible, even to a new LOAD that is answered "Loaded cell", until the cell is
  evicted (run `core_add_after_load`). The data a resident cell has is frozen
  (`ResidentCellsFrozen`), which is the other side of it.
- `session.cpp:76` runs a command whose status was checked when its line was read;
  its arguments may come later, and an INITIALIZE of another session in between.
  `cache.cpp:16` takes the check for the decision (run `server_overtaken`).
- `client.py:306` unpacks what one `receive(8)` returned, which may be fewer bytes. The
  exception leaves the connection open with the rest of the reply in it, and the next
  search on the object takes the rest of a length, 0, for its count: it returns an empty
  list for a query that had hits (run `client_short_read`; `OwnReply` holds when numbers
  arrive whole).

What the models show besides, in states the runs above reach or exclude by their
contract:

- `core.cpp:94` asserts that the proxy answers a record per id. A document registered
  and not stored ends the server, where the client's documents promise a
  `PeriplusServerError` (`NoAbort` holds under the contract, which is what it takes).
- `args.h:158` gives ADD a static size of 9 where `deserialize_static` reads 17 bytes;
  `session.cpp:41` takes the static size for enough. An ADD that is cut within its static
  arguments ends the server.
- `session.cpp:49` captures the parameter `args` by reference in a handler that runs after
  `read_args` has returned, and `session.cpp:54` copies it there: any command whose static
  arguments do not arrive with its line may end the server (`Wire!OnlySplitHeadEnds` shows that
  there are no other cuts that do, which is why the contract of `Server` asks for `WholeLine`
  and for no more).
- `session.cpp:117` writes asynchronously from the one `output_buf`. For a client that
  pipelines (`cache.cpp:89`: "Allow for multiple commands in a single session") a reply
  may carry the text of a later one, or arrive after it: `RepliesMatch` is a property of
  the contract only.
- `connection.py:51` closes the connection before it opens a new one, and `close` awaits
  `wait_closed`, which raises the exception of a connection the peer has reset: after a reset
  the second attempt is not made. It is made when another coroutine has closed the
  connection.
- `connection.py:68` drops reader and writer after that await, whatever they are by then.
  If another coroutine has opened a connection meanwhile, `connected` stays True without a
  writer, and every later call on the object raises `ConnectionError` (`Usable` holds for
  calls that are awaited).
- A connection lost between a command and its reply raises `ConnectionResetError`, a
  short number `struct.error`, an id outside Latin-1 `UnicodeEncodeError`: none is a
  `PeriplusError` (`Outcomes`).
- The client packs one length for all embeddings of `add`, that of the first
  (`client.py:175`), where `train` asserts that they agree; `UniformAssumption` is what
  `ArgsReadBack` needs. `README.md:99` names the option of `initialize` `nTotal`, the client
  reads `n_records`.

## 6. What is proved

For every set of ids, dimension, number of cells, quantizers and commands that
satisfy the assumptions of `Core` (the sizes are natural numbers, the first two
positive; a quantizer ranks all cells; `None` is none of the values it stands
next to; commands are well-formed), and for both proxies. The database is assumed
nothing about, but that it is finite.

| theorem | statement |
|---|---|
| `TypeCorrect` | `Spec => []TypeOK` |
| `IndexAgrees` | `Spec => []IndexMatchesDataMap` |
| `ListedBelongs` | `Spec => []ListedDataBelongs` |
| `LabelsUnique` | `Spec => []LabelIsFirstPush` |
| `LoadKeepsPromise` | `Spec => []LoadPromise` |
| `CentroidsNeverMove` | `Spec => CentroidsFixed` |
| `ResidentCellsKeepData` | `Spec => ResidentCellsFrozen` |
| `SearchIsExact` | `Spec => SingleQueryExact` |
| `DisciplinedNeverAborts` | `DisciplinedSpec => []NoAbort` |
| `LoadedCellsAreComplete` | `DisciplinedSpec => []SnapshotComplete` |
| `CoreImplementsVectorCache` | `Spec => ImplementsVectorCache` |
| `ServerTypeCorrect` | `Server!Spec => []TypeOK` |
| `StatusDescribesCore` | `Server!Spec => []StatusOfCore` |
| `EachAnsweredOnce` | `Server!Spec => []AnsweredOnce` |
| `ContractStaysUp` | `Server!DisciplinedSpec => []StaysUp` |
| `ContractRepliesMatch` | `Server!DisciplinedSpec => []RepliesMatch` |
| `ServerImplementsSerialServer` | `Server!DisciplinedSpec => ImplementsSerialServer` |
| `ClientTypeCorrect` | `Client!Spec => []TypeOK` |
| `RunsAtMostOnce` | `Client!Spec => []AtMostOnce` |
| `ConfirmationsAreOwn` | `Client!Spec => []ConfirmedByOne` |
| `ConnectionUsable` | `Client!ContractSpec => []Usable` |
| `CommandsAreWhole` | `Client!ContractSpec => []WholeCommands` |
| `RepliesAreOwn` | `Client!ContractSpec => []OwnReply` |
| `CleanCallsReturn` | `Client!ContractSpec => []CleanCallsSucceed` |
| `ClientImplementsRemoteCalls` | `SearchesAsk` implies `Client!ContractSpec => ImplementsRemoteCalls` |
| `WireProofs!TypeCorrect` | `Wire!Spec => []TypeOK` |
| `ArgumentsReadBack` | `Wire!Spec => []ArgsReadBack` |
| `OnlySplitHeadTerminates` | `Wire!Spec => OnlySplitHeadEnds` |
| `WritesFitTheBuffer` | `Wire!Spec => []WritesFit` |
| `ResultsReadBackWhole` | `Wire!Spec => []ResultsReadBack` |
| `WireImplementsExchange` | `Wire!Spec => ImplementsExchange` |

Those of `Server` hold for any set of sessions and any bounds (natural numbers, `SndBuf`
positive). Those of `Client` hold for any set of calls, any numbers of documents and
queries (an ADD has a document), any calls with wrong or unencodable arguments, any
bounds, and any interleaving of the calls. Those of `Wire` hold for any calls, whose ids,
URLs, embeddings and options have any lengths and values (`CallsAssumption`; the embeddings
of one call have one length and there is one, `UniformAssumption`), any number of records of
any lengths (`FoundAssumption`: a miss has no records), any reads and cuts, and any
output buffer that holds the text of a reply (`SizesAssumption`).

The argument for `Core`. None of the properties is inductive alone. `IInv` (`CoreProofs`)
is their conjunction with three more facts: `UntrainedEmpty` (without a quantizer nothing
is registered or loaded, so a TRAIN places no data anew), `LoadedSoFar` (the cells a
LOAD in progress has passed are resident: an EVICT cannot run meanwhile, which is
what the reply turns into a promise), and `VectorsFinite` (the vectors of ids are
finite, so `residence_statuses` becomes a number and not -1). The
heart of it is `LoadCell`: the data placed in a cell has the label of its id, the
asserts have checked that the label has no data, and `LabelIsFirstPush` says that
no other id has that label; so the list gains labels that no other list has, each with
data of its own. EVICT then erases from `data_map` the labels of its lists and
no other list's. The action properties follow from `IInv` on the two ends of a step.
`NoAbort` under the contract splits on the three asserts of `loadCell` and the one of
`search`: a registered id has a record (`Stored`), is registered once (`UniqueIds`), and
has no data yet since its cell is not resident (`ListedDataBelongs`).
`SnapshotComplete` needs one fact more, that `residence_statuses[c]` is at most the
number of ids registered in the cell (`SnapshotInv`). A LOAD makes it that number, so the
snapshot is the whole vector and what is placed in the list is one record per element of it; an
ADD afterwards pushes elements numbered `next_id` and up, which have the whole of the old
vector before them and so are in no snapshot (`SameSnapshot`).
`SingleQueryExact` holds for one query because the offset of the first query is 0
whatever d is (`FirstQueryIsIndexed`), and because the cells' lists are disjoint and
their labels have distinct data, so that k labels are k records.

The argument for `Server`. `IInv` (`ServerProofs`) is types, `StatusOfCore` and, per
session, `SessionOK`: no more lines taken than sent, a session that reads arguments or
runs has taken one, a waiting write has filled `output_buf` (so what it will send
is a reply), a session ended since its client had gone, and the count of
`AnsweredOnce`. Every step is on one session, so one lemma (`OneSession`)
reduces each action to that session's part; `ReplyOnce` and `ExecuteOnce` say what
a command adds to it: nothing, or one reply.

Under the contract of `Server` that is not enough: `RepliesMatch` needs to know that
no reply ever has to wait. `DInv` (`ServerContractProofs`) adds, per session, `Steady`:
no write waits, no session is in `head`, and `sent - 1 <= taken <= replies <= run`, so that a
session with something outstanding has one command of it, the last sent, and
room in its socket; `Orderly`: the status allows that command *still*; `Matching`; and
over all sessions `Exclusive`: an INITIALIZE is outstanding alone. The last two carry each
other: only an INITIALIZE takes permissions away, and when it runs no other
session has anything to lose. For the refinement `StepKinds` sorts the steps by what
a client sees: a command takes effect (`Serves`), is issued, is lost with a client
that left, or nothing (`Idles`); what is pending of a session is one command or
none.

The argument for `Client`. `TypeOK` is inductive with `Reading`: a call that waits for
data has a socket, and a search has something left to read. Without it `ReadRecords` could
count its queries below zero. `AtMostOnce` follows from `Once`: the last fragment of a
call's message is in at most one place of one inbox; while it is there the call has not
run, and once it is there, or the call has run, the call only reads, closes, or is over
(`After`), where no `send` is left. `Drained` alone hands fragments over, and a fragment
that was handed over is never sent again, since the second attempt starts from a `drain`
that has raised. The server's and the network's steps only take fragments from the front
of inboxes (`Shrinks`), and the one that runs a command takes its last fragment (`Runs`).
`ConfirmedByOne` follows from `Receipts`: a text in an outbox was put there by a call
that has run and is there once (`Fresh`, `Texts`), and one that a call has in its hands is
in no outbox and in no other hands (`Asking`, `Returned`).

Under the contract of `Client` (one call at a time, reads that give all they
are asked for) more holds, and the invariant has layers. `Connection`: `Program`, one call at a time
is in progress, and its ids can be sent; `Joined`, the connection taken for open has the only
socket that may be open; `Standing`, the call in progress is on that socket at each of its
awaits, and never opens a second: `send` fails on a reset only, and then its `close` raises.
`Usable` is a part of it. `Exchange` adds what is on the connections:
`Settled`, an end that the server has closed has been read or lost; `Resting`, a connection
that the next call may use has nothing on it; `Inboxes`, an inbox has the fragments 1 to n
of one call, on the connection of that call if it is busy; and per call
`Progress`, which says at each await how far the call is: what it has read and what is owed
or sent to it make up the reply to it and nothing else. From these `WholeCommands` and
`OwnReply` follow. For searches the rest of a reply is described from its end, by what the parser
expects next (`Unread`), so that no induction over the records is needed: a read takes one
unit from the front and the parser one from its count. `Smooth` is the last layer: for a
call that no fault has touched, the status of the server still allows its command
until it has run, and nothing that an earlier call left on another connection can run
before it, which would change that status.

`ClientImplementsRemoteCalls` goes by the kinds of steps: a call of the program begins
(issued), the server runs a command (takes effect), a call ends (returns, which requires that
its command has run, by `Exchange`), and all else is a stutter. Its hypothesis `SearchesAsk`, that
every SEARCH has a query, is needed: `search([], ...)` sends its command and
returns `[]` without reading, so that it can return before the server has run the command, or
when the server never will. The run `client_contract` has searches of one query and more.

The argument for `Wire` has two parts. `WireFacts` says what the layouts are, for data of
every length: `Lies(b, s, off)` places the bytes of an item in a message, `ValueLies` reads
it back from there, and `CommandsUnderstood` puts together that what each method packs has
its static arguments, its delimiters and its data where the `Args` structs look for them.
The sums and joined sequences in it are recursive functions, and the inductions over them
(`FlattenByJoins`, `SumBySums`, `IdOffsetsFound`) come from the theorems on finite sets: a
set of numbers with 0 and the successor of each of its elements is `Nat` (`SetInduction`).

`WireProofs` has the three invariants. `Received`: what the session has in its input stream
and what is on the wire are, at each of its reads, the rest of the message; a read of
the bytes that are missing takes those and no more (`TakeMore`), so the handler has what
`CommandsUnderstood` speaks of. The process ends in the handler of a line only where
`static_size` is less than `StaticLength`, which is so for ADD alone, and otherwise where the
session has waited for static arguments (`EndsAtSplitHead`). `Written`: the piece at hand has bytes left,
and none is empty, so no step of the loop writes more than the buffer, or nothing at the end.
`Reading`: what is sent and not read, followed by what is not written yet, is the rest of the body
the client is reading and the bytes of the records and queries after it; and the results so far,
followed by what those bytes stand for, are `ReadBack` (`Between`). `ToRead` says where in the
reply the counters of `parse` put the client; a field is its length and its
content (`FieldLeft`), and after four of them there is the next record or the next query. A
write moves bytes from one side of that equation to the other (`BetweenWrite`), a read
takes the first of them (`TakeFirst`). So `parse` is the zero of all counters only when no
byte and no result is left (`BetweenEnd`).

`WireImplementsExchange` needs no invariant of its own: `Mapped` says what `Exchange` sees of a
state in which the arguments were read back. The read that completes a command is the step
that serves it (`TakenExchange`; what it finds is one of `AnswersTo`, by `Written`), and the
client's end of a call returns or raises (`CallExchange`, where `Reading` gives the results). A
call cannot end before: bytes are sent only by a handler (`SentServed`), and a search has a query
to read until then (`SearchServed`). The rest is hidden (`ReplyHidden`).

Only model-checked: `Served`, `CallsEnd` and `ExchangeEnds`, as liveness properties under
fairness are. The four properties that runs find violated are about states the code reaches.

## 7. What is not modelled, and why

- Distances, product quantization, and the vectors themselves inside faiss: which of
  the scanned records are nearest is left open. The index is external: a list of
  labels per cell.
- The document and metadata of a record: carried along with the id and the
  embedding, never looked at.
- `nprobe`, `nload` or `nevict` above the number of cells: faiss pads with -1 and the
  code then reads `residence_statuses[-1]`, undefined behaviour with no
  useful set of outcomes. The model's commands ask for 1 to `NCells` cells.
- The overflow of `next_id` after 2^63 pushes.
- Answers of status 200 whose body is not what the proxy library produces, and training
  with fewer vectors than faiss accepts.
- In `Server`, what a command does to the engine, and in `Core`, how commands reach
  it: `Core` lets a command run only when the status would allow it, and an
  untrained core under another session's command is `Server`'s.
- The size of a reply or of a socket's buffer in bytes: a reply is taken whole or
  waits whole.
- Command lines that name no command: they end the process as forbidden ones do.
- In `Client`, the bytes of messages and of texts, which are `Wire`'s; a fault in the
  middle of a fragment (a part of the next command's bytes is a part of its fragments);
  names that do not resolve, time-outs of TCP and cancelled coroutines: the code sets no
  time limit and handles no cancellation.
- In `Wire`, other sessions, faults, and embeddings of unequal length.
- The JSON between the server and the proxy: the records of an answer are taken as the
  proxy's. A coordinate that is not a float is skipped (`db_client.cpp:95`), which the
  proxies of the library cannot send. The Pinecone example fetches more than 100 ids in
  batches; `Core` takes an answer from one instant.
- The examples, benchmarks, tests and setup scripts of the repository: they call the client
  and keep no state of the system.
