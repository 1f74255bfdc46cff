-------------------------------- MODULE Client --------------------------------
(***************************************************************************)
(* The Python client of Periplus: one Periplus object (client.py) over one *)
(* Connection (connection.py), used by coroutines, each a call of a        *)
(* method, that interleave where they await.                               *)
(*                                                                         *)
(* Outside of it are asyncio's streams, the network, and a server that     *)
(* answers the whole commands of a connection in order, once each, and     *)
(* ends on what is no command.  Connections are cut, the server ends and   *)
(* is started again, at most MaxFaults times.                              *)
(*                                                                         *)
(* Bytes are counted in units of four: a hit count is one unit, the length *)
(* of a field two (the high one is 0), its contents one.  A confirmation   *)
(* is one unit, and arrives whole.                                         *)
(***************************************************************************)
EXTENDS Integers, Sequences, FiniteSets

CONSTANTS
    Calls,      \* the calls of methods a program may make
    Op,         \* per call: its command
    Docs,       \* per call of add: the number of its ids
    Queries,    \* per call of search: the number of its queries
    Mismatched, \* the calls of add with fewer embeddings than ids, or more
    Unsendable, \* per call: the fragment with a character that is not Latin-1, or 0
    MaxCalls,   \* bound: the calls a program makes
    MaxHits,    \* bound: the records a query finds
    MaxSockets, \* bound: the connections opened
    MaxFaults   \* bound: the times the network or the server fails

Commands == {"INITIALIZE", "TRAIN", "ADD", "LOAD", "SEARCH", "EVICT"}

ASSUME CallsAssumption ==
    /\ Op \in [Calls -> Commands]
    /\ Docs \in [Calls -> Nat]
    /\ Queries \in [Calls -> Nat]
    /\ Mismatched \subseteq Calls
    /\ Unsendable \in [Calls -> Nat]
    /\ \A c \in Calls : Op[c] = "ADD" => Docs[c] > 0
    /\ {MaxCalls, MaxHits, MaxSockets, MaxFaults} \subseteq Nat

VARIABLES
    connected, \* Connection.connected
    writer,    \* Connection.reader and .writer: their socket, 0 for None
    opened,    \* the sockets opened so far
    link,      \* per socket: how the client's end stands
    inbox,     \* per socket: the fragments the server has not read
    outbox,    \* per socket: the units the client has not read
    pc,        \* per call: where it awaits
    mine,      \* per call: the socket it awaits something of
    frag,      \* per call: the fragment it sends
    parse,     \* per call: what a search still has to read
    got,       \* per call: the units it has read
    outcome,   \* per call: what it returned or raised
    status,    \* the server's, or "DOWN"
    owed,      \* per socket: the queries of a SEARCH not answered yet
    ran,       \* history: how often the command of a call has run
    answered,  \* history: the units written for a call
    clean,     \* history: the calls that open a connection of their own and meet no fault
    faults     \* the faults so far

conn == <<connected, writer, opened>>
net == <<link, inbox, outbox>>
call == <<pc, mine, frag, parse, got, outcome>>
server == <<status, owed, ran, answered>>
vars == <<conn, net, call, server, clean, faults>>

Sockets == 1 .. MaxSockets
None == 0

Fields == 4          \* Record: id, embedding, document, metadata
Embedding == 2       \* the fields after it: it is no string
Garbage == {0, 1}    \* what bytes that are no number may count

(* add sends its line, each id, a delimiter, each embedding and the end;    *)
(* the other methods send one message.                                      *)
Fragments(c) == IF Op[c] = "ADD" THEN 2 * Docs[c] + 3 ELSE 1
Fragment == [call : Calls, n : Nat]

(* What a call returned, or raised: of error.py, and of Python itself. *)
Outcomes == {"none", "ok", "PeriplusServerError", "PeriplusConnectionError", "ConnectionError",
             "ConnectionResetError", "UnicodeEncodeError", "UnicodeDecodeError", "struct.error",
             "RuntimeError", "AssertionError"}

Parts == {"count", "low", "high", "body", "text"}
Unit == {u \in [of : Calls, part : Parts, n : Int, at : Nat] : u.part # "count" => u.n \in Nat}
NoParse == [queries |-> 0, fields |-> 0, need |-> 0]

Init ==
    /\ connected = FALSE
    /\ writer = None
    /\ opened = 0
    /\ link = [s \in Sockets |-> "new"]
    /\ inbox = [s \in Sockets |-> <<>>]
    /\ outbox = [s \in Sockets |-> <<>>]
    /\ pc = [c \in Calls |-> "idle"]
    /\ mine = [c \in Calls |-> None]
    /\ frag = [c \in Calls |-> 0]
    /\ parse = [c \in Calls |-> NoParse]
    /\ got = [c \in Calls |-> <<>>]
    /\ outcome = [c \in Calls |-> "none"]
    /\ status \in {"UNINITIALIZED", "READY"}
    /\ owed = [s \in Sockets |-> <<>>]
    /\ ran = [c \in Calls |-> 0]
    /\ answered = [c \in Calls |-> 0]
    /\ clean = {}
    /\ faults = 0

-----------------------------------------------------------------------------
(* What a coroutine does up to its next await *)

Await(c, place, s) ==
    /\ pc' = [pc EXCEPT ![c] = place]
    /\ mine' = [mine EXCEPT ![c] = s]
    /\ UNCHANGED outcome

Return(c, result) ==
    /\ pc' = [pc EXCEPT ![c] = "done"]
    /\ mine' = [mine EXCEPT ![c] = None]
    /\ outcome' = [outcome EXCEPT ![c] = result]

(* The client's end closes: the server's goes on, or has gone already.  A   *)
(* connection that the peer has reset keeps its exception.                  *)
Shut(l) == IF l = "up" THEN "closed" ELSE IF l = "reset" THEN "reset" ELSE "dead"

(* A write to socket s, with the links as in lk.  It is under way until     *)
(* drain() returns.  After the peer's FIN the first write is accepted, and  *)
(* answered by a RST.                                                       *)
write(c, i, s, lk, place) ==
    /\ frag' = [frag EXCEPT ![c] = i]
    /\ \/ /\ lk[s] \in {"up", "fin", "stale"}
          /\ link' = [lk EXCEPT ![s] = IF @ = "up" THEN "up" ELSE "stale"]
          /\ Await(c, place, s)
       \/ /\ lk[s] \in {"stale", "reset", "closed", "dead"}
          /\ link' = [lk EXCEPT ![s] = IF @ = "stale" THEN "reset" ELSE @]
          /\ Await(c, "broken", s)

send(c, i, s, lk) ==
    \/ /\ s = None
       /\ Return(c, "ConnectionError")
       /\ link' = lk
       /\ UNCHANGED frag
    \/ /\ s # None
       /\ Unsendable[c] = i
       /\ Return(c, "UnicodeEncodeError")
       /\ link' = lk
       /\ UNCHANGED frag
    \/ /\ s # None
       /\ Unsendable[c] # i
       /\ write(c, i, s, lk, "draining")

(* After _connect: add compares its lists, all send their first message.    *)
Begin(c, s, lk) ==
    \/ /\ c \in Mismatched
       /\ Return(c, "AssertionError")
       /\ link' = lk
       /\ UNCHANGED frag
    \/ /\ c \notin Mismatched
       /\ send(c, 1, s, lk)

(* Another coroutine waits for data of the same reader. *)
Contended(c) == \E d \in Calls \ {c} : pc[d] = "reading" /\ mine[d] = writer

(* A reader takes one coroutine that waits. *)
receive(c) ==
    \/ /\ writer = None
       /\ Return(c, "ConnectionError")
    \/ /\ writer # None
       /\ Contended(c) /\ link[writer] = "up"
       /\ Return(c, "RuntimeError")
    \/ /\ writer # None
       /\ ~(Contended(c) /\ link[writer] = "up" /\ outbox[writer] = <<>>)
       /\ Await(c, "reading", writer)

(* Mutants of Confirms: any text will do; a text that is never sent. *)
ConfirmsAny(c, u) == u.part = "text"
ConfirmsNoAdd(c, u) == u.part = "text" /\ Op[u.of] = Op[c] /\ u.n = 1 /\ Op[c] # "ADD"

(* The text of the reply is compared with the one for the command. *)
Confirms(c, u) == u.part = "text" /\ Op[u.of] = Op[c] /\ u.n = 1

(* Mutant of Results: the reply is not looked at. *)
ResultsUnchecked(c, units) == {"ok"}

(* What a call returns or raises, having closed its connection. *)
Results(c, units) ==
    IF Op[c] = "SEARCH" \/ (Len(units) = 1 /\ Confirms(c, units[1])) THEN {"ok"}
    ELSE {"PeriplusServerError"} \cup
         (IF \E i \in DOMAIN units : units[i].part # "text" THEN {"UnicodeDecodeError"} ELSE {})

(* Mutant of close: connected is not reset. *)
closeKeepsFlag(c, units) ==
    /\ UNCHANGED connected
    /\ \/ /\ writer = None
          /\ \E r \in Results(c, units) : Return(c, r)
          /\ UNCHANGED link
       \/ /\ writer # None
          /\ link' = [link EXCEPT ![writer] = Shut(@)]
          /\ Await(c, "closing", writer)

(* close(), up to wait_closed(); without a writer there is nothing to wait  *)
(* for, and the call ends.                                                  *)
close(c, units) ==
    /\ connected' = FALSE
    /\ \/ /\ writer = None
          /\ \E r \in Results(c, units) : Return(c, r)
          /\ UNCHANGED link
       \/ /\ writer # None
          /\ link' = [link EXCEPT ![writer] = Shut(@)]
          /\ Await(c, "closing", writer)

-----------------------------------------------------------------------------
(* The steps of a call, one per await *)

Allowed ==
    [DOWN          |-> {},
     UNINITIALIZED |-> {"INITIALIZE"},
     INITIALIZED   |-> {"INITIALIZE", "TRAIN"},
     READY         |-> Commands]

(* _connect opens a connection if the last was closed. *)
Start(c) ==
    /\ pc[c] = "idle"
    /\ Cardinality({d \in Calls : pc[d] # "idle"}) < MaxCalls
    /\ parse' = [parse EXCEPT ![c].queries = Queries[c]]
    /\ clean' = IF /\ ~connected
                   /\ Op[c] \in Allowed[status]
                   /\ \A s \in Sockets : inbox[s] = <<>>
                THEN clean \cup {c} ELSE clean
    /\ \/ connected /\ Begin(c, writer, link)
       \/ ~connected /\ Await(c, "connecting", None) /\ UNCHANGED <<link, frag>>
    /\ UNCHANGED <<conn, inbox, outbox, got, server, faults>>

(* open_connection() succeeds: for _connect, or to send a fragment again.   *)
Opened(c) ==
    /\ pc[c] \in {"connecting", "reopening"}
    /\ status # "DOWN"
    /\ opened < MaxSockets
    /\ opened' = opened + 1
    /\ writer' = opened + 1
    /\ connected' = TRUE
    /\ LET lk == [link EXCEPT ![opened + 1] = "up"]
       IN  \/ pc[c] = "connecting" /\ Begin(c, opened + 1, lk)
           \/ pc[c] = "reopening" /\ write(c, frag[c], opened + 1, lk, "redraining")
    /\ UNCHANGED <<inbox, outbox, parse, got, server, clean, faults>>

(* open_connection() fails: a writer from before is closed, and waited for, *)
(* after which nothing but the exception follows.                           *)
Refused(c) ==
    /\ pc[c] \in {"connecting", "reopening"}
    /\ \/ status = "DOWN" /\ UNCHANGED <<clean, faults>>
       \/ status # "DOWN" /\ faults < MaxFaults /\ faults' = faults + 1 /\ clean' = {}
    /\ Return(c, IF pc[c] = "connecting" THEN "PeriplusConnectionError"
                 ELSE IF writer # None /\ link[writer] = "reset" THEN "ConnectionResetError"
                 ELSE "ConnectionError")
    /\ \/ writer = None /\ UNCHANGED link
       \/ writer # None /\ link' = [link EXCEPT ![writer] = Shut(@)]
    /\ UNCHANGED <<conn, inbox, outbox, frag, parse, got, server>>

(* drain() returns, the fragment is sent: the next one, or the reply.       *)
Drained(c) ==
    /\ pc[c] \in {"draining", "redraining"}
    /\ link[mine[c]] # "reset"
    /\ inbox' = IF link[mine[c]] \in {"up", "closed"}
                THEN [inbox EXCEPT ![mine[c]] = Append(@, [call |-> c, n |-> frag[c]])]
                ELSE inbox
    /\ \/ /\ frag[c] < Fragments(c)
          /\ send(c, frag[c] + 1, writer, link)
          /\ UNCHANGED conn
       \/ /\ frag[c] = Fragments(c)
          /\ IF Op[c] = "SEARCH" /\ parse[c] = NoParse
             THEN close(c, <<>>)
             ELSE receive(c) /\ UNCHANGED <<connected, link>>
          /\ UNCHANGED <<frag, writer, opened>>
    /\ UNCHANGED <<outbox, parse, got, server, clean, faults>>

(* drain() raises: send() closes the connection of now, the first time.     *)
Reclose(c) ==
    /\ pc[c] = "broken" \/ (pc[c] = "draining" /\ link[mine[c]] = "reset")
    /\ connected' = FALSE
    /\ \/ /\ writer = None
          /\ Await(c, "reopening", None)
          /\ UNCHANGED link
       \/ /\ writer # None
          /\ link' = [link EXCEPT ![writer] = Shut(@)]
          /\ Await(c, "reclosing", writer)
    /\ UNCHANGED <<writer, opened, inbox, outbox, frag, parse, got, server, clean, faults>>

RedrainFails(c) ==
    /\ pc[c] = "redraining"
    /\ link[mine[c]] = "reset"
    /\ Return(c, "ConnectionResetError")
    /\ UNCHANGED <<conn, net, frag, parse, got, server, clean, faults>>

(* Mutant of WaitClosed: an exception of the old connection is swallowed.   *)
WaitClosedQuiet(c) ==
    /\ pc[c] \in {"closing", "reclosing"}
    /\ writer' = None
    /\ \/ pc[c] = "reclosing" /\ Await(c, "reopening", None)
       \/ pc[c] = "closing" /\ \E r \in Results(c, got[c]) : Return(c, r)
    /\ UNCHANGED <<connected, opened, net, frag, parse, got, server, clean, faults>>

(* wait_closed() returns, or raises what the peer's reset has left.  Only   *)
(* then the reader and the writer, of whatever connection, are dropped.     *)
WaitClosed(c) ==
    /\ pc[c] \in {"closing", "reclosing"}
    /\ \/ /\ link[mine[c]] = "reset"
          /\ Return(c, "ConnectionResetError")
          /\ UNCHANGED writer
       \/ /\ link[mine[c]] # "reset"
          /\ writer' = None
          /\ \/ pc[c] = "reclosing" /\ Await(c, "reopening", None)
             \/ pc[c] = "closing" /\ \E r \in Results(c, got[c]) : Return(c, r)
    /\ UNCHANGED <<connected, opened, net, frag, parse, got, server, clean, faults>>

-----------------------------------------------------------------------------
(* Reading the reply *)

(* The numbers bytes stand for: a count, or the two halves of a length. *)
Numbers(units) ==
    LET u == units[1]
    IN  IF Len(units) = 1 /\ u.part \in {"count", "low", "high"} THEN {u.n}
        ELSE IF Len(units) = 2 /\ u.part = "low" /\ units[2] = [u EXCEPT !.part = "high", !.n = 0, !.at = @ + 1]
             THEN {u.n}
        ELSE Garbage

(* The units the next receive() of a search asks for. *)
Asked(p) == IF p.need > 0 THEN p.need ELSE IF p.fields > 0 THEN 2 ELSE 1

(* Mutant of Parsed: a miss, -1, is not told from a number of records. *)
ParsedMiss(p, units) ==
    IF p.need > 0 THEN {[p EXCEPT !.need = @ - Len(units)]}
    ELSE IF p.fields > 0 THEN {[p EXCEPT !.fields = @ - 1, !.need = v] : v \in Numbers(units)}
    ELSE {[p EXCEPT !.queries = @ - 1, !.fields = Fields * v] : v \in Numbers(units)}

(* What is left to read when the units have been read for p. *)
Parsed(p, units) ==
    IF p.need > 0 THEN {[p EXCEPT !.need = @ - Len(units)]}
    ELSE IF p.fields > 0 THEN {[p EXCEPT !.fields = @ - 1, !.need = v] : v \in Numbers(units)}
    ELSE {[p EXCEPT !.queries = @ - 1, !.fields = IF v > 0 THEN Fields * v ELSE 0] : v \in Numbers(units)}

(* read() returns n units, 0 at the end of the stream. *)
Arrives(c, n) ==
    /\ pc[c] = "reading"
    /\ link[mine[c]] # "reset"
    /\ n <= Len(outbox[mine[c]])
    /\ n = 0 => outbox[mine[c]] = <<>> /\ link[mine[c]] # "up"
    /\ outbox' = [outbox EXCEPT ![mine[c]] = SubSeq(@, n + 1, Len(@))]

(* initialize, train, add, load, evict: one receive(), then close().        *)
ReadText(c, n) ==
    /\ Op[c] # "SEARCH"
    /\ Arrives(c, n)
    /\ LET units == SubSeq(outbox[mine[c]], 1, n)
       IN  /\ got' = [got EXCEPT ![c] = units]
           /\ close(c, units)
    /\ UNCHANGED <<writer, opened, inbox, frag, parse, server, clean, faults>>

(* Mutant of ReadRecords: a body is taken to be whole. *)
ReadRecordsOnce(c, n) ==
    /\ Op[c] = "SEARCH"
    /\ n <= Asked(parse[c])
    /\ Arrives(c, n)
    /\ LET units == SubSeq(outbox[mine[c]], 1, n)
           p == parse[c]
       IN  /\ got' = [got EXCEPT ![c] = @ \o units]
           /\ IF n = 0 \/ (p.need = 0 /\ n < Asked(p))
              THEN /\ Return(c, "struct.error")
                   /\ UNCHANGED <<parse, connected, link>>
              ELSE \E q \in Parsed(p, units) :
                     LET r == IF p.queries = 0 /\ q.fields < Fields THEN NoParse ELSE q
                     IN  /\ parse' = [parse EXCEPT ![c] = r]
                         /\ IF r = NoParse THEN close(c, units)
                                           ELSE receive(c) /\ UNCHANGED <<connected, link>>
    /\ UNCHANGED <<writer, opened, inbox, frag, server, clean, faults>>

(* Mutant of ReadRecords: the end of the stream is not noticed. *)
ReadRecordsForever(c, n) ==
    /\ Op[c] = "SEARCH"
    /\ n > 0 /\ n <= Asked(parse[c])
    /\ Arrives(c, n)
    /\ LET units == SubSeq(outbox[mine[c]], 1, n)
           p == parse[c]
       IN  /\ got' = [got EXCEPT ![c] = @ \o units]
           /\ \/ /\ p.need = 0 /\ n < Asked(p)
                 /\ Return(c, "struct.error")
                 /\ UNCHANGED <<parse, connected, link>>
              \/ /\ p.need > 0 \/ n = Asked(p)
                 /\ \E q \in Parsed(p, units) :
                      /\ parse' = [parse EXCEPT ![c] = q]
                      /\ IF q = NoParse THEN close(c, units)
                                        ELSE receive(c) /\ UNCHANGED <<connected, link>>
    /\ UNCHANGED <<writer, opened, inbox, frag, server, clean, faults>>

(* search: a number must come in one piece, the contents of a field may come *)
(* in several, and must be UTF-8; an exception leaves the connection as it   *)
(* is.                                                                       *)
ReadRecords(c, n) ==
    /\ Op[c] = "SEARCH"
    /\ n <= Asked(parse[c])
    /\ Arrives(c, n)
    /\ LET units == SubSeq(outbox[mine[c]], 1, n)
           p == parse[c]
       IN  /\ got' = [got EXCEPT ![c] = @ \o units]
           /\ \/ /\ p.need = 0 /\ n < Asked(p)
                 /\ Return(c, "struct.error")
                 /\ UNCHANGED <<parse, connected, link>>
              \/ /\ p.need > 0 /\ n = 0
                 /\ Return(c, "RuntimeError")
                 /\ UNCHANGED <<parse, connected, link>>
              \/ /\ p.need > 0 /\ n = p.need
                 /\ p.fields % Fields # Embedding
                 /\ \E i \in 1 .. n : units[i].part # "body"
                 /\ Return(c, "UnicodeDecodeError")
                 /\ UNCHANGED <<parse, connected, link>>
              \/ /\ n > 0 /\ (p.need > 0 \/ n = Asked(p))
                 /\ \E q \in Parsed(p, units) :
                      /\ parse' = [parse EXCEPT ![c] = q]
                      /\ IF q = NoParse THEN close(c, units)
                                        ELSE receive(c) /\ UNCHANGED <<connected, link>>
    /\ UNCHANGED <<writer, opened, inbox, frag, server, clean, faults>>

(* Mutant of ReadFails: what was sent on the lost connection is sent again. *)
ReadFailsResends(c) ==
    /\ pc[c] = "reading"
    /\ link[mine[c]] = "reset"
    /\ Await(c, "reopening", None)
    /\ UNCHANGED <<conn, net, frag, parse, got, server, clean, faults>>

(* A connection the peer has reset raises, whatever it has received.        *)
ReadFails(c) ==
    /\ pc[c] = "reading"
    /\ link[mine[c]] = "reset"
    /\ Return(c, "ConnectionResetError")
    /\ UNCHANGED <<conn, net, frag, parse, got, server, clean, faults>>

-----------------------------------------------------------------------------
(* The server *)

(* A record of a reply: per field its length and what it holds. *)
FieldUnits(c, h) ==
    [i \in 1 .. 3 * Fields * h |->
        [of |-> c, at |-> i, part |-> <<"low", "high", "body">>[((i - 1) % 3) + 1],
         n |-> IF i % 3 = 1 THEN 1 ELSE 0]]
QueryUnits(c, h) ==
    <<[of |-> c, at |-> 0, part |-> "count", n |-> h]>> \o FieldUnits(c, IF h > 0 THEN h ELSE 0)
TextUnit(c, n) == [of |-> c, at |-> 0, part |-> "text", n |-> n]

(* A reply goes out unless the client has closed the connection. *)
Answer(s, c, units) ==
    IF link[s] = "up"
    THEN /\ outbox' = [outbox EXCEPT ![s] = @ \o units]
         /\ answered' = [answered EXCEPT ![c] = @ + Len(units)]
    ELSE UNCHANGED <<outbox, answered>>

(* The process ends: the sockets are closed, or reset where it had unread   *)
(* data.                                                                    *)
End ==
    /\ status' = "DOWN"
    /\ \E l \in {"fin", "reset"} :
          link' = [s \in Sockets |-> IF link[s] = "up" THEN l ELSE IF link[s] = "closed" THEN "dead" ELSE link[s]]
    /\ inbox' = [s \in Sockets |-> <<>>]
    /\ owed' = [s \in Sockets |-> <<>>]

Free == status # "DOWN" /\ \A s \in Sockets : owed[s] = <<>>

(* The fragments of c are next on the connection. *)
Whole(s, c) ==
    /\ Len(inbox[s]) >= Fragments(c)
    /\ \A i \in 1 .. Fragments(c) : inbox[s][i] = [call |-> c, n |-> i]

Execute(s, c, n) ==
    /\ inbox' = [inbox EXCEPT ![s] = SubSeq(@, n + 1, Len(@))]
    /\ status' = IF Op[c] = "INITIALIZE" THEN "INITIALIZED" ELSE "READY"
    /\ IF Op[c] = "SEARCH"
       THEN /\ owed' = [owed EXCEPT ![s] = [i \in 1 .. Queries[c] |-> c]]
            /\ UNCHANGED <<outbox, answered>>
       ELSE /\ \E n2 \in IF Op[c] = "LOAD" THEN {0, 1} ELSE {1} : Answer(s, c, <<TextUnit(c, n2)>>)
            /\ UNCHANGED owed

(* A command that has arrived whole runs once. *)
RunCommand(s) ==
    /\ Free
    /\ inbox[s] # <<>>
    /\ LET c == Head(inbox[s]).call
       IN  /\ Op[c] \in Allowed[status]
           /\ Whole(s, c)
           /\ Execute(s, c, Fragments(c))
           /\ ran' = [ran EXCEPT ![c] = @ + 1]
    /\ UNCHANGED <<conn, link, call, clean, faults>>

(* Other bytes where a command's should follow are taken for its arguments. *)
RunGarbled(s) ==
    /\ Free
    /\ inbox[s] # <<>>
    /\ LET f == Head(inbox[s])
       IN  /\ f.n = 1
           /\ Op[f.call] \in Allowed[status]
           /\ \E i \in 2 .. Len(inbox[s]) :
                 /\ i <= Fragments(f.call)
                 /\ inbox[s][i] # [f EXCEPT !.n = i]
                 /\ \/ End /\ UNCHANGED <<outbox, answered>>
                    \/ \E n \in i .. Len(inbox[s]) : Execute(s, f.call, n) /\ UNCHANGED link
    /\ UNCHANGED <<conn, call, ran, clean, faults>>

(* A line that is no command, or one the status does not allow, ends it. *)
Reject(s) ==
    /\ Free
    /\ inbox[s] # <<>>
    /\ LET f == Head(inbox[s])
       IN  \/ f.n = 1 /\ Op[f.call] \notin Allowed[status]
           \/ f.n > 1 /\ \E g \in {inbox[s][i] : i \in DOMAIN inbox[s]} : g.n \in {1, Fragments(g.call)}
    /\ End
    /\ UNCHANGED <<conn, outbox, call, ran, answered, clean, faults>>

(* A SEARCH answers one query after the other; each has n records, or -1.   *)
AnswerQuery(s, n) ==
    /\ status # "DOWN"
    /\ owed[s] # <<>>
    /\ owed' = [owed EXCEPT ![s] = Tail(@)]
    /\ Answer(s, Head(owed[s]), QueryUnits(Head(owed[s]), n))
    /\ UNCHANGED <<conn, link, inbox, call, status, ran, clean, faults>>

ServerStep(s) ==
    \/ RunCommand(s)
    \/ RunGarbled(s)
    \/ Reject(s)
    \/ \E n \in -1 .. MaxHits : AnswerQuery(s, n)

-----------------------------------------------------------------------------
(* What goes wrong *)

Fault == faults < MaxFaults /\ faults' = faults + 1 /\ clean' = {}

(* A connection is reset; the server may have read what was sent on it. *)
Cut(s) ==
    /\ Fault
    /\ link[s] \in {"up", "fin"}
    /\ link' = [link EXCEPT ![s] = "reset"]
    /\ \E read \in BOOLEAN : inbox' = IF read THEN inbox ELSE [inbox EXCEPT ![s] = <<>>]
    /\ UNCHANGED <<conn, outbox, call, server>>

(* The server ends, having written a part of its replies. *)
Crash ==
    /\ Fault
    /\ status # "DOWN"
    /\ End
    /\ \E n \in 0 .. 2 :
          outbox' = [s \in Sockets |-> IF link[s] = "up" /\ n < Len(outbox[s])
                                       THEN SubSeq(outbox[s], 1, n) ELSE outbox[s]]
    /\ UNCHANGED <<conn, call, ran, answered>>

Restart ==
    /\ status = "DOWN"
    /\ status' = "UNINITIALIZED"
    /\ UNCHANGED <<conn, net, call, owed, ran, answered, clean, faults>>

(* A writer nobody has a reference to may be closed by its finalizer. *)
Collect(s) ==
    /\ link[s] \in {"up", "fin", "stale"}
    /\ writer # s
    /\ \A c \in Calls : mine[c] = s => pc[c] = "reading"
    /\ link' = [link EXCEPT ![s] = Shut(@)]
    /\ UNCHANGED <<conn, inbox, outbox, call, server, clean, faults>>

-----------------------------------------------------------------------------
Buffered(c) == IF mine[c] = None THEN 0 ELSE Len(outbox[mine[c]])

(* The steps of a call after its first, but for the reads of a search. *)
Continue(c) ==
    \/ Opened(c)
    \/ Refused(c)
    \/ Drained(c)
    \/ Reclose(c)
    \/ RedrainFails(c)
    \/ WaitClosed(c)
    \/ ReadFails(c)
    \/ \E n \in 0 .. Buffered(c) : ReadText(c, n)

World ==
    \/ \E s \in Sockets : ServerStep(s) \/ Cut(s) \/ Collect(s)
    \/ Crash
    \/ Restart

Next ==
    \/ World
    \/ \E c \in Calls :
          \/ Start(c)
          \/ Continue(c)
          \/ \E n \in 0 .. Buffered(c) : ReadRecords(c, n)

Spec == Init /\ [][Next]_vars

(* A program that keeps to the contract: it awaits each call before the     *)
(* next, and its ids are Latin-1.  A search that asks for a number finds    *)
(* all of it, or the connection has ended.                                  *)
Idle == \A c \in Calls : pc[c] \in {"idle", "done"}

ReadWhole(c) == \E n \in 0 .. Buffered(c) :
    /\ pc[c] = "reading"
    /\ \/ parse[c].need > 0
       \/ n = Asked(parse[c])
       \/ link[mine[c]] # "up" /\ n = Len(outbox[mine[c]])
    /\ ReadRecords(c, n)

OneAtATime ==
    \/ World
    \/ \E c \in Calls :
          \/ Idle /\ Unsendable[c] = 0 /\ Start(c)
          \/ Continue(c)
          \/ \E n \in 0 .. Buffered(c) : ReadRecords(c, n)

SequentialSpec == Init /\ [][OneAtATime]_vars

ContractNext ==
    \/ World
    \/ \E c \in Calls : (Idle /\ Unsendable[c] = 0 /\ Start(c)) \/ Continue(c) \/ ReadWhole(c)

ContractSpec == Init /\ [][ContractNext]_vars

(* The event loop resumes every coroutine that can go on; the server runs   *)
(* what it has received.                                                    *)
FairSpec ==
    /\ ContractSpec
    /\ \A c \in Calls : WF_vars(Continue(c) \/ ReadWhole(c))
    /\ \A s \in Sockets : WF_vars(ServerStep(s))

-----------------------------------------------------------------------------
(* PROPERTIES *)

Places == {"idle", "connecting", "draining", "broken", "reclosing", "reopening", "redraining",
           "reading", "closing", "done"}

(* Types of the members of Connection, the locals of the coroutines and of  *)
(* what surrounds them.                                                     *)
TypeOK ==
    /\ connected \in BOOLEAN
    /\ writer \in 0 .. opened
    /\ opened \in 0 .. MaxSockets
    /\ link \in [Sockets -> {"new", "up", "fin", "stale", "reset", "closed", "dead"}]
    /\ inbox \in [Sockets -> Seq(Fragment)]
    /\ outbox \in [Sockets -> Seq(Unit)]
    /\ pc \in [Calls -> Places]
    /\ mine \in [Calls -> 0 .. opened]
    /\ frag \in [Calls -> Nat]
    /\ parse \in [Calls -> [queries : Nat, fields : Nat, need : Nat]]
    /\ got \in [Calls -> Seq(Unit)]
    /\ outcome \in [Calls -> Outcomes]
    /\ status \in DOMAIN Allowed
    /\ owed \in [Sockets -> Seq(Calls)]
    /\ ran \in [Calls -> Nat]
    /\ answered \in [Calls -> Nat]
    /\ clean \subseteq Calls
    /\ faults \in 0 .. MaxFaults

(* A call's command runs at most once, however calls share the connection:  *)
(* what send() sends again was never sent.                                  *)
AtMostOnce == \A c \in Calls : ran[c] <= 1

(* Whatever coroutines do to each other's connection, as many calls return  *)
(* True as confirmations of their command were sent, each for one of them.  *)
Confirmed == {c \in Calls : outcome[c] = "ok" /\ Op[c] # "SEARCH"}
ConfirmedByOne ==
    \A c \in Confirmed :
        /\ \E d \in Calls : Op[d] = Op[c] /\ answered[d] = 1 /\ got[c] = <<TextUnit(d, 1)>>
        /\ \A d \in Confirmed \ {c} : got[c] # got[d]

(* Between calls of the contract, a connection taken for open has a writer, *)
(* which no one has closed.                                                 *)
Usable == Idle /\ connected => writer # None /\ link[writer] \notin {"closed", "dead"}

(* Under the contract, what the server reads on a connection are commands   *)
(* with all their fragments in order; the last may still be incomplete.     *)
WholeCommands ==
    \A s \in Sockets : \A i \in DOMAIN inbox[s] :
        LET f == inbox[s][i]
        IN  \/ f.n = 1 /\ (i = 1 \/ inbox[s][i - 1].n = Fragments(inbox[s][i - 1].call))
            \/ i > 1 /\ inbox[s][i - 1] = [f EXCEPT !.n = @ - 1]

(* What a call returns was read from the reply to it, all of it.            *)
OwnReply ==
    \A c \in Calls : outcome[c] = "ok" =>
        /\ Len(got[c]) = answered[c]
        /\ \A i \in DOMAIN got[c] : got[c][i].of = c

(* Under the contract, a call that opens its connection to a server ready   *)
(* for it, and meets no fault, returns, or raises the server's own error.   *)
CleanCallsSucceed ==
    \A c \in clean \ Mismatched :
        outcome[c] \in {"none", "ok"} \/ (Op[c] = "LOAD" /\ outcome[c] = "PeriplusServerError")

(* Under the contract and fairness, every call ends. *)
CallsEnd == \A c \in Calls : pc[c] # "idle" ~> pc[c] = "done"
=============================================================================
