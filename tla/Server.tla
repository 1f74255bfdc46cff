------------------------------- MODULE Server -------------------------------
(***************************************************************************)
(* The TCP server of Periplus: TcpServer (src/src/server.cpp), Session     *)
(* (session.cpp) and the Cache that dispatches commands (cache.cpp), for   *)
(* the clients of a run.  Of the engine it keeps what the dispatcher       *)
(* depends on: whether there is a core, and whether it is trained.         *)
(*                                                                         *)
(* One thread runs the handlers, to the end, one at a time.  It blocks in  *)
(* a LOAD until the proxy answers and in a SEARCH until the client's       *)
(* socket takes the reply.  A command is a line and then the parts of its  *)
(* arguments: get_static_size() bytes, for an ADD the 8 bytes its static   *)
(* size leaves out, and the dynamic arguments.                             *)
(***************************************************************************)
EXTENDS Integers, FiniteSets, Sequences

CONSTANTS
    Sessions,    \* the connections clients make
    MaxCommands, \* bound: the commands sent on each connection
    SndBuf,      \* the replies a socket takes before the client reads one
    MaxOpen      \* the sockets the process may hold

ASSUME BoundsAssumption ==
    /\ MaxCommands \in [Sessions -> Nat]
    /\ SndBuf \in Nat \ {0}
    /\ MaxOpen \in Nat

Commands == {"INITIALIZE", "TRAIN", "ADD", "LOAD", "SEARCH", "EVICT"}
CoreCommands == Commands \ {"INITIALIZE", "TRAIN"}

VARIABLES
    status,     \* Cache::status
    core,       \* Cache::core: "none", "untrained" or "trained"
    pc,         \* per session: what it waits for
    sent,       \* per session: the commands the client has sent
    begun,      \* per session: how many command lines the server has taken
    output_buf, \* per session: the command whose reply the buffer holds
    writes,     \* per session: the async writes the kernel has not taken
    replies,    \* per session: the replies the kernel has taken
    taken,      \* per session: how many replies the client has read
    gone,       \* per session: the client has hung up
    down        \* an exception has ended the process

cache == <<status, core>>
output == <<output_buf, writes, replies>>
vars == <<cache, pc, sent, begun, output, taken, gone, down>>

Reading == {"head", "dynamic"}    \* the arguments are awaited
Running == {"proxy", "writing"}   \* the thread is blocked in the command
Places == {"new", "backlog", "line", "ended"} \cup Reading \cup Running

(* The command whose line was taken last. *)
Current(s) == sent[s][begun[s]]
ThreadFree == ~down /\ \A s \in Sessions : pc[s] \notin Running
Room(s) == Len(replies[s]) - taken[s] < SndBuf

(* TcpServer::sessions: nothing is ever taken out of it. *)
Held == {s \in Sessions : pc[s] \notin {"new", "backlog"}}

At(s, place) == pc' = [pc EXCEPT ![s] = place]

Init ==
    /\ status = "UNINITIALIZED"
    /\ core = "none"
    /\ pc = [s \in Sessions |-> "new"]
    /\ sent = [s \in Sessions |-> <<>>]
    /\ begun = [s \in Sessions |-> 0]
    /\ output_buf = [s \in Sessions |-> "none"]
    /\ writes = [s \in Sessions |-> <<>>]
    /\ replies = [s \in Sessions |-> <<>>]
    /\ taken = [s \in Sessions |-> 0]
    /\ gone = [s \in Sessions |-> FALSE]
    /\ down = FALSE

-----------------------------------------------------------------------------
(* The clients *)

Connect(s) ==
    /\ ~down
    /\ pc[s] = "new"
    /\ At(s, "backlog")
    /\ UNCHANGED <<cache, sent, begun, output, taken, gone, down>>

Send(s, c) ==
    /\ ~down
    /\ pc[s] # "new"
    /\ ~gone[s]
    /\ Len(sent[s]) < MaxCommands[s]
    /\ sent' = [sent EXCEPT ![s] = Append(@, c)]
    /\ UNCHANGED <<cache, pc, begun, output, taken, gone, down>>

Receive(s) ==
    /\ ~gone[s]
    /\ taken[s] < Len(replies[s])
    /\ taken' = [taken EXCEPT ![s] = @ + 1]
    /\ UNCHANGED <<cache, pc, sent, begun, output, gone, down>>

(* A client closes its connection, or dies, at any time: what it has sent   *)
(* may still arrive, or be discarded.                                       *)
Hangup(s) ==
    /\ ~down
    /\ pc[s] # "new"
    /\ ~gone[s]
    /\ gone' = [gone EXCEPT ![s] = TRUE]
    /\ UNCHANGED <<cache, pc, sent, begun, output, taken, down>>

-----------------------------------------------------------------------------
(* Sending replies *)

Into(s, text, of) == replies' = [replies EXCEPT ![s] = Append(@, [text |-> text, of |-> of])]

(* Mutant of Reply: the text is copied to output_buf after the write. *)
ReplyLate(s, c) ==
    /\ output_buf' = [output_buf EXCEPT ![s] = c]
    /\ IF gone[s] \/ ~Room(s) THEN UNCHANGED <<replies, writes>>
                              ELSE Into(s, output_buf[s], c) /\ UNCHANGED writes
    /\ At(s, "line")

(* Mutant of Reply: process_args does not read the next command. *)
ReplyLast(s, c) ==
    /\ output_buf' = [output_buf EXCEPT ![s] = c]
    /\ IF gone[s] \/ ~Room(s) THEN UNCHANGED <<replies, writes>>
                              ELSE Into(s, c, c) /\ UNCHANGED writes
    /\ At(s, "ended")

(* The text is copied to output_buf and written asynchronously from there:  *)
(* at once if the socket takes it and no write is waiting, else later, from *)
(* what output_buf holds then.  The session reads its next command.         *)
Reply(s, c) ==
    /\ output_buf' = [output_buf EXCEPT ![s] = c]
    /\ \/ gone[s] /\ UNCHANGED <<replies, writes>>
       \/ ~gone[s] /\ Room(s) /\ writes[s] = <<>> /\ Into(s, c, c) /\ UNCHANGED writes
       \/ /\ ~gone[s] /\ (~Room(s) \/ writes[s] # <<>>)
          /\ writes' = [writes EXCEPT ![s] = Append(@, c)]
          /\ UNCHANGED replies
    /\ At(s, "line")

(* Mutant of Transmit: the write is not taken off the queue. *)
TransmitTwice(s) ==
    /\ ThreadFree
    /\ writes[s] # <<>> /\ ~gone[s] /\ Room(s)
    /\ Into(s, output_buf[s], Head(writes[s]))
    /\ UNCHANGED <<cache, pc, sent, begun, output_buf, writes, taken, gone, down>>

(* A waiting write goes out when the socket takes it, or fails. *)
Transmit(s) ==
    /\ ThreadFree
    /\ writes[s] # <<>>
    /\ writes' = [writes EXCEPT ![s] = Tail(@)]
    /\ \/ gone[s] /\ UNCHANGED replies
       \/ ~gone[s] /\ Room(s) /\ Into(s, output_buf[s], Head(writes[s]))
    /\ UNCHANGED <<cache, pc, sent, begun, output_buf, taken, gone, down>>

-----------------------------------------------------------------------------
(* Running a command, once its arguments are there *)

(* Mutants of StatusAfter: INITIALIZE leaves the status; TRAIN announces a  *)
(* training that it has already done.                                       *)
StatusKept(c) == IF c = "INITIALIZE" /\ status = "UNINITIALIZED" THEN "INITIALIZED" ELSE "READY"
StatusTraining(c) == IF c = "INITIALIZE" THEN "INITIALIZED" ELSE "TRAINING"

StatusAfter(c) == IF c = "INITIALIZE" THEN "INITIALIZED" ELSE "READY"

(* An exception leaves io_context.run(): std::terminate. *)
Terminate ==
    /\ down' = TRUE
    /\ UNCHANGED <<cache, pc, output>>

(* A LOAD waits for the proxy, a SEARCH for the socket: both block.  On a   *)
(* core that is not trained the other commands index an array with the -1   *)
(* of an empty quantizer: they answer, or the process ends.                 *)
Execute(s, c) ==
    \/ /\ c \in {"INITIALIZE", "TRAIN"}
       /\ status' = StatusAfter(c)
       /\ core' = IF c = "INITIALIZE" THEN "untrained" ELSE "trained"
       /\ Reply(s, c)
       /\ UNCHANGED down
    \/ /\ c \in {"ADD", "EVICT"}
       /\ Reply(s, c)
       /\ UNCHANGED <<cache, down>>
    \/ /\ c \in {"LOAD", "SEARCH"}
       /\ At(s, IF c = "LOAD" THEN "proxy" ELSE "writing")
       /\ UNCHANGED <<cache, output, down>>
    \/ /\ c \in CoreCommands
       /\ core # "trained"
       /\ Terminate

(* The proxy answers, or its answer is an HTTP error: LOAD replies either. *)
ProxyAnswers(s) ==
    /\ ~down
    /\ pc[s] = "proxy"
    /\ Reply(s, "LOAD")
    /\ UNCHANGED <<cache, sent, begun, taken, gone, down>>

(* The results are copied to output_buf and written before SEARCH returns,  *)
(* ahead of writes that wait for the thread.                                *)
SearchWrites(s) ==
    /\ ~down
    /\ pc[s] = "writing"
    /\ output_buf' = [output_buf EXCEPT ![s] = "SEARCH"]
    /\ \/ gone[s] /\ UNCHANGED replies
       \/ ~gone[s] /\ Room(s) /\ Into(s, "SEARCH", "SEARCH")
    /\ At(s, "line")
    /\ UNCHANGED <<cache, sent, begun, writes, taken, gone, down>>

-----------------------------------------------------------------------------
(* The handlers *)

(* Mutant of Allowed: processCommand does not look at the status. *)
AllowedAlways == [st \in {"UNINITIALIZED", "INITIALIZED", "READY"} |-> Commands]

(* The commands processCommand takes, falling through its cases. *)
Allowed ==
    [UNINITIALIZED |-> {"INITIALIZE"},
     INITIALIZED   |-> {"INITIALIZE", "TRAIN"},
     READY         |-> Commands]

(* The parts deserialize_static reads, one of which is the static size. *)
HeadParts(c) == IF c = "ADD" THEN 2 ELSE 1

Accept(s) ==
    /\ ThreadFree
    /\ pc[s] = "backlog"
    /\ Cardinality(Held) < MaxOpen
    /\ At(s, "line")
    /\ UNCHANGED <<cache, sent, begun, output, taken, gone, down>>

(* The line of the next command is in the buffer, and n parts after it.     *)
ReadLine(s, n) ==
    /\ ThreadFree
    /\ pc[s] = "line"
    /\ begun[s] < Len(sent[s])
    /\ begun' = [begun EXCEPT ![s] = @ + 1]
    /\ UNCHANGED <<sent, taken, gone>>
    /\ LET c == sent[s][begun[s] + 1]
       IN  /\ n <= HeadParts(c) + 1
           /\ \/ c \notin Allowed[status] /\ Terminate
              \/ /\ c \in Allowed[status]
                 /\ \/ n = 0 /\ At(s, "head") /\ UNCHANGED <<cache, output, down>>
                    \/ n > 0 /\ n < HeadParts(c) /\ Terminate
                    \/ n = HeadParts(c) /\ At(s, "dynamic") /\ UNCHANGED <<cache, output, down>>
                    \/ n > HeadParts(c) /\ Execute(s, c)

(* The read of get_static_size() bytes is complete, and they are all there  *)
(* is in the buffer.  The handler then copies args through a reference to a *)
(* parameter that is gone: it goes on, or the process ends.                 *)
ReadHead(s) ==
    /\ ThreadFree
    /\ pc[s] = "head"
    /\ \/ HeadParts(Current(s)) = 1 /\ At(s, "dynamic") /\ UNCHANGED <<cache, output, down>>
       \/ Terminate
    /\ UNCHANGED <<sent, begun, taken, gone>>

ReadDynamic(s) ==
    /\ ThreadFree
    /\ pc[s] = "dynamic"
    /\ Execute(s, Current(s))
    /\ UNCHANGED <<sent, begun, taken, gone>>

(* The read fails: the handler returns and the session stays in sessions.   *)
ReadError(s) ==
    /\ ThreadFree
    /\ gone[s]
    /\ pc[s] \in {"line"} \cup Reading
    /\ At(s, "ended")
    /\ UNCHANGED <<cache, sent, begun, output, taken, gone, down>>

-----------------------------------------------------------------------------
(* The steps both specifications have. *)
Common(s) ==
    \/ Connect(s)
    \/ Receive(s)
    \/ Hangup(s)
    \/ Accept(s)
    \/ ReadDynamic(s)
    \/ ReadError(s)
    \/ ProxyAnswers(s)
    \/ SearchWrites(s)
    \/ Transmit(s)

Next == \E s \in Sessions :
    \/ \E c \in Commands : Send(s, c)
    \/ \E n \in 0 .. 3 : ReadLine(s, n)
    \/ ReadHead(s)
    \/ Common(s)

Spec == Init /\ [][Next]_vars

(* What the clients and the network must do to be served: a client sends a  *)
(* command the status allows, after the reply to its last one, with nothing *)
(* of others outstanding if it is an INITIALIZE and no INITIALIZE of others *)
(* if it is not; a command's line arrives with its static arguments.        *)
Outstanding(s) == pc[s] # "ended" /\ (begun[s] < Len(sent[s]) \/ pc[s] \in Reading \cup Running)

Coordinated(s, c) ==
    /\ c \in Allowed[status]
    /\ taken[s] = Len(sent[s])
    /\ \A t \in Sessions \ {s} : Outstanding(t) =>
          c # "INITIALIZE" /\ sent[t][Len(sent[t])] # "INITIALIZE"

WholeLine(s) == \E n \in 1 .. 3 :
    /\ begun[s] < Len(sent[s])
    /\ n >= HeadParts(sent[s][begun[s] + 1])
    /\ ReadLine(s, n)

DisciplinedNext == \E s \in Sessions :
    \/ \E c \in Commands : Coordinated(s, c) /\ Send(s, c)
    \/ WholeLine(s)
    \/ Common(s)

DisciplinedSpec == Init /\ [][DisciplinedNext]_vars

(* The thread runs every handler that is ready again and again, the proxy   *)
(* answers, and a client reads its reply or hangs up.                       *)
ThreadStep(s) ==
    \/ Accept(s)
    \/ WholeLine(s)
    \/ ReadDynamic(s)
    \/ ReadError(s)
    \/ ProxyAnswers(s)
    \/ SearchWrites(s)
    \/ Transmit(s)

FairSpec ==
    /\ DisciplinedSpec
    /\ \A s \in Sessions : SF_vars(ThreadStep(s)) /\ WF_vars(Receive(s))
-----------------------------------------------------------------------------
(* PROPERTIES *)

Answer == [text : Commands, of : Commands]

(* Types of the members of Cache, Session and TcpServer, and of the sockets. *)
TypeOK ==
    /\ status \in {"UNINITIALIZED", "INITIALIZED", "READY"}
    /\ core \in {"none", "untrained", "trained"}
    /\ pc \in [Sessions -> Places]
    /\ sent \in [Sessions -> Seq(Commands)]
    /\ begun \in [Sessions -> Nat]
    /\ output_buf \in [Sessions -> Commands \cup {"none"}]
    /\ writes \in [Sessions -> Seq(Commands)]
    /\ replies \in [Sessions -> Seq(Answer)]
    /\ taken \in [Sessions -> Nat]
    /\ gone \in [Sessions -> BOOLEAN]
    /\ down \in BOOLEAN

(* The dispatcher takes commands for the core there is, whatever sessions   *)
(* interleave: its status is READY only over a trained core, and a core is  *)
(* trained only under it.                                                   *)
StatusOfCore ==
    /\ status = "UNINITIALIZED" <=> core = "none"
    /\ status = "READY" <=> core = "trained"

(* A command that has run is answered once, by a reply the socket has or    *)
(* one that waits; one that is read or runs is not answered yet.            *)
AnsweredOnce ==
    ~down => \A s \in Sessions : ~gone[s] =>
        Len(replies[s]) + Len(writes[s]) + (IF pc[s] \in Reading \cup Running THEN 1 ELSE 0)
            = begun[s]

(* Under the contract, no command ends the process. *)
StaysUp == ~down

(* Under the contract, the i-th reply a client gets is that of its i-th     *)
(* command: no reply overtakes another or is sent from an overwritten       *)
(* buffer.                                                                  *)
RepliesMatch ==
    \A s \in Sessions : \A i \in DOMAIN replies[s] :
        i \in DOMAIN sent[s] /\ replies[s][i] = [text |-> sent[s][i], of |-> sent[s][i]]

(* Under the contract and fairness, a client that waits for a reply gets it *)
(* or hangs up, whatever the other sessions do.                             *)
Served ==
    \A s \in Sessions : taken[s] < Len(sent[s]) ~> (taken[s] = Len(sent[s]) \/ gone[s])

-----------------------------------------------------------------------------
(* What the comments say and the code does not do. *)

(* cache.cpp:16: "Determine the whether we can process the command": what   *)
(* processCommand let pass is allowed when it runs.                         *)
RanWhenAllowed ==
    [][\A s \in Sessions : ReadDynamic(s) => Current(s) \in Allowed[status]]_vars
=============================================================================
