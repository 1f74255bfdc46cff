---------------------------- MODULE ServerProofs ----------------------------
(***************************************************************************)
(* What holds of Server for any sessions and bounds: its types, that the   *)
(* status describes the core, and that every command is answered once.     *)
(***************************************************************************)
EXTENDS Server, TLAPS

Busy(s) == pc[s] \in Reading \cup Running

(* The replies a session has given: taken by the kernel, or waiting. *)
Given(s) == Len(replies[s]) + Len(writes[s])

(* What holds of a session: where its reader and its writers stand, and     *)
(* that a command that has run has been answered.                           *)
SessionOK(s) ==
    /\ begun[s] <= Len(sent[s])
    /\ Busy(s) => begun[s] >= 1
    /\ writes[s] # <<>> => output_buf[s] \in Commands
    /\ pc[s] = "ended" => gone[s]
    /\ ~down /\ ~gone[s] => begun[s] = IF Busy(s) THEN Given(s) + 1 ELSE Given(s)

IInv == TypeOK /\ StatusOfCore /\ \A s \in Sessions : SessionOK(s)

LEMMA SumNat == \A r, w \in Nat : r + w \in Nat
OBVIOUS

LEMMA SumAdd == \A r, w \in Nat : (r + 1) + w = r + w + 1 /\ r + (w + 1) = r + w + 1
OBVIOUS

LEMMA SumMove == \A r, w \in Nat : (r + 1) + (w - 1) = r + w
OBVIOUS

LEMMA GivenNat == TypeOK => \A s \in Sessions : Given(s) \in Nat
<1>. SUFFICES ASSUME TypeOK, NEW s \in Sessions PROVE Given(s) \in Nat
  OBVIOUS
<1>1. Len(replies[s]) \in Nat /\ Len(writes[s]) \in Nat
  BY DEF TypeOK
<1>. QED
  BY <1>1, SumNat, Zenon DEF Given

(* What Reply does to its session, and to no other. *)
LEMMA ReplyOnce ==
    ASSUME TypeOK, NEW s \in Sessions, NEW c \in Commands, Reply(s, c)
    PROVE  /\ pc' = [pc EXCEPT ![s] = "line"]
           /\ output_buf' = [output_buf EXCEPT ![s] = c]
           /\ writes' \in [Sessions -> Seq(Commands)]
           /\ replies' \in [Sessions -> Seq(Answer)]
           /\ \A t \in Sessions \ {s} : writes'[t] = writes[t] /\ replies'[t] = replies[t]
           /\ ~gone[s] => Given(s)' = Given(s) + 1
<1>1. /\ pc' = [pc EXCEPT ![s] = "line"]
      /\ output_buf' = [output_buf EXCEPT ![s] = c]
  BY DEF Reply, At
<1>2. CASE gone[s] /\ UNCHANGED <<replies, writes>>
  BY <1>1, <1>2 DEF TypeOK
<1>3. CASE ~gone[s] /\ Into(s, c, c) /\ UNCHANGED writes
  <2>1. [text |-> c, of |-> c] \in Answer
    BY DEF Answer
  <2>2. replies' = [replies EXCEPT ![s] = Append(replies[s], [text |-> c, of |-> c])]
    BY <1>3 DEF Into
  <2>3. Len(replies'[s]) = Len(replies[s]) + 1 /\ Len(replies[s]) \in Nat /\ Len(writes[s]) \in Nat
    BY <2>1, <2>2 DEF TypeOK
  <2>4. Given(s)' = Given(s) + 1
    BY <1>3, <2>3, SumAdd, Zenon DEF Given
  <2>. QED
    BY <1>1, <1>3, <2>1, <2>2, <2>4 DEF TypeOK
<1>4. CASE ~gone[s] /\ writes' = [writes EXCEPT ![s] = Append(@, c)] /\ UNCHANGED replies
  <2>1. Len(writes'[s]) = Len(writes[s]) + 1 /\ Len(replies[s]) \in Nat /\ Len(writes[s]) \in Nat
    BY <1>4 DEF TypeOK
  <2>2. Given(s)' = Given(s) + 1
    BY <1>4, <2>1, SumAdd, Zenon DEF Given
  <2>. QED
    BY <1>1, <1>4, <2>1, <2>2 DEF TypeOK
<1>. QED
  BY <1>2, <1>3, <1>4 DEF Reply

(* What running a command does: it ends the process, or blocks the thread,  *)
(* or replies.                                                              *)
LEMMA ExecuteOnce ==
    ASSUME IInv, ~down, NEW s \in Sessions, NEW c \in Commands, Execute(s, c)
    PROVE  /\ status' \in {"UNINITIALIZED", "INITIALIZED", "READY"}
           /\ core' \in {"none", "untrained", "trained"}
           /\ StatusOfCore'
           /\ pc' \in [Sessions -> Places]
           /\ output_buf' \in [Sessions -> Commands \cup {"none"}]
           /\ writes' \in [Sessions -> Seq(Commands)]
           /\ replies' \in [Sessions -> Seq(Answer)]
           /\ \A t \in Sessions \ {s} : /\ pc'[t] = pc[t]
                                        /\ output_buf'[t] = output_buf[t]
                                        /\ writes'[t] = writes[t]
                                        /\ replies'[t] = replies[t]
           /\ \/ down' = TRUE /\ UNCHANGED <<pc, output>>
              \/ /\ down' = FALSE
                 /\ pc'[s] \in Running
                 /\ UNCHANGED output
              \/ /\ down' = FALSE
                 /\ pc'[s] = "line"
                 /\ output_buf'[s] = c
                 /\ ~gone[s] => Given(s)' = Given(s) + 1
<1>0. down = FALSE
  BY DEF IInv, TypeOK
<1>1. CASE Terminate
  BY <1>1 DEF Terminate, cache, output, IInv, TypeOK, StatusOfCore
<1>2. CASE c \in {"LOAD", "SEARCH"} /\ At(s, IF c = "LOAD" THEN "proxy" ELSE "writing")
           /\ UNCHANGED <<cache, output, down>>
  <2>1. /\ pc' \in [Sessions -> Places]
        /\ pc'[s] \in Running
        /\ \A t \in Sessions \ {s} : pc'[t] = pc[t]
    BY <1>2 DEF At, IInv, TypeOK, Running, Places
  <2>. QED
    BY <1>0, <1>2, <2>1 DEF cache, output, IInv, TypeOK, StatusOfCore
<1>3. CASE Reply(s, c) /\ UNCHANGED down /\ StatusOfCore'
           /\ status' \in {"UNINITIALIZED", "INITIALIZED", "READY"}
           /\ core' \in {"none", "untrained", "trained"}
  <2>1. TypeOK
    BY DEF IInv
  <2>2. /\ pc' = [pc EXCEPT ![s] = "line"]
        /\ output_buf' = [output_buf EXCEPT ![s] = c]
        /\ writes' \in [Sessions -> Seq(Commands)]
        /\ replies' \in [Sessions -> Seq(Answer)]
        /\ \A t \in Sessions \ {s} : writes'[t] = writes[t] /\ replies'[t] = replies[t]
        /\ ~gone[s] => Given(s)' = Given(s) + 1
    BY <1>3, <2>1, ReplyOnce
  <2>3. /\ pc' \in [Sessions -> Places]
        /\ pc'[s] = "line"
        /\ output_buf' \in [Sessions -> Commands \cup {"none"}]
        /\ output_buf'[s] = c
        /\ \A t \in Sessions \ {s} : pc'[t] = pc[t] /\ output_buf'[t] = output_buf[t]
    BY <2>1, <2>2 DEF TypeOK, Places
  <2>. QED
    BY <1>0, <1>3, <2>2, <2>3
<1>4. CASE c \in {"INITIALIZE", "TRAIN"} /\ Reply(s, c) /\ UNCHANGED down
           /\ status' = StatusAfter(c)
           /\ core' = IF c = "INITIALIZE" THEN "untrained" ELSE "trained"
  <2>1. StatusOfCore' /\ status' \in {"UNINITIALIZED", "INITIALIZED", "READY"}
        /\ core' \in {"none", "untrained", "trained"}
    BY <1>4 DEF StatusAfter, StatusOfCore
  <2>. QED
    BY <1>3, <1>4, <2>1
<1>5. CASE c \in {"ADD", "EVICT"} /\ Reply(s, c) /\ UNCHANGED <<cache, down>>
  <2>1. StatusOfCore' /\ status' \in {"UNINITIALIZED", "INITIALIZED", "READY"}
        /\ core' \in {"none", "untrained", "trained"}
    BY <1>5 DEF cache, IInv, TypeOK, StatusOfCore
  <2>. QED
    BY <1>3, <1>5, <2>1
<1>. QED
  BY <1>1, <1>2, <1>4, <1>5 DEF Execute

OthersUnchanged(s) ==
    \A t \in Sessions \ {s} :
        /\ pc'[t] = pc[t] /\ sent'[t] = sent[t] /\ begun'[t] = begun[t]
        /\ output_buf'[t] = output_buf[t] /\ writes'[t] = writes[t]
        /\ replies'[t] = replies[t] /\ gone'[t] = gone[t]

LEMMA AnsweredOnceOfIInv == IInv => AnsweredOnce
<1>. SUFFICES ASSUME IInv, ~down, NEW s \in Sessions, ~gone[s]
             PROVE  Given(s) + (IF Busy(s) THEN 1 ELSE 0) = begun[s]
  BY Zenon DEF AnsweredOnce, Given, Busy
<1>1. Given(s) \in Nat
  BY GivenNat DEF IInv
<1>. QED
  BY <1>1 DEF IInv, SessionOK

(* A step on one session keeps IInv if it keeps that session's part of it.  *)
LEMMA OneSession ==
    ASSUME IInv, NEW s \in Sessions, OthersUnchanged(s), down => down',
           TypeOK', StatusOfCore', SessionOK(s)'
    PROVE  IInv'
<1>1. ASSUME NEW t \in Sessions \ {s} PROVE SessionOK(t)'
  <2>1. SessionOK(t)
    BY DEF IInv
  <2>2. Given(t)' = Given(t)
    BY Zenon DEF Given, OthersUnchanged
  <2>. QED
    BY <2>1, <2>2 DEF SessionOK, Busy, OthersUnchanged
<1>2. \A t \in Sessions : SessionOK(t)'
  BY <1>1
<1>. QED
  BY <1>2 DEF IInv

-----------------------------------------------------------------------------
(* One lemma per kind of step. *)

LEMMA InitInv == Init => IInv
<1>. SUFFICES ASSUME Init PROVE IInv
  OBVIOUS
<1>1. TypeOK
  <2>1. <<>> \in Seq(Commands) /\ <<>> \in Seq(Answer)
    OBVIOUS
  <2>2. "new" \in Places /\ 0 \in Nat
    BY DEF Places
  <2>. QED
    BY <2>1, <2>2 DEF Init, TypeOK
<1>2. StatusOfCore
  BY DEF Init, StatusOfCore
<1>3. ASSUME NEW s \in Sessions PROVE SessionOK(s)
  BY DEF Init, SessionOK, Busy, Given, Reading, Running
<1>. QED
  BY <1>1, <1>2, <1>3 DEF IInv

(* The steps of clients, accepting, and errors: only counters and places.   *)
LEMMA ClientInv ==
    ASSUME IInv, NEW s \in Sessions,
           \/ Connect(s)
           \/ \E c \in Commands : Send(s, c)
           \/ Receive(s)
           \/ Hangup(s)
           \/ Accept(s)
           \/ ReadError(s)
    PROVE  IInv'
<1>1. TypeOK /\ StatusOfCore /\ SessionOK(s)
  BY DEF IInv
<1>2. CASE Connect(s) \/ Accept(s) \/ ReadError(s)
  <2>1. PICK p \in {"line", "backlog", "ended"} : At(s, p) /\ (p = "ended" => gone[s])
    BY <1>2 DEF Connect, Accept, ReadError
  <2>2. UNCHANGED <<cache, output, sent, begun, taken, gone, down>>
    BY <1>2 DEF Connect, Accept, ReadError
  <2>3. (pc[s] \in {"new", "backlog", "line"}) \/ gone[s]
    BY <1>2 DEF Connect, Accept, ReadError
  <2>4. TypeOK' /\ StatusOfCore' /\ OthersUnchanged(s) /\ pc'[s] = p
    BY <1>1, <2>1, <2>2 DEF At, TypeOK, StatusOfCore, OthersUnchanged, Places, cache, output
  <2>5. SessionOK(s)'
    BY <1>1, <2>1, <2>2, <2>3, <2>4 DEF SessionOK, Given, Busy, Reading, Running, cache, output
  <2>. QED
    BY <2>2, <2>4, <2>5, OneSession
<1>3. ASSUME NEW c \in Commands, Send(s, c) PROVE IInv'
  <2>1. /\ sent' = [sent EXCEPT ![s] = Append(sent[s], c)]
        /\ UNCHANGED <<cache, output, pc, begun, taken, gone, down>>
    BY <1>3 DEF Send
  <2>2. TypeOK' /\ StatusOfCore' /\ OthersUnchanged(s)
    BY <1>1, <2>1 DEF TypeOK, StatusOfCore, OthersUnchanged, cache, output
  <2>3. Len(sent'[s]) = Len(sent[s]) + 1 /\ Len(sent[s]) \in Nat /\ begun[s] \in Nat
    BY <1>1, <2>1 DEF TypeOK
  <2>4. SessionOK(s)'
    <3>1. begun[s] <= Len(sent'[s])
      BY <1>1, <2>3 DEF SessionOK
    <3>. QED
      BY <1>1, <2>1, <3>1 DEF SessionOK, Given, Busy, cache, output
  <2>. QED
    BY <2>1, <2>2, <2>4, OneSession
<1>4. CASE Receive(s) \/ Hangup(s)
  <2>1. UNCHANGED <<cache, output, pc, sent, begun, down>> /\ (gone[s] => gone'[s])
    BY <1>1, <1>4 DEF Receive, Hangup, TypeOK
  <2>2. TypeOK' /\ OthersUnchanged(s)
    <3>1. CASE Receive(s)
      BY <1>1, <2>1, <3>1 DEF Receive, TypeOK, OthersUnchanged, cache, output
    <3>2. CASE Hangup(s)
      BY <1>1, <2>1, <3>2 DEF Hangup, TypeOK, OthersUnchanged, cache, output
    <3>. QED
      BY <1>4, <3>1, <3>2
  <2>3. StatusOfCore' /\ SessionOK(s)'
    BY <1>1, <2>1 DEF StatusOfCore, SessionOK, Given, Busy, cache, output
  <2>. QED
    BY <2>1, <2>2, <2>3, OneSession
<1>. QED
  BY <1>2, <1>3, <1>4

LEMMA TransmitInv ==
    ASSUME IInv, NEW s \in Sessions, Transmit(s)
    PROVE  IInv'
<1>0. TypeOK /\ StatusOfCore /\ SessionOK(s)
  BY DEF IInv
<1>1. /\ UNCHANGED <<cache, pc, sent, begun, output_buf, taken, gone, down>>
      /\ writes' = [writes EXCEPT ![s] = Tail(writes[s])]
      /\ writes[s] # <<>>
      /\ output_buf[s] \in Commands
  BY <1>0 DEF Transmit, SessionOK
<1>2. /\ writes[s] \in Seq(Commands)
      /\ Head(writes[s]) \in Commands
      /\ writes' \in [Sessions -> Seq(Commands)]
      /\ Len(writes'[s]) = Len(writes[s]) - 1
      /\ Len(writes[s]) \in Nat
  BY <1>0, <1>1 DEF TypeOK
<1>3. /\ replies' \in [Sessions -> Seq(Answer)]
      /\ \A t \in Sessions \ {s} : replies'[t] = replies[t]
      /\ ~gone[s] => Len(replies'[s]) = Len(replies[s]) + 1 /\ Len(replies[s]) \in Nat
  <2>1. CASE UNCHANGED replies /\ gone[s]
    BY <1>0, <2>1 DEF TypeOK
  <2>2. CASE Into(s, output_buf[s], Head(writes[s]))
    <3>1. [text |-> output_buf[s], of |-> Head(writes[s])] \in Answer
      BY <1>1, <1>2 DEF Answer
    <3>. QED
      BY <1>0, <2>2, <3>1 DEF Into, TypeOK
  <2>. QED
    BY <2>1, <2>2 DEF Transmit
<1>4. TypeOK' /\ StatusOfCore' /\ OthersUnchanged(s)
  BY <1>0, <1>1, <1>2, <1>3 DEF TypeOK, StatusOfCore, OthersUnchanged, cache
<1>5. ~gone[s] => Given(s)' = Given(s)
  BY <1>2, <1>3, SumMove, Zenon DEF Given
<1>6. SessionOK(s)'
  BY <1>0, <1>1, <1>5 DEF SessionOK, Busy
<1>. QED
  BY <1>1, <1>4, <1>6, OneSession

LEMMA ProxyAnswersInv ==
    ASSUME IInv, NEW s \in Sessions, ProxyAnswers(s)
    PROVE  IInv'
<1>0. TypeOK /\ StatusOfCore /\ SessionOK(s)
  BY DEF IInv
<1>1. "LOAD" \in Commands
  BY DEF Commands
<1>2. /\ Reply(s, "LOAD")
      /\ UNCHANGED <<cache, sent, begun, taken, gone, down>>
      /\ Busy(s)
      /\ ~down
  BY DEF ProxyAnswers, Running, Busy
<1>3. /\ pc' = [pc EXCEPT ![s] = "line"]
      /\ output_buf' = [output_buf EXCEPT ![s] = "LOAD"]
      /\ writes' \in [Sessions -> Seq(Commands)]
      /\ replies' \in [Sessions -> Seq(Answer)]
      /\ \A t \in Sessions \ {s} : writes'[t] = writes[t] /\ replies'[t] = replies[t]
      /\ ~gone[s] => Given(s)' = Given(s) + 1
  BY <1>0, <1>1, <1>2, ReplyOnce
<1>4. /\ TypeOK' /\ StatusOfCore' /\ OthersUnchanged(s)
      /\ pc'[s] = "line" /\ output_buf'[s] = "LOAD"
  BY <1>0, <1>1, <1>2, <1>3 DEF TypeOK, StatusOfCore, OthersUnchanged, Places, cache
<1>5. ~Busy(s)'
  BY <1>4 DEF Busy, Reading, Running
<1>6. SessionOK(s)'
  BY <1>0, <1>1, <1>2, <1>3, <1>4, <1>5 DEF SessionOK
<1>. QED
  BY <1>2, <1>4, <1>6, OneSession

LEMMA SearchWritesInv ==
    ASSUME IInv, NEW s \in Sessions, SearchWrites(s)
    PROVE  IInv'
<1>0. TypeOK /\ StatusOfCore /\ SessionOK(s)
  BY DEF IInv
<1>1. /\ UNCHANGED <<cache, sent, begun, writes, taken, gone, down>>
      /\ output_buf' = [output_buf EXCEPT ![s] = "SEARCH"]
      /\ pc' = [pc EXCEPT ![s] = "line"]
      /\ Busy(s)
      /\ ~down
      /\ "SEARCH" \in Commands
  BY DEF SearchWrites, Running, At, Busy, Commands
<1>2. /\ replies' \in [Sessions -> Seq(Answer)]
      /\ \A t \in Sessions \ {s} : replies'[t] = replies[t]
      /\ ~gone[s] => Len(replies'[s]) = Len(replies[s]) + 1 /\ Len(replies[s]) \in Nat
  <2>1. CASE UNCHANGED replies /\ gone[s]
    BY <1>0, <2>1 DEF TypeOK
  <2>2. CASE Into(s, "SEARCH", "SEARCH")
    <3>1. [text |-> "SEARCH", of |-> "SEARCH"] \in Answer
      BY DEF Answer, Commands
    <3>. QED
      BY <1>0, <2>2, <3>1 DEF Into, TypeOK
  <2>. QED
    BY <2>1, <2>2 DEF SearchWrites
<1>3. /\ TypeOK' /\ StatusOfCore' /\ OthersUnchanged(s)
      /\ pc'[s] = "line" /\ output_buf'[s] = "SEARCH"
  BY <1>0, <1>1, <1>2 DEF TypeOK, StatusOfCore, OthersUnchanged, Places, cache
<1>4. ~Busy(s)'
  BY <1>3 DEF Busy, Reading, Running
<1>5. ~gone[s] => Given(s)' = Given(s) + 1
  <2>1. Len(writes[s]) \in Nat
    BY <1>0 DEF TypeOK
  <2>. QED
    BY <1>1, <1>2, <2>1, SumAdd, Zenon DEF Given
<1>6. SessionOK(s)'
  BY <1>0, <1>1, <1>3, <1>4, <1>5 DEF SessionOK
<1>. QED
  BY <1>1, <1>3, <1>6, OneSession

(* What a step of a handler that reads arguments leaves: the session waits  *)
(* for more of them, or its command runs, or the process ends.              *)
LEMMA HandlerInv ==
    ASSUME IInv, ~down, NEW s \in Sessions,
           pc[s] \in {"line"} \cup Reading,
           NEW n \in Nat,
           n = (IF pc[s] = "line" THEN begun[s] + 1 ELSE begun[s]),
           n <= Len(sent[s]),
           begun' = [begun EXCEPT ![s] = n],
           UNCHANGED <<sent, taken, gone>>,
           \/ Terminate
           \/ \E p \in Reading : At(s, p) /\ UNCHANGED <<cache, output, down>>
           \/ Execute(s, sent[s][n])
    PROVE  IInv'
<1>0. TypeOK /\ StatusOfCore /\ SessionOK(s)
  BY DEF IInv
<1>1. n >= 1 /\ begun'[s] = n /\ begun' \in [Sessions -> Nat] /\ begun[s] \in Nat
  BY <1>0 DEF TypeOK, SessionOK, Busy
<1>2. down = FALSE
  BY <1>0 DEF TypeOK
<1>3. ~gone[s] => begun[s] = IF Busy(s) THEN Given(s) + 1 ELSE Given(s)
  BY <1>0, <1>2 DEF SessionOK
<1>4. Busy(s) <=> pc[s] # "line"
  BY DEF Busy, Reading, Running
<1>5. ~gone[s] => n = Given(s) + 1
  BY <1>3, <1>4
<1>6. /\ begun'[s] <= Len(sent'[s]) /\ begun'[s] >= 1 /\ gone'[s] = gone[s]
      /\ ~gone[s] => begun'[s] = Given(s) + 1
  BY <1>1, <1>5
<1>7. CASE Terminate
  <2>1. UNCHANGED <<status, core, pc, output_buf, writes, replies, sent, taken, gone>> /\ down'
    BY <1>7 DEF Terminate, cache, output
  <2>2. TypeOK' /\ StatusOfCore' /\ OthersUnchanged(s)
    BY <1>0, <1>1, <1>7, <2>1 DEF TypeOK, StatusOfCore, OthersUnchanged, Terminate
  <2>3. SessionOK(s)'
    BY <1>0, <1>1, <2>1 DEF SessionOK, Busy
  <2>. QED
    BY <2>1, <2>2, <2>3, OneSession
<1>8. ASSUME NEW p \in Reading, At(s, p), UNCHANGED <<cache, output, down>>
      PROVE  IInv'
  <2>1. /\ UNCHANGED <<status, core, output_buf, writes, replies, sent, taken, gone, down>>
        /\ pc' = [pc EXCEPT ![s] = p]
    BY <1>8 DEF cache, output, At
  <2>2. TypeOK' /\ StatusOfCore' /\ OthersUnchanged(s) /\ pc'[s] = p
    BY <1>0, <1>1, <2>1 DEF TypeOK, StatusOfCore, OthersUnchanged, Places, Reading
  <2>3. Busy(s)' /\ pc'[s] # "ended" /\ Given(s)' = Given(s)
    BY <2>1, <2>2 DEF Busy, Reading, Given
  <2>4. SessionOK(s)'
    BY <1>0, <1>1, <1>5, <2>1, <2>3 DEF SessionOK
  <2>. QED
    BY <2>1, <2>2, <2>4, OneSession
<1>9. CASE Execute(s, sent[s][n])
  <2>1. sent[s][n] \in Commands
    BY <1>0, <1>1 DEF TypeOK
  <2>2. /\ status' \in {"UNINITIALIZED", "INITIALIZED", "READY"}
        /\ core' \in {"none", "untrained", "trained"}
        /\ StatusOfCore'
        /\ pc' \in [Sessions -> Places]
        /\ output_buf' \in [Sessions -> Commands \cup {"none"}]
        /\ writes' \in [Sessions -> Seq(Commands)]
        /\ replies' \in [Sessions -> Seq(Answer)]
        /\ \A t \in Sessions \ {s} : /\ pc'[t] = pc[t]
                                     /\ output_buf'[t] = output_buf[t]
                                     /\ writes'[t] = writes[t]
                                     /\ replies'[t] = replies[t]
        /\ \/ down' = TRUE /\ UNCHANGED <<pc, output>>
           \/ /\ down' = FALSE
              /\ pc'[s] \in Running
              /\ UNCHANGED output
           \/ /\ down' = FALSE
              /\ pc'[s] = "line"
              /\ output_buf'[s] = sent[s][n]
              /\ ~gone[s] => Given(s)' = Given(s) + 1
    BY <1>9, <2>1, ExecuteOnce
  <2>3. TypeOK'
    BY <1>0, <1>1, <2>2 DEF TypeOK
  <2>4. OthersUnchanged(s)
    BY <1>0, <2>2 DEF OthersUnchanged, TypeOK
  <2>5. SessionOK(s)'
    <3>1. CASE down' = TRUE /\ UNCHANGED <<pc, output>>
      <4>1. pc' = pc /\ output_buf' = output_buf /\ writes' = writes /\ down'
        BY <3>1 DEF output
      <4>. QED
        BY <1>0, <1>6, <4>1 DEF SessionOK
    <3>2. CASE down' = FALSE /\ pc'[s] \in Running /\ UNCHANGED output
      <4>1. /\ Busy(s)' /\ pc'[s] # "ended" /\ Given(s)' = Given(s)
            /\ output_buf' = output_buf /\ writes' = writes
        BY <3>2 DEF Busy, Running, Given, output
      <4>. QED
        BY <1>0, <1>6, <4>1 DEF SessionOK
    <3>3. CASE /\ down' = FALSE
               /\ pc'[s] = "line"
               /\ output_buf'[s] = sent[s][n]
               /\ ~gone[s] => Given(s)' = Given(s) + 1
      <4>1. ~Busy(s)' /\ pc'[s] # "ended" /\ output_buf'[s] \in Commands
        BY <2>1, <3>3 DEF Busy, Reading, Running
      <4>2. ~gone[s] => begun'[s] = Given(s)'
        BY <1>6, <3>3
      <4>. QED
        BY <1>6, <4>1, <4>2 DEF SessionOK
    <3>. QED
      BY <2>2, <3>1, <3>2, <3>3
  <2>. QED
    BY <1>2, <2>2, <2>3, <2>4, <2>5, OneSession
<1>. QED
  BY <1>7, <1>8, <1>9

LEMMA ReadLineInv ==
    ASSUME IInv, NEW s \in Sessions, NEW n \in 0 .. 3, ReadLine(s, n)
    PROVE  IInv'
<1>1. TypeOK
  BY DEF IInv
<1>2. /\ ~down
      /\ pc[s] = "line"
      /\ begun[s] < Len(sent[s])
      /\ begun' = [begun EXCEPT ![s] = begun[s] + 1]
      /\ UNCHANGED <<sent, taken, gone>>
  BY DEF ReadLine, ThreadFree
<1>3. \/ Terminate
      \/ \E p \in Reading : At(s, p) /\ UNCHANGED <<cache, output, down>>
      \/ Execute(s, sent[s][begun[s] + 1])
  BY DEF ReadLine, Reading
<1>4. begun[s] + 1 \in Nat /\ begun[s] + 1 <= Len(sent[s])
  BY <1>1, <1>2 DEF TypeOK
<1>. QED
  BY <1>2, <1>3, <1>4, HandlerInv

LEMMA ReadArgumentsInv ==
    ASSUME IInv, NEW s \in Sessions, ReadHead(s) \/ ReadDynamic(s)
    PROVE  IInv'
<1>1. TypeOK /\ SessionOK(s)
  BY DEF IInv
<1>2. /\ ~down
      /\ pc[s] \in Reading
      /\ pc[s] # "line"
      /\ UNCHANGED <<sent, begun, taken, gone>>
  BY DEF ReadHead, ReadDynamic, ThreadFree, Reading
<1>3. \/ Terminate
      \/ \E p \in Reading : At(s, p) /\ UNCHANGED <<cache, output, down>>
      \/ Execute(s, sent[s][begun[s]])
  BY DEF ReadHead, ReadDynamic, Reading, Current
<1>4. begun[s] \in Nat /\ begun[s] <= Len(sent[s]) /\ begun' = [begun EXCEPT ![s] = begun[s]]
  BY <1>1, <1>2 DEF TypeOK, SessionOK
<1>. QED
  BY <1>2, <1>3, <1>4, HandlerInv

LEMMA NextInv == IInv /\ [Next]_vars => IInv'
<1>. SUFFICES ASSUME IInv, [Next]_vars PROVE IInv'
  OBVIOUS
<1>1. ASSUME NEW s \in Sessions, Common(s) PROVE IInv'
  <2>1. CASE Connect(s) \/ Receive(s) \/ Hangup(s) \/ Accept(s) \/ ReadError(s)
    BY <2>1, ClientInv
  <2>2. CASE ReadDynamic(s)
    BY <2>2, ReadArgumentsInv
  <2>3. CASE ProxyAnswers(s)
    BY <2>3, ProxyAnswersInv
  <2>4. CASE SearchWrites(s)
    BY <2>4, SearchWritesInv
  <2>5. CASE Transmit(s)
    BY <2>5, TransmitInv
  <2>. QED
    BY <1>1, <2>1, <2>2, <2>3, <2>4, <2>5 DEF Common
<1>2. ASSUME NEW s \in Sessions, NEW c \in Commands, Send(s, c) PROVE IInv'
  BY <1>2, ClientInv
<1>3. ASSUME NEW s \in Sessions, NEW n \in 0 .. 3, ReadLine(s, n) PROVE IInv'
  BY <1>3, ReadLineInv
<1>4. ASSUME NEW s \in Sessions, ReadHead(s) PROVE IInv'
  BY <1>4, ReadArgumentsInv
<1>5. CASE UNCHANGED vars
  BY <1>5 DEF vars, cache, output, IInv, TypeOK, StatusOfCore, SessionOK, Busy, Given
<1>. QED
  BY <1>1, <1>2, <1>3, <1>4, <1>5 DEF Next

-----------------------------------------------------------------------------
(* The inductive invariant holds of every behaviour. *)
THEOREM ServerInvariance == Spec => []IInv
BY InitInv, NextInv, PTL DEF Spec

(* The members of Cache, Session and TcpServer keep their types in every    *)
(* interleaving of handlers (session.cpp, cache.cpp).                       *)
THEOREM ServerTypeCorrect == Spec => []TypeOK
<1>1. IInv => TypeOK
  BY DEF IInv
<1>. QED
  BY <1>1, ServerInvariance, PTL

(* Cache::status says which core there is: READY over a trained one only    *)
(* (cache.cpp:43-86, Cache's handlers of INITIALIZE and TRAIN).             *)
THEOREM StatusDescribesCore == Spec => []StatusOfCore
<1>1. IInv => StatusOfCore
  BY DEF IInv
<1>. QED
  BY <1>1, ServerInvariance, PTL

(* No command is left without an answer or answered twice, whatever the     *)
(* interleaving, the pipelining and the state of the sockets (session.cpp:  *)
(* read_command, process_args and send_output).                             *)
THEOREM EachAnsweredOnce == Spec => []AnsweredOnce
BY ServerInvariance, AnsweredOnceOfIInv, PTL
=============================================================================
