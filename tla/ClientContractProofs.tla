------------------------- MODULE ClientContractProofs -------------------------
(***************************************************************************)
(* Theorems about Client used by a program that keeps the contract: it     *)
(* awaits each call before the next, and its ids are Latin-1.  At the end, *)
(* the proof that Client then implements RemoteCalls: a call's steps map   *)
(* to its beginning, its end or nothing, and the server's run of a command *)
(* to the command's effect.                                                *)
(***************************************************************************)
EXTENDS ClientProofs, ClientRefinement

Busy(c) == pc[c] \notin {"idle", "done"}
Open == {"up", "fin", "stale"}

(* One call at a time is in progress, and can be sent. *)
Program ==
    /\ \A c, d \in Calls : Busy(c) /\ Busy(d) => c = d
    /\ \A c \in Calls : pc[c] # "idle" => Unsendable[c] = 0

(* The connection taken for open has the only socket that may be open. *)
Joined ==
    /\ connected => writer # None /\ link[writer] \in Open \cup {"reset"}
    /\ ~connected /\ writer # None => link[writer] \in {"reset", "closed", "dead"}
    /\ \A s \in Sockets : s # writer => link[s] \notin Open
    /\ \A s \in Sockets : link[s] = "new" <=> s > opened

(* The call in progress is on that connection, and never opens a second:    *)
(* send() only fails on a reset, and then its close() raises.               *)
Stands(c) ==
    /\ pc[c] \notin {"reopening", "redraining"}
    /\ pc[c] = "connecting" => ~connected
    /\ pc[c] \in {"draining", "reading", "broken"} => connected /\ mine[c] = writer
    /\ pc[c] \in {"reclosing", "closing"} => ~connected /\ writer # None /\ mine[c] = writer
    /\ pc[c] \in {"broken", "reclosing"} => link[writer] = "reset"
Standing == \A c \in Calls : Stands(c)

Connection == Program /\ Joined /\ Standing

(* What TypeOK says of where things are. *)
LEMMA Typed ==
    ASSUME TypeOK
    PROVE  /\ pc \in [Calls -> Places]
           /\ mine \in [Calls -> 0 .. opened]
           /\ frag \in [Calls -> Nat]
           /\ outcome \in [Calls -> Outcomes]
           /\ link \in [Sockets -> Links]
           /\ inbox \in [Sockets -> Seq(Fragment)]
           /\ outbox \in [Sockets -> Seq(Unit)]
           /\ owed \in [Sockets -> Seq(Calls)]
           /\ got \in [Calls -> Seq(Unit)]
           /\ parse \in [Calls -> Parse]
           /\ ran \in [Calls -> Nat]
           /\ answered \in [Calls -> Nat]
           /\ connected \in BOOLEAN
           /\ opened \in Nat /\ opened <= MaxSockets
           /\ writer \in 0 .. opened
           /\ writer # None => writer \in Sockets
<1>1. opened \in 0 .. MaxSockets /\ writer \in 0 .. opened
  BY DEF TypeOK
<1>2. /\ opened \in Nat /\ opened <= MaxSockets
      /\ writer # None => writer \in Sockets
  BY <1>1, Bounds DEF Sockets, None
<1> QED
  BY <1>1, <1>2 DEF TypeOK, Links, Parse

-----------------------------------------------------------------------------
(* What each step of a call does under the contract *)

Raised(c) == \E r \in Outcomes \ {"none", "ok"} : Return(c, r)

(* A fragment is written, or the connection is found to be reset. *)
Sent(c, i, s, lk) ==
    /\ frag' = [frag EXCEPT ![c] = i]
    /\ \/ /\ lk[s] \in Open
          /\ link' = [lk EXCEPT ![s] = IF @ = "up" THEN "up" ELSE "stale"]
          /\ Await(c, "draining", s)
       \/ /\ lk[s] \in {"stale", "reset"}
          /\ link' = [lk EXCEPT ![s] = "reset"]
          /\ Await(c, "broken", s)

Closes(c) ==
    /\ connected' = FALSE
    /\ link' = [link EXCEPT ![writer] = Shut(@)]
    /\ Await(c, "closing", writer)

LEMMA sendSent ==
    ASSUME NEW c \in Calls, NEW i \in Nat \ {0}, NEW s \in Sockets, NEW lk \in [Sockets -> Links],
           Unsendable[c] = 0, lk[s] \in Open \cup {"reset"}, send(c, i, s, lk)
    PROVE  Sent(c, i, s, lk)
<1>1. s # None
  BY DEF Sockets, None
<1>2. write(c, i, s, lk, "draining")
  BY <1>1 DEF send
<1>3. CASE /\ lk[s] \in {"up", "fin", "stale"}
           /\ link' = [lk EXCEPT ![s] = IF @ = "up" THEN "up" ELSE "stale"]
           /\ Await(c, "draining", s)
  BY <1>2, <1>3 DEF write, Sent, Open
<1>4. CASE /\ lk[s] \in {"stale", "reset", "closed", "dead"}
           /\ link' = [lk EXCEPT ![s] = IF @ = "stale" THEN "reset" ELSE @]
           /\ Await(c, "broken", s)
  <2>1. lk[s] \in {"stale", "reset"}
    BY <1>4 DEF Open
  <2>2. link' = [lk EXCEPT ![s] = "reset"]
    BY <1>4, <2>1
  <2> QED
    BY <1>2, <1>4, <2>1, <2>2 DEF write, Sent
<1> QED
  BY <1>2, <1>3, <1>4 DEF write

LEMMA BeginSent ==
    ASSUME NEW c \in Calls, NEW s \in Sockets, NEW lk \in [Sockets -> Links],
           Unsendable[c] = 0, lk[s] \in Open \cup {"reset"}, Begin(c, s, lk)
    PROVE  \/ c \in Mismatched /\ Raised(c) /\ link' = lk /\ UNCHANGED frag
           \/ c \notin Mismatched /\ Sent(c, 1, s, lk)
<1>1. "AssertionError" \in Outcomes \ {"none", "ok"}
  BY DEF Outcomes
<1> QED
  BY <1>1, sendSent DEF Begin, Raised

LEMMA closeCloses ==
    ASSUME writer # None, NEW c, NEW units, close(c, units)
    PROVE  Closes(c)
  BY DEF close, Closes

(* No one else waits for data. *)
LEMMA receiveWaits ==
    ASSUME TypeOK, Connection, NEW c \in Calls, Busy(c), writer # None, receive(c)
    PROVE  Await(c, "reading", writer)
<1>1. ~Contended(c)
  BY DEF Contended, Connection, Program, Busy
<1> QED
  BY <1>1 DEF receive

LEMMA StartContract ==
    ASSUME TypeOK, Connection, NEW c \in Calls, Unsendable[c] = 0, Start(c)
    PROVE  \/ /\ connected
              /\ \/ c \in Mismatched /\ Raised(c) /\ UNCHANGED <<link, frag>>
                 \/ c \notin Mismatched /\ Sent(c, 1, writer, link)
           \/ ~connected /\ Await(c, "connecting", None) /\ UNCHANGED <<link, frag>>
<1>1. CASE connected /\ Begin(c, writer, link)
  <2>1. writer \in Sockets /\ link[writer] \in Open \cup {"reset"} /\ link \in [Sockets -> Links]
    BY <1>1, Typed DEF Connection, Joined
  <2> QED
    BY <1>1, <2>1, BeginSent
<1>2. CASE ~connected /\ Await(c, "connecting", None) /\ UNCHANGED <<link, frag>>
  BY <1>2
<1> QED
  BY <1>1, <1>2 DEF Start

LEMMA OpenedContract ==
    ASSUME TypeOK, Connection, NEW c \in Calls, Opened(c)
    PROVE  /\ pc[c] = "connecting"
           /\ opened + 1 \in Sockets
           /\ link[opened + 1] = "new"
           /\ link' = [link EXCEPT ![opened + 1] = "up"]
           /\ \/ c \in Mismatched /\ Raised(c) /\ UNCHANGED frag
              \/ /\ c \notin Mismatched
                 /\ frag' = [frag EXCEPT ![c] = 1]
                 /\ Await(c, "draining", opened + 1)
<1>1. pc[c] = "connecting"
  BY DEF Opened, Connection, Standing, Stands
<1>2. opened + 1 \in Sockets /\ link \in [Sockets -> Links] /\ opened + 1 > opened
  <2>1. link \in [Sockets -> Links] /\ opened \in Nat
    BY Typed
  <2>2. opened < MaxSockets
    BY DEF Opened
  <2> QED
    BY <2>1, <2>2, Bounds DEF Sockets
<1>3. link[opened + 1] = "new"
  BY <1>2 DEF Connection, Joined
<1> DEFINE lk == [link EXCEPT ![opened + 1] = "up"]
<1>4. lk \in [Sockets -> Links] /\ lk[opened + 1] = "up"
  BY <1>2 DEF Links
<1>5. Begin(c, opened + 1, lk)
  BY <1>1 DEF Opened
<1>6. Unsendable[c] = 0
  BY <1>1 DEF Connection, Program
<1>7. [lk EXCEPT ![opened + 1] = "up"] = lk
  BY <1>4
<1> HIDE DEF lk
<1>8. \/ c \in Mismatched /\ Raised(c) /\ link' = lk /\ UNCHANGED frag
      \/ c \notin Mismatched /\ Sent(c, 1, opened + 1, lk)
  BY <1>2, <1>4, <1>5, <1>6, BeginSent DEF Open
<1>9. CASE Sent(c, 1, opened + 1, lk)
  <2>1. link' = [lk EXCEPT ![opened + 1] = IF @ = "up" THEN "up" ELSE "stale"] /\ Await(c, "draining", opened + 1)
    BY <1>4, <1>9 DEF Sent
  <2>2. link' = lk
    BY <1>4, <1>7, <2>1
  <2> QED
    BY <1>1, <1>2, <1>3, <1>8, <1>9, <2>1, <2>2 DEF Sent, lk
<1> QED
  BY <1>1, <1>2, <1>3, <1>8, <1>9 DEF lk

LEMMA RefusedContract ==
    ASSUME TypeOK, Connection, NEW c \in Calls, Refused(c)
    PROVE  /\ pc[c] = "connecting"
           /\ Raised(c)
           /\ UNCHANGED <<conn, inbox, outbox, frag, parse, got, server>>
           /\ \/ writer = None /\ UNCHANGED link
              \/ writer # None /\ link' = [link EXCEPT ![writer] = Shut(@)]
<1>1. pc[c] = "connecting"
  BY DEF Refused, Connection, Standing, Stands
<1>2. {"PeriplusConnectionError", "ConnectionResetError", "ConnectionError"} \subseteq Outcomes \ {"none", "ok"}
  BY DEF Outcomes
<1> QED
  BY <1>1, <1>2 DEF Refused, Raised

LEMMA DrainedContract ==
    ASSUME TypeOK, Connection, NEW c \in Calls, Drained(c)
    PROVE  /\ pc[c] = "draining" /\ connected /\ mine[c] = writer /\ writer \in Sockets
           /\ link[writer] \in Open
           /\ inbox' = IF link[writer] = "up"
                       THEN [inbox EXCEPT ![writer] = Append(@, [call |-> c, n |-> frag[c]])]
                       ELSE inbox
           /\ \/ frag[c] < Fragments(c) /\ Sent(c, frag[c] + 1, writer, link) /\ UNCHANGED conn
              \/ /\ frag[c] = Fragments(c) /\ UNCHANGED <<writer, opened, frag>>
                 /\ \/ Op[c] = "SEARCH" /\ parse[c] = NoParse /\ Closes(c)
                    \/ /\ ~(Op[c] = "SEARCH" /\ parse[c] = NoParse)
                       /\ Await(c, "reading", writer) /\ UNCHANGED <<connected, link>>
<1>1. pc[c] = "draining"
  BY DEF Drained, Connection, Standing, Stands
<1>2. connected /\ mine[c] = writer /\ writer # None /\ Unsendable[c] = 0 /\ Busy(c)
  BY <1>1 DEF Connection, Standing, Stands, Joined, Program, Busy
<1>3. writer \in Sockets /\ link \in [Sockets -> Links]
  BY <1>2, Typed
<1>4. link[writer] \in Open
  BY <1>2 DEF Drained, Connection, Joined
<1>5. inbox' = IF link[writer] = "up"
               THEN [inbox EXCEPT ![writer] = Append(@, [call |-> c, n |-> frag[c]])]
               ELSE inbox
  <2>1. link[writer] \in {"up", "closed"} <=> link[writer] = "up"
    BY <1>4 DEF Open
  <2> QED
    BY <1>2, <2>1 DEF Drained
<1>6. CASE frag[c] < Fragments(c) /\ send(c, frag[c] + 1, writer, link) /\ UNCHANGED conn
  <2>1. frag[c] + 1 \in Nat \ {0}
    BY Typed
  <2>2. Sent(c, frag[c] + 1, writer, link)
    BY <1>2, <1>3, <1>4, <1>6, <2>1, sendSent
  <2> QED
    BY <1>1, <1>2, <1>3, <1>4, <1>5, <1>6, <2>2
<1>7. CASE /\ frag[c] = Fragments(c) /\ UNCHANGED <<frag, writer, opened>>
           /\ Op[c] = "SEARCH" /\ parse[c] = NoParse /\ close(c, <<>>)
  BY <1>1, <1>2, <1>3, <1>4, <1>5, <1>7, closeCloses
<1>8. CASE /\ frag[c] = Fragments(c) /\ UNCHANGED <<frag, writer, opened>>
           /\ ~(Op[c] = "SEARCH" /\ parse[c] = NoParse) /\ receive(c) /\ UNCHANGED <<connected, link>>
  BY <1>1, <1>2, <1>3, <1>4, <1>5, <1>8, receiveWaits
<1> QED
  BY <1>6, <1>7, <1>8 DEF Drained

LEMMA RecloseContract ==
    ASSUME TypeOK, Connection, NEW c \in Calls, Reclose(c)
    PROVE  /\ pc[c] \in {"draining", "broken"} /\ connected /\ mine[c] = writer /\ writer \in Sockets
           /\ link[writer] = "reset"
           /\ connected' = FALSE
           /\ UNCHANGED <<writer, opened, link, inbox, outbox, frag, parse, got, server, clean, faults>>
           /\ Await(c, "reclosing", writer)
<1>1. pc[c] \in {"draining", "broken"} /\ connected /\ mine[c] = writer /\ writer # None
  BY DEF Reclose, Connection, Standing, Stands, Joined
<1>2. writer \in Sockets /\ link \in [Sockets -> Links]
  BY <1>1, Typed
<1>3. link[writer] = "reset"
  BY <1>1 DEF Reclose, Connection, Standing, Stands
<1>4. link' = [link EXCEPT ![writer] = Shut(@)] /\ Await(c, "reclosing", writer)
  BY <1>1 DEF Reclose
<1>5. UNCHANGED link
  BY <1>2, <1>3, <1>4 DEF Shut
<1> QED
  BY <1>1, <1>2, <1>3, <1>4, <1>5 DEF Reclose

LEMMA WaitClosedContract ==
    ASSUME TypeOK, Connection, NEW c \in Calls, WaitClosed(c)
    PROVE  /\ pc[c] \in {"closing", "reclosing"} /\ ~connected /\ mine[c] = writer /\ writer \in Sockets
           /\ UNCHANGED <<connected, opened, net, frag, parse, got, server, clean, faults>>
           /\ \/ link[writer] = "reset" /\ Raised(c) /\ UNCHANGED writer
              \/ /\ link[writer] \in {"closed", "dead"} /\ writer' = None
                 /\ pc[c] = "closing" /\ \E r \in Results(c, got[c]) : Return(c, r)
<1>1. pc[c] \in {"closing", "reclosing"} /\ ~connected /\ mine[c] = writer /\ writer # None
  BY DEF WaitClosed, Connection, Standing, Stands
<1>2. writer \in Sockets
  BY <1>1, Typed
<1>3. pc[c] = "reclosing" => link[writer] = "reset"
  BY DEF Connection, Standing, Stands
<1>4. link[writer] \in {"reset", "closed", "dead"}
  BY <1>1 DEF Connection, Joined
<1>5. "ConnectionResetError" \in Outcomes \ {"none", "ok"}
  BY DEF Outcomes
<1> QED
  BY <1>1, <1>2, <1>3, <1>4, <1>5 DEF WaitClosed, Raised

LEMMA ReadFailsContract ==
    ASSUME TypeOK, Connection, NEW c \in Calls, ReadFails(c)
    PROVE  /\ pc[c] = "reading" /\ mine[c] = writer /\ writer \in Sockets /\ link[writer] = "reset"
           /\ Raised(c)
           /\ UNCHANGED <<conn, net, frag, parse, got, server, clean, faults>>
<1>1. pc[c] = "reading" /\ mine[c] = writer /\ writer # None
  BY DEF ReadFails, Connection, Standing, Stands, Joined
<1>2. writer \in Sockets
  BY <1>1, Typed
<1>3. "ConnectionResetError" \in Outcomes \ {"none", "ok"}
  BY DEF Outcomes
<1> QED
  BY <1>1, <1>2, <1>3 DEF ReadFails, Raised

LEMMA ReadTextContract ==
    ASSUME TypeOK, Connection, NEW c \in Calls, NEW n, ReadText(c, n)
    PROVE  /\ pc[c] = "reading" /\ connected /\ mine[c] = writer /\ writer \in Sockets
           /\ link[writer] \in Open
           /\ n <= Len(outbox[writer])
           /\ n = 0 => outbox[writer] = <<>> /\ link[writer] # "up"
           /\ outbox' = [outbox EXCEPT ![writer] = SubSeq(@, n + 1, Len(@))]
           /\ got' = [got EXCEPT ![c] = SubSeq(outbox[writer], 1, n)]
           /\ Closes(c)
           /\ UNCHANGED <<writer, opened, inbox, frag, parse, server, clean, faults>>
<1>1. pc[c] = "reading"
  BY DEF ReadText, Arrives
<1>2. connected /\ mine[c] = writer /\ writer # None
  BY <1>1 DEF Connection, Standing, Stands, Joined
<1>3. writer \in Sockets
  BY <1>2, Typed
<1>4. link[writer] \in Open
  BY <1>2 DEF ReadText, Arrives, Connection, Joined
<1>5. Closes(c)
  BY <1>2, closeCloses DEF ReadText
<1> QED
  BY <1>1, <1>2, <1>3, <1>4, <1>5 DEF ReadText, Arrives

(* A number in pieces, the end of the stream, a field that is not UTF-8. *)
Unreadable(c, n) ==
    \/ parse[c].need = 0 /\ n < Asked(parse[c])
    \/ parse[c].need > 0 /\ n = 0
    \/ /\ parse[c].need > 0 /\ n = parse[c].need
       /\ \E i \in 1 .. n : SubSeq(outbox[writer], 1, n)[i].part # "body"

LEMMA ReadRecordsContract ==
    ASSUME TypeOK, Connection, NEW c \in Calls, NEW n, ReadRecords(c, n)
    PROVE  /\ pc[c] = "reading" /\ connected /\ mine[c] = writer /\ writer \in Sockets
           /\ link[writer] \in Open
           /\ n <= Len(outbox[writer]) /\ n <= Asked(parse[c])
           /\ n = 0 => outbox[writer] = <<>> /\ link[writer] # "up"
           /\ outbox' = [outbox EXCEPT ![writer] = SubSeq(@, n + 1, Len(@))]
           /\ got' = [got EXCEPT ![c] = @ \o SubSeq(outbox[writer], 1, n)]
           /\ UNCHANGED <<writer, opened, inbox, frag, server, clean, faults>>
           /\ \/ Raised(c) /\ Unreadable(c, n) /\ UNCHANGED <<parse, connected, link>>
              \/ \E q \in Parsed(parse[c], SubSeq(outbox[writer], 1, n)) :
                    /\ n > 0 /\ (parse[c].need > 0 \/ n = Asked(parse[c]))
                    /\ parse' = [parse EXCEPT ![c] = q]
                    /\ \/ q = NoParse /\ Closes(c)
                       \/ q # NoParse /\ Await(c, "reading", writer) /\ UNCHANGED <<connected, link>>
<1>1. pc[c] = "reading"
  BY DEF ReadRecords, Arrives
<1>2. connected /\ mine[c] = writer /\ writer # None /\ Busy(c)
  BY <1>1 DEF Connection, Standing, Stands, Joined, Busy
<1>3. writer \in Sockets
  BY <1>2, Typed
<1>4. link[writer] \in Open
  BY <1>2 DEF ReadRecords, Arrives, Connection, Joined
<1>5. {"struct.error", "RuntimeError", "UnicodeDecodeError"} \subseteq Outcomes \ {"none", "ok"}
  BY DEF Outcomes
<1> DEFINE units == SubSeq(outbox[writer], 1, n)
<1>6. /\ n <= Len(outbox[writer]) /\ n <= Asked(parse[c])
      /\ n = 0 => outbox[writer] = <<>> /\ link[writer] # "up"
      /\ outbox' = [outbox EXCEPT ![writer] = SubSeq(@, n + 1, Len(@))]
      /\ got' = [got EXCEPT ![c] = @ \o units]
      /\ UNCHANGED <<writer, opened, inbox, frag, server, clean, faults>>
  BY <1>2 DEF ReadRecords, Arrives
<1>7. \/ \E r \in {"struct.error", "RuntimeError", "UnicodeDecodeError"} :
            Return(c, r) /\ Unreadable(c, n) /\ UNCHANGED <<parse, connected, link>>
      \/ \E q \in Parsed(parse[c], units) :
           /\ n > 0 /\ (parse[c].need > 0 \/ n = Asked(parse[c]))
           /\ parse' = [parse EXCEPT ![c] = q]
           /\ \/ q = NoParse /\ close(c, units)
              \/ q # NoParse /\ receive(c) /\ UNCHANGED <<connected, link>>
  BY <1>2 DEF ReadRecords, Unreadable
<1> HIDE DEF units
<1>8. \A u : close(c, u) => Closes(c)
  BY <1>2, closeCloses
<1>9. receive(c) => Await(c, "reading", writer)
  BY <1>2, receiveWaits
<1>10. \/ Raised(c) /\ Unreadable(c, n) /\ UNCHANGED <<parse, connected, link>>
       \/ \E q \in Parsed(parse[c], units) :
            /\ n > 0 /\ (parse[c].need > 0 \/ n = Asked(parse[c]))
            /\ parse' = [parse EXCEPT ![c] = q]
            /\ \/ q = NoParse /\ Closes(c)
               \/ q # NoParse /\ Await(c, "reading", writer) /\ UNCHANGED <<connected, link>>
  BY <1>5, <1>7, <1>8, <1>9 DEF Raised
<1> QED
  BY <1>1, <1>2, <1>3, <1>4, <1>6, <1>10 DEF units

-----------------------------------------------------------------------------
(* Connection is inductive. *)

LEMMA InitConnection == Init => Connection
<1> SUFFICES ASSUME Init PROVE Connection
  OBVIOUS
<1>1. \A c \in Calls : pc[c] = "idle"
  BY DEF Init
<1>2. \A s \in Sockets : link[s] = "new" /\ s > opened
  BY Bounds DEF Init, Sockets
<1> QED
  BY <1>1, <1>2 DEF Init, Connection, Program, Joined, Standing, Stands, Busy, Open, None

(* Where the call is after its step. *)
LEMMA AwaitPlace ==
    ASSUME TypeOK, NEW c \in Calls, NEW place, NEW s, Await(c, place, s)
    PROVE  /\ pc'[c] = place /\ mine'[c] = s /\ UNCHANGED outcome
           /\ \A d \in Calls \ {c} : pc'[d] = pc[d] /\ mine'[d] = mine[d]
  BY Typed DEF Await

LEMMA ReturnPlace ==
    ASSUME TypeOK, NEW c \in Calls, NEW r, Return(c, r)
    PROVE  /\ pc'[c] = "done" /\ outcome'[c] = r
           /\ \A d \in Calls \ {c} : pc'[d] = pc[d] /\ mine'[d] = mine[d] /\ outcome'[d] = outcome[d]
  BY Typed DEF Return

LEMMA RaisedPlace ==
    ASSUME TypeOK, NEW c \in Calls, Raised(c)
    PROVE  /\ pc'[c] = "done" /\ outcome'[c] \notin {"none", "ok"}
           /\ \A d \in Calls \ {c} : pc'[d] = pc[d] /\ mine'[d] = mine[d] /\ outcome'[d] = outcome[d]
  BY ReturnPlace DEF Raised

LEMMA SentPlace ==
    ASSUME TypeOK, NEW c \in Calls, NEW i, NEW s \in Sockets, NEW lk \in [Sockets -> Links], Sent(c, i, s, lk)
    PROVE  /\ mine'[c] = s /\ UNCHANGED outcome
           /\ \A d \in Calls \ {c} : pc'[d] = pc[d] /\ mine'[d] = mine[d] /\ frag'[d] = frag[d]
           /\ frag'[c] = i
           /\ \A t \in Sockets \ {s} : link'[t] = lk[t]
           /\ \/ /\ pc'[c] = "draining" /\ lk[s] \in Open
                 /\ link'[s] = IF lk[s] = "up" THEN "up" ELSE "stale"
              \/ pc'[c] = "broken" /\ lk[s] \in {"stale", "reset"} /\ link'[s] = "reset"
  BY Typed, AwaitPlace DEF Sent

LEMMA ClosesPlace ==
    ASSUME TypeOK, NEW c \in Calls, writer \in Sockets, Closes(c)
    PROVE  /\ pc'[c] = "closing" /\ mine'[c] = writer /\ UNCHANGED outcome
           /\ \A d \in Calls \ {c} : pc'[d] = pc[d] /\ mine'[d] = mine[d]
           /\ connected' = FALSE
           /\ \A t \in Sockets \ {writer} : link'[t] = link[t]
           /\ link'[writer] = Shut(link[writer])
  BY Typed, AwaitPlace DEF Closes

(* One call moves, which was alone and can be sent. *)
LEMMA MovedConnection ==
    ASSUME TypeOK, Program, NEW c \in Calls, Unsendable[c] = 0,
           \A d \in Calls \ {c} : ~Busy(d) /\ pc'[d] = pc[d],
           Joined', Stands(c)'
    PROVE  Connection'
<1>1. \A d \in Calls \ {c} : Stands(d)' /\ ~Busy(d)'
  BY DEF Busy, Stands
<1>2. Program'
  BY <1>1 DEF Program, Busy
<1> QED
  BY <1>1, <1>2 DEF Connection, Standing

LEMMA Alone ==
    ASSUME Program, NEW c \in Calls, Busy(c)
    PROVE  Unsendable[c] = 0 /\ \A d \in Calls \ {c} : ~Busy(d)
  BY DEF Program, Busy

LEMMA IdleAlone == ASSUME Idle PROVE \A d \in Calls : ~Busy(d)
  BY DEF Idle, Busy

(* A write leaves the socket open, or reset. *)
LEMMA SentJoined ==
    ASSUME TypeOK, Connection, NEW c \in Calls, NEW i, Sent(c, i, writer, link), connected, UNCHANGED conn
    PROVE  Joined' /\ Stands(c)'
<1>1. writer \in Sockets /\ link \in [Sockets -> Links] /\ writer # None
  BY Typed DEF Connection, Joined
<1>2. link[writer] # "new" /\ link'[writer] # "new" /\ link'[writer] \in Open \cup {"reset"}
      /\ (pc'[c] = "broken" => link'[writer] = "reset")
      /\ pc'[c] \in {"draining", "broken"}
      /\ mine'[c] = writer /\ \A t \in Sockets \ {writer} : link'[t] = link[t]
  BY <1>1, SentPlace DEF Open
<1>3. UNCHANGED <<connected, writer, opened>>
  BY DEF conn
<1> QED
  BY <1>1, <1>2, <1>3 DEF Connection, Joined, Stands

LEMMA ClosesJoined ==
    ASSUME TypeOK, Connection, NEW c \in Calls, Closes(c), connected, writer \in Sockets,
           UNCHANGED <<writer, opened>>
    PROVE  Joined' /\ Stands(c)'
<1>1. writer # None /\ link[writer] \in Open \cup {"reset"}
  BY DEF Connection, Joined
<1>2. link'[writer] \in {"closed", "dead", "reset"} /\ link[writer] # "new"
  BY <1>1, ClosesPlace DEF Shut, Open
<1> QED
  BY <1>1, <1>2, ClosesPlace DEF Connection, Joined, Stands, Open

LEMMA SameJoined ==
    ASSUME TypeOK, Connection, UNCHANGED <<conn, link>>
    PROVE  Joined'
  BY DEF Connection, Joined, conn

LEMMA RaisedStands == ASSUME TypeOK, NEW c \in Calls, Raised(c) PROVE Stands(c)'
  BY RaisedPlace DEF Stands

LEMMA RaisedConnection ==
    ASSUME TypeOK, Connection, NEW c \in Calls, Unsendable[c] = 0, Raised(c), UNCHANGED <<conn, link>>,
           \A d \in Calls \ {c} : ~Busy(d)
    PROVE  Connection'
  BY SameJoined, RaisedStands, MovedConnection, RaisedPlace DEF Connection

LEMMA StartConnection ==
    ASSUME TypeOK, Connection, NEW c \in Calls, Idle, Unsendable[c] = 0, Start(c)
    PROVE  Connection'
<1>1. \A d \in Calls \ {c} : ~Busy(d)
  BY IdleAlone
<1>2. UNCHANGED conn
  BY DEF Start
<1>3. CASE Raised(c) /\ UNCHANGED <<link, frag>>
  BY <1>1, <1>2, <1>3, RaisedConnection
<1>4. CASE connected /\ Sent(c, 1, writer, link)
  <2>1. writer \in Sockets /\ link \in [Sockets -> Links]
    BY <1>4, Typed DEF Connection, Joined
  <2>2. \A d \in Calls \ {c} : pc'[d] = pc[d]
    BY <1>4, <2>1, SentPlace
  <2> QED
    BY <1>1, <1>2, <1>4, <2>2, SentJoined, MovedConnection DEF Connection
<1>5. CASE ~connected /\ Await(c, "connecting", None) /\ UNCHANGED <<link, frag>>
  <2>1. Joined' /\ ~connected'
    BY <1>2, <1>5, SameJoined DEF conn
  <2>2. pc'[c] = "connecting" /\ \A d \in Calls \ {c} : pc'[d] = pc[d]
    BY <1>5, AwaitPlace
  <2>3. Stands(c)'
    BY <2>1, <2>2 DEF Stands
  <2> QED
    BY <1>1, <2>1, <2>2, <2>3, MovedConnection DEF Connection
<1> QED
  BY <1>3, <1>4, <1>5, StartContract

LEMMA OpenedConnection ==
    ASSUME TypeOK, Connection, NEW c \in Calls, Opened(c)
    PROVE  Connection'
<1>1. /\ pc[c] = "connecting"
      /\ opened + 1 \in Sockets
      /\ link[opened + 1] = "new"
      /\ link' = [link EXCEPT ![opened + 1] = "up"]
  BY OpenedContract
<1>2. opened' = opened + 1 /\ writer' = opened + 1 /\ connected' = TRUE
  BY DEF Opened
<1>3. ~connected /\ Busy(c)
  BY <1>1 DEF Connection, Standing, Stands, Busy
<1>4. link \in [Sockets -> Links] /\ opened \in Nat /\ writer \in 0 .. opened /\ (writer # None => writer \in Sockets)
  BY Typed
<1>5. \A s \in Sockets : link[s] \notin Open
  <2>1. writer # None => link[writer] \notin Open
    BY <1>3 DEF Connection, Joined, Open
  <2> QED
    BY <1>4, <2>1 DEF Connection, Joined, None, Sockets
<1>6. /\ link'[opened + 1] = "up" /\ opened + 1 # None
      /\ \A s \in Sockets \ {opened + 1} : link'[s] = link[s]
  BY <1>1, <1>4 DEF None
<1>7. \A s \in Sockets : link'[s] = "new" <=> s > opened'
  <2> SUFFICES ASSUME NEW s \in Sockets PROVE link'[s] = "new" <=> s > opened + 1
    BY <1>2
  <2>1. s \in Int /\ (link[s] = "new" <=> s > opened)
    BY Bounds DEF Connection, Joined, Sockets
  <2>2. CASE s = opened + 1
    BY <1>4, <1>6, <2>2
  <2>3. CASE s # opened + 1
    BY <1>4, <1>6, <2>1, <2>3
  <2> QED
    BY <2>2, <2>3
<1>8. Joined'
  BY <1>2, <1>5, <1>6, <1>7 DEF Joined, Open
<1>9. Stands(c)' /\ \A d \in Calls \ {c} : pc'[d] = pc[d]
  <2>1. CASE Raised(c)
    BY <2>1, RaisedPlace DEF Stands
  <2>2. CASE Await(c, "draining", opened + 1)
    BY <1>2, <2>2, AwaitPlace DEF Stands
  <2> QED
    BY <2>1, <2>2, OpenedContract
<1> QED
  BY <1>3, <1>8, <1>9, Alone, MovedConnection DEF Connection

LEMMA RefusedConnection ==
    ASSUME TypeOK, Connection, NEW c \in Calls, Refused(c)
    PROVE  Connection'
<1>1. /\ pc[c] = "connecting" /\ Raised(c) /\ UNCHANGED conn
      /\ \/ writer = None /\ UNCHANGED link
         \/ writer # None /\ link' = [link EXCEPT ![writer] = Shut(@)]
  BY RefusedContract
<1>2. ~connected /\ Busy(c)
  BY <1>1 DEF Connection, Standing, Stands, Busy
<1>3. CASE UNCHANGED link
  BY <1>1, <1>2, <1>3, Alone, RaisedConnection DEF Connection
<1>4. CASE writer # None /\ link' = [link EXCEPT ![writer] = Shut(@)]
  <2>1. writer \in Sockets /\ link \in [Sockets -> Links] /\ link[writer] \in {"reset", "closed", "dead"}
    BY <1>2, <1>4, Typed DEF Connection, Joined
  <2>2. link'[writer] \in {"reset", "dead"} /\ \A s \in Sockets \ {writer} : link'[s] = link[s]
    BY <1>4, <2>1 DEF Shut
  <2>3. Joined'
    BY <1>1, <1>2, <2>1, <2>2 DEF Connection, Joined, Open, conn
  <2> QED
    BY <1>1, <1>2, <2>3, Alone, RaisedStands, RaisedPlace, MovedConnection DEF Connection
<1> QED
  BY <1>1, <1>3, <1>4

LEMMA DrainedConnection ==
    ASSUME TypeOK, Connection, NEW c \in Calls, Drained(c)
    PROVE  Connection'
<1>1. pc[c] = "draining" /\ connected /\ mine[c] = writer /\ writer \in Sockets
  BY DrainedContract
<1>2. Busy(c) /\ link \in [Sockets -> Links] /\ writer # None
  BY <1>1, Typed DEF Busy, Connection, Joined
<1>3. CASE Sent(c, frag[c] + 1, writer, link) /\ UNCHANGED conn
  BY <1>1, <1>2, <1>3, Alone, SentPlace, SentJoined, MovedConnection DEF Connection
<1>4. CASE Closes(c) /\ UNCHANGED <<writer, opened>>
  BY <1>1, <1>2, <1>4, Alone, ClosesPlace, ClosesJoined, MovedConnection DEF Connection
<1>5. CASE Await(c, "reading", writer) /\ UNCHANGED <<connected, writer, opened, link>>
  <2>1. Joined'
    BY <1>5, SameJoined DEF conn
  <2>2. Stands(c)'
    BY <1>1, <1>5, AwaitPlace DEF Stands
  <2> QED
    BY <1>2, <1>5, <2>1, <2>2, Alone, AwaitPlace, MovedConnection DEF Connection
<1> QED
  BY <1>3, <1>4, <1>5, DrainedContract

LEMMA RecloseConnection ==
    ASSUME TypeOK, Connection, NEW c \in Calls, Reclose(c)
    PROVE  Connection'
<1>1. /\ pc[c] \in {"draining", "broken"} /\ connected /\ mine[c] = writer /\ writer \in Sockets
      /\ link[writer] = "reset" /\ connected' = FALSE /\ UNCHANGED <<writer, opened, link>>
      /\ Await(c, "reclosing", writer)
  BY RecloseContract
<1>2. Busy(c) /\ writer # None
  BY <1>1 DEF Busy, Connection, Joined
<1>3. Joined'
  BY <1>1, <1>2 DEF Connection, Joined
<1>4. Stands(c)'
  BY <1>1, <1>2, AwaitPlace DEF Stands
<1> QED
  BY <1>1, <1>2, <1>3, <1>4, Alone, AwaitPlace, MovedConnection DEF Connection

LEMMA WaitClosedConnection ==
    ASSUME TypeOK, Connection, NEW c \in Calls, WaitClosed(c)
    PROVE  Connection'
<1>1. /\ pc[c] \in {"closing", "reclosing"} /\ ~connected /\ writer \in Sockets
      /\ UNCHANGED <<connected, opened, link>>
  BY WaitClosedContract DEF net
<1>2. Busy(c)
  BY <1>1 DEF Busy
<1>3. CASE Raised(c) /\ UNCHANGED writer
  BY <1>1, <1>2, <1>3, Alone, RaisedConnection DEF Connection, conn
<1>4. CASE link[writer] \in {"closed", "dead"} /\ writer' = None /\ \E r : Return(c, r)
  <2>1. Joined'
    BY <1>1, <1>4 DEF Connection, Joined, Open
  <2>2. pc'[c] = "done" /\ \A d \in Calls \ {c} : pc'[d] = pc[d]
    BY <1>4, ReturnPlace
  <2>3. Stands(c)'
    BY <2>2 DEF Stands
  <2> QED
    BY <1>2, <2>1, <2>2, <2>3, Alone, MovedConnection DEF Connection
<1> QED
  BY <1>3, <1>4, WaitClosedContract

LEMMA ReadFailsConnection ==
    ASSUME TypeOK, Connection, NEW c \in Calls, ReadFails(c)
    PROVE  Connection'
  BY ReadFailsContract, Alone, RaisedConnection DEF Connection, Busy, net

LEMMA ReadTextConnection ==
    ASSUME TypeOK, Connection, NEW c \in Calls, NEW n, ReadText(c, n)
    PROVE  Connection'
<1>1. /\ pc[c] = "reading" /\ connected /\ writer \in Sockets
      /\ Closes(c) /\ UNCHANGED <<writer, opened>>
  BY ReadTextContract
<1>2. Busy(c)
  BY <1>1 DEF Busy
<1> QED
  BY <1>1, <1>2, Alone, ClosesPlace, ClosesJoined, MovedConnection DEF Connection

LEMMA ReadRecordsConnection ==
    ASSUME TypeOK, Connection, NEW c \in Calls, NEW n, ReadRecords(c, n)
    PROVE  Connection'
<1>1. pc[c] = "reading" /\ connected /\ mine[c] = writer /\ writer \in Sockets /\ UNCHANGED <<writer, opened>>
  BY ReadRecordsContract
<1>2. Busy(c)
  BY <1>1 DEF Busy
<1>3. CASE Raised(c) /\ UNCHANGED <<connected, link>>
  BY <1>1, <1>2, <1>3, Alone, RaisedConnection DEF Connection, conn
<1>4. CASE Closes(c)
  BY <1>1, <1>2, <1>4, Alone, ClosesPlace, ClosesJoined, MovedConnection DEF Connection
<1>5. CASE Await(c, "reading", writer) /\ UNCHANGED <<connected, link>>
  <2>1. Joined'
    BY <1>1, <1>5, SameJoined DEF conn
  <2>2. Stands(c)'
    BY <1>1, <1>5, AwaitPlace DEF Stands
  <2> QED
    BY <1>2, <1>5, <2>1, <2>2, Alone, AwaitPlace, MovedConnection DEF Connection
<1> QED
  BY <1>3, <1>4, <1>5, ReadRecordsContract

(* Outside of the client, connections only fall. *)
Falls ==
    \A s \in Sockets :
        \/ link'[s] = link[s]
        \/ link[s] \in {"up", "fin"} /\ link'[s] \in {"fin", "reset"}
        \/ link[s] = "closed" /\ link'[s] = "dead"

LEMMA EndFalls == ASSUME TypeOK, End PROVE Falls
  BY DEF End, Falls

LEMMA CutFalls == ASSUME TypeOK, NEW s \in Sockets, Cut(s) PROVE Falls /\ UNCHANGED <<conn, call>>
  BY Typed DEF Cut, Falls

(* The only socket that may be open has a reference. *)
LEMMA NotCollected == ASSUME Connection, NEW s \in Sockets PROVE ~Collect(s)
  BY DEF Connection, Joined, Open, Collect

LEMMA WorldFalls == ASSUME TypeOK, Connection, World PROVE Falls /\ UNCHANGED <<conn, call>>
<1>1. UNCHANGED link => Falls
  BY DEF Falls
<1>2. ASSUME NEW s \in Sockets, ServerStep(s) PROVE Falls /\ UNCHANGED <<conn, call>>
  <2>1. CASE RunCommand(s)
    BY <1>1, <2>1 DEF RunCommand
  <2>2. CASE RunGarbled(s)
    BY <1>1, <2>2, EndFalls DEF RunGarbled
  <2>3. CASE Reject(s)
    BY <2>3, EndFalls DEF Reject
  <2>4. CASE \E n \in -1 .. MaxHits : AnswerQuery(s, n)
    BY <1>1, <2>4 DEF AnswerQuery
  <2> QED
    BY <1>2, <2>1, <2>2, <2>3, <2>4 DEF ServerStep
<1>3. ASSUME NEW s \in Sockets, Cut(s) PROVE Falls /\ UNCHANGED <<conn, call>>
  BY <1>3, CutFalls
<1>4. CASE Crash
  BY <1>4, EndFalls DEF Crash
<1>5. CASE Restart
  BY <1>1, <1>5 DEF Restart, net
<1> QED
  BY <1>2, <1>3, <1>4, <1>5, NotCollected DEF World

LEMMA FallsConnection ==
    ASSUME TypeOK, Connection, Falls, UNCHANGED <<conn, call>>
    PROVE  Connection'
<1>1. UNCHANGED <<connected, writer, opened, pc, mine>>
  BY DEF conn, call
<1>2. writer # None => writer \in Sockets
  BY Typed
<1>3. \A s \in Sockets : /\ link[s] \in Open \cup {"reset"} => link'[s] \in Open \cup {"reset"}
                         /\ link[s] \in {"reset", "closed", "dead"} => link'[s] \in {"reset", "closed", "dead"}
                         /\ link[s] \notin Open => link'[s] \notin Open
                         /\ link'[s] = "new" <=> link[s] = "new"
                         /\ link[s] = "reset" => link'[s] = "reset"
  BY DEF Falls, Open
<1>4. Program'
  BY <1>1 DEF Connection, Program, Busy
<1>5. Joined'
  BY <1>1, <1>2, <1>3 DEF Connection, Joined
<1>6. ASSUME NEW c \in Calls PROVE Stands(c)'
  <2>1. Stands(c)
    BY DEF Connection, Standing
  <2>2. pc[c] \in {"broken", "reclosing"} => writer \in Sockets
    BY <1>2, <2>1 DEF Stands, Connection, Joined
  <2> QED
    BY <1>1, <1>3, <2>1, <2>2 DEF Stands
<1> QED
  BY <1>4, <1>5, <1>6 DEF Connection, Standing

(* A step of a program that keeps the contract: of one of its calls. *)
CallStep(c) == (Idle /\ Unsendable[c] = 0 /\ Start(c)) \/ Continue(c) \/ ReadWhole(c)

LEMMA RedrainNever == ASSUME Connection, NEW c \in Calls PROVE ~RedrainFails(c)
  BY DEF Connection, Standing, Stands, RedrainFails

LEMMA StepConnection ==
    ASSUME TypeOK, Connection, NEW c \in Calls, CallStep(c)
    PROVE  Connection'
<1>1. CASE Idle /\ Unsendable[c] = 0 /\ Start(c)
  BY <1>1, StartConnection
<1>2. CASE Continue(c)
  BY <1>2, OpenedConnection, RefusedConnection, DrainedConnection, RecloseConnection, RedrainNever,
     WaitClosedConnection, ReadFailsConnection, ReadTextConnection DEF Continue
<1>3. CASE ReadWhole(c)
  BY <1>3, ReadRecordsConnection DEF ReadWhole
<1> QED
  BY <1>1, <1>2, <1>3 DEF CallStep

LEMMA ContractSteps == ContractNext <=> World \/ \E c \in Calls : CallStep(c)
  BY DEF ContractNext, CallStep

LEMMA NextConnection ==
    ASSUME TypeOK, Connection, [ContractNext]_vars
    PROVE  Connection'
<1>1. CASE World
  BY <1>1, WorldFalls, FallsConnection
<1>2. ASSUME NEW c \in Calls, CallStep(c) PROVE Connection'
  BY <1>2, StepConnection
<1>3. CASE UNCHANGED vars
  BY <1>3 DEF vars, conn, net, call, Connection, Program, Busy, Joined, Standing, Stands
<1> QED
  BY <1>1, <1>2, <1>3, ContractSteps

(* What holds under no contract holds under this one. *)
LEMMA ContractIsSpec == ContractSpec => Spec
<1>1. ContractNext => Next
  BY DEF ContractNext, ReadWhole, Next
<1> QED
  BY <1>1, PTL DEF ContractSpec, Spec

(* Between two calls, a connection taken for open has a writer, which no    *)
(* one has closed: the flag, the writer and the socket never part.          *)
THEOREM ConnectionUsable == ContractSpec => []Usable
<1>1. Init => Connection
  BY InitConnection
<1>2. TypeOK /\ Connection /\ [ContractNext]_vars => Connection'
  BY NextConnection
<1>3. Connection => Usable
  BY DEF Connection, Joined, Usable, Open
<1> QED
  BY <1>1, <1>2, <1>3, ContractIsSpec, ClientTypeCorrect, PTL DEF ContractSpec
-----------------------------------------------------------------------------
(* What is on the connection under the contract: fragments of one command,  *)
(* then the reply to it.                                                    *)

Quiet(s) == inbox[s] = <<>> /\ outbox[s] = <<>> /\ owed[s] = <<>>

(* The first n fragments of c are what is in the inbox of s. *)
Holds(s, c, n) ==
    /\ Len(inbox[s]) = n
    /\ \A i \in 1 .. n : inbox[s][i] = [call |-> c, n |-> i]

Begun(c) == [queries |-> Queries[c], fields |-> 0, need |-> 0]

(* A server that has closed its end has read all or lost it. *)
Settled ==
    \A s \in Sockets :
        /\ link[s] \in {"fin", "stale"} => inbox[s] = <<>> /\ owed[s] = <<>>
        /\ link[s] = "new" => Quiet(s)

(* A connection that may be used again has nothing on it. *)
Resting == Idle /\ connected /\ link[writer] \in Open => Quiet(writer)

(* An inbox has fragments of one call, whose connection it was. *)
Inboxes ==
    \A s \in Sockets :
        \/ inbox[s] = <<>>
        \/ \E c \in Calls : \E n \in 1 .. Fragments(c) :
              /\ Holds(s, c, n)
              /\ pc[c] # "idle"
              /\ Busy(c) => s = writer /\ pc[c] # "connecting"

Prepared(c) ==
    /\ pc[c] \notin After => got[c] = <<>> /\ answered[c] = 0
    /\ pc[c] = "idle" => parse[c] = NoParse
    /\ pc[c] \in {"connecting", "draining"} => parse[c] = Begun(c)

Writing(c) ==
    pc[c] = "draining" =>
        /\ frag[c] \in 1 .. Fragments(c)
        /\ link[writer] = "up" => Holds(writer, c, frag[c] - 1)
        /\ link[writer] \in Open => outbox[writer] = <<>> /\ owed[writer] = <<>>

(* The server has not run the command. *)
Unasked(c) ==
    /\ ran[c] = 0 /\ answered[c] = 0 /\ got[c] = <<>> /\ parse[c] = Begun(c)
    /\ outbox[writer] = <<>> /\ owed[writer] = <<>>
    /\ link[writer] = "up" => Holds(writer, c, Fragments(c))

TextReply(c) ==
    /\ got[c] = <<>> /\ answered[c] = 1 /\ owed[writer] = <<>>
    /\ \/ link[writer] # "up" /\ outbox[writer] = <<>>
       \/ \E k \in {0, 1} : outbox[writer] = <<TextUnit(c, k)>> /\ (k = 0 => Op[c] = "LOAD")

(* Before and after every unit of V. *)
Marks == [Nat -> Nat]

(* V is the rest of a reply to c: before its j-th unit, Q[j - 1] queries    *)
(* are to come, and M[j - 1] units of the records of the present one.       *)
Unread(c, V, Q, M) ==
    \A j \in 1 .. Len(V) :
        /\ V[j].of = c
        /\ M[j - 1] = 0 =>
              /\ V[j].part = "count"
              /\ Q[j] = Q[j - 1] - 1
              /\ M[j] = IF V[j].n > 0 THEN 12 * V[j].n ELSE 0
        /\ M[j - 1] > 0 =>
              /\ Q[j] = Q[j - 1]
              /\ M[j] = M[j - 1] - 1
              /\ M[j - 1] % 3 = 0 =>
                    /\ j < Len(V)
                    /\ V[j].part = "low" /\ V[j].n = 1
                    /\ V[j + 1] = [of |-> c, part |-> "high", n |-> 0, at |-> V[j].at + 1]
              /\ M[j - 1] % 3 = 1 => V[j].part = "body"

Prefix(a, V) == Len(a) <= Len(V) /\ \A i \in 1 .. Len(a) : a[i] = V[i]

(* The client has parsed what it has read; V is what it has not, with what  *)
(* is lost of it.                                                           *)
Rest(c, V, Q, M) ==
    /\ Unread(c, V, Q, M)
    /\ Len(got[c]) + Len(V) = answered[c]
    /\ Prefix(outbox[writer], V)
    /\ M[Len(V)] = 0
    /\ link[writer] = "up" => Len(outbox[writer]) = Len(V) /\ Q[Len(V)] = Len(owed[writer])
    /\ Q[0] = parse[c].queries
    /\ M[0] = 3 * parse[c].fields + parse[c].need
    /\ parse[c].need \in {0, 1}

SearchReply(c) ==
    /\ \A i \in 1 .. Len(got[c]) : got[c][i].of = c
    /\ \A i \in 1 .. Len(owed[writer]) : owed[writer][i] = c
    /\ \E V \in Seq(Unit) : \E Q, M \in Marks : Rest(c, V, Q, M)

Answering(c) ==
    /\ ran[c] = 1 /\ inbox[writer] = <<>>
    /\ IF Op[c] = "SEARCH" THEN SearchReply(c) ELSE TextReply(c)

Waiting(c) == pc[c] = "reading" /\ link[writer] # "reset" => Unasked(c) \/ Answering(c)

(* All of the reply is the call's own, and it has run: but search([]) waits *)
(* for no reply.                                                            *)
Own(c) ==
    /\ Len(got[c]) = answered[c]
    /\ \A i \in 1 .. Len(got[c]) : got[c][i].of = c
    /\ (Op[c] = "SEARCH" => Queries[c] > 0) => ran[c] > 0

Ending(c) ==
    /\ pc[c] = "closing" /\ "ok" \in Results(c, got[c]) => Own(c)
    /\ outcome[c] = "ok" => pc[c] = "done" /\ Own(c)

Progress(c) == Prepared(c) /\ Writing(c) /\ Waiting(c) /\ Ending(c)

Exchange == Settled /\ Resting /\ Inboxes /\ \A c \in Calls : Progress(c)

LEMMA InitExchange == Init => Exchange
<1> SUFFICES ASSUME Init PROVE Exchange
  OBVIOUS
<1>1. Settled /\ Inboxes
  BY DEF Init, Settled, Inboxes, Quiet
<1>2. Resting
  BY DEF Init, Resting
<1>3. ASSUME NEW c \in Calls PROVE Progress(c)
  BY DEF Init, Progress, Prepared, Writing, Waiting, Ending, After
<1> QED
  BY <1>1, <1>2, <1>3 DEF Exchange

-----------------------------------------------------------------------------
(* The server and the network keep Exchange. *)

(* An open socket is the one of the call in progress, or at rest. *)
LEMMA OpenSocket ==
    ASSUME TypeOK, Connection, Exchange, NEW s \in Sockets, link[s] \in Open
    PROVE  /\ s = writer /\ connected
           /\ Quiet(s) \/ \E c \in Calls : pc[c] \in {"draining", "reading"}
<1>1. s = writer /\ writer # None
  BY DEF Connection, Joined, Sockets, None
<1>2. connected
  BY <1>1 DEF Connection, Joined, Open
<1>3. ASSUME NEW c \in Calls, Busy(c) PROVE pc[c] \in {"draining", "reading"}
  <2>1. Stands(c) /\ pc[c] \in Places
    BY Typed DEF Connection, Standing
  <2> QED
    BY <1>1, <1>2, <1>3, <2>1 DEF Stands, Busy, Places, Open
<1>4. CASE Idle
  BY <1>1, <1>2, <1>4 DEF Exchange, Resting
<1>5. CASE ~Idle
  BY <1>1, <1>2, <1>3, <1>5 DEF Idle, Busy
<1> QED
  BY <1>1, <1>2, <1>4, <1>5

(* What happens to a socket that is not open matters to no call. *)
LEMMA AsideExchange ==
    ASSUME TypeOK, Connection, Exchange, Connection', NEW s \in Sockets,
           UNCHANGED <<conn, call, outbox, answered>>,
           link'[s] \notin Open \cup {"new"},
           \A t \in Sockets \ {s} : link'[t] = link[t] /\ inbox'[t] = inbox[t] /\ owed'[t] = owed[t],
           inbox'[s] \in {inbox[s], <<>>},
           \A c \in Calls : \/ ran'[c] = ran[c]
                            \/ ran'[c] > 0 /\ (pc[c] = "reading" => writer = s)
    PROVE  Exchange'
<1>1. UNCHANGED <<connected, writer, opened, pc, mine, frag, parse, got, outcome>>
  BY DEF conn, call
<1>2. Settled'
  BY <1>1 DEF Exchange, Settled, Quiet, Open
<1>3. connected => writer \in Sockets /\ link'[writer] \in Open \cup {"reset"}
  BY <1>1, Typed DEF Connection, Joined
<1>4. Resting'
  BY <1>1, <1>3 DEF Exchange, Resting, Quiet, Idle
<1>5. Inboxes'
  BY <1>1 DEF Exchange, Inboxes, Holds, Busy, Fragments
<1>6. ASSUME NEW c \in Calls PROVE Progress(c)'
  <2>1. Progress(c) /\ Stands(c)
    BY DEF Exchange, Connection, Standing
  <2>2. Prepared(c)'
    BY <1>1, <2>1 DEF Progress, Prepared, Begun, NoParse
  <2>3. Writing(c)'
    BY <1>1, <1>3, <2>1 DEF Progress, Writing, Holds, Stands, Open, Fragments
  <2>4. Waiting(c)'
    <3>1. SUFFICES ASSUME pc[c] = "reading", link'[writer] # "reset" PROVE Unasked(c)' \/ Answering(c)'
      BY <1>1 DEF Waiting
    <3>2. writer \in Sockets /\ link'[writer] \in Open
      BY <1>3, <2>1, <3>1 DEF Stands
    <3>3. writer # s
      BY <3>2
    <3>4. /\ link'[writer] = link[writer] /\ inbox'[writer] = inbox[writer] /\ owed'[writer] = owed[writer]
          /\ ran'[c] = ran[c]
      BY <3>1, <3>2, <3>3
    <3>5. Unasked(c) \/ Answering(c)
      BY <2>1, <3>1, <3>4 DEF Progress, Waiting
    <3>6. Unasked(c) => Unasked(c)'
      BY <1>1, <3>4 DEF Unasked, Holds, Begun, Fragments
    <3>7. TextReply(c) => TextReply(c)'
      BY <1>1, <3>4 DEF TextReply, TextUnit
    <3>8. SearchReply(c) => SearchReply(c)'
      <4> SUFFICES ASSUME SearchReply(c) PROVE SearchReply(c)'
        OBVIOUS
      <4>1. PICK V \in Seq(Unit) : \E Q, M \in Marks : Rest(c, V, Q, M)
        BY DEF SearchReply
      <4>2. PICK Q, M \in Marks : Rest(c, V, Q, M)
        BY <4>1
      <4>3. Rest(c, V, Q, M)'
        BY <1>1, <3>4, <4>2 DEF Rest, Unread, Prefix
      <4> QED
        BY <1>1, <3>4, <4>3 DEF SearchReply
    <3> QED
      BY <1>1, <3>4, <3>5, <3>6, <3>7, <3>8 DEF Answering
  <2>5. Ending(c)'
    <3>1. Own(c) => Own(c)'
      BY <1>1, Typed DEF Own
    <3> QED
      BY <1>1, <2>1, <3>1 DEF Progress, Ending, Results, Confirms
  <2> QED
    BY <2>2, <2>3, <2>4, <2>5 DEF Progress
<1> QED
  BY <1>2, <1>4, <1>5, <1>6 DEF Exchange

(* The server ends, and some of its last replies are lost. *)
LEMMA EndExchange ==
    ASSUME TypeOK, Connection, Exchange, End, UNCHANGED <<conn, call, ran, answered>>,
           \A s \in Sockets : /\ link[s] # "up" => outbox'[s] = outbox[s]
                              /\ Len(outbox'[s]) \in 0 .. Len(outbox[s])
                              /\ \A i \in 1 .. Len(outbox'[s]) : outbox'[s][i] = outbox[s][i]
                              /\ outbox[s] = <<>> => outbox'[s] = <<>>
                              /\ Len(outbox[s]) = 1 => outbox'[s] \in {outbox[s], <<>>}
    PROVE  Exchange'
<1>1. UNCHANGED <<connected, writer, opened, pc, mine, frag, parse, got, outcome>>
  BY DEF conn, call
<1>2. \A s \in Sockets : inbox'[s] = <<>> /\ owed'[s] = <<>>
  BY DEF End
<1>3. \A s \in Sockets : /\ link'[s] # "up"
                         /\ link'[s] = "new" => link[s] = "new"
                         /\ link'[s] \in Open => link[s] \in Open
                         /\ link'[s] # "reset" => link[s] # "reset"
  BY Typed DEF End, Open
<1>4. Settled'
  BY <1>2, <1>3 DEF Exchange, Settled, Quiet
<1>5. connected => writer \in Sockets
  BY Typed DEF Connection, Joined
<1>6. Resting'
  BY <1>1, <1>2, <1>3, <1>5 DEF Exchange, Resting, Quiet, Idle
<1>7. Inboxes'
  BY <1>2 DEF Inboxes
<1>8. ASSUME NEW c \in Calls PROVE Progress(c)'
  <2>1. Progress(c) /\ Stands(c)
    BY DEF Exchange, Connection, Standing
  <2>2. Prepared(c)'
    BY <1>1, <2>1 DEF Progress, Prepared, Begun, NoParse
  <2>3. Writing(c)'
    BY <1>1, <1>2, <1>3, <1>5, <2>1 DEF Progress, Writing, Stands, Fragments
  <2>4. Waiting(c)'
    <3>1. SUFFICES ASSUME pc[c] = "reading", link'[writer] # "reset" PROVE Unasked(c)' \/ Answering(c)'
      BY <1>1 DEF Waiting
    <3>2. writer \in Sockets
      BY <1>5, <2>1, <3>1 DEF Stands
    <3>3. Unasked(c) \/ Answering(c)
      BY <1>3, <2>1, <3>1, <3>2 DEF Progress, Waiting
    <3>4. Unasked(c) => Unasked(c)'
      BY <1>1, <1>2, <1>3, <3>2 DEF Unasked, Begun
    <3>5. TextReply(c) => TextReply(c)'
      <4> SUFFICES ASSUME TextReply(c) PROVE TextReply(c)'
        OBVIOUS
      <4>1. outbox[writer] = <<>> => outbox'[writer] = <<>>
        BY <3>2
      <4>2. ASSUME NEW k \in {0, 1}, outbox[writer] = <<TextUnit(c, k)>>
            PROVE  outbox'[writer] \in {outbox[writer], <<>>}
        BY <3>2, <4>2
      <4> QED
        BY <1>1, <1>2, <1>3, <3>2, <4>1, <4>2 DEF TextReply, TextUnit
    <3>6. SearchReply(c) => SearchReply(c)'
      <4> SUFFICES ASSUME SearchReply(c) PROVE SearchReply(c)'
        OBVIOUS
      <4>1. PICK V \in Seq(Unit) : \E Q, M \in Marks : Rest(c, V, Q, M)
        BY DEF SearchReply
      <4>2. PICK Q, M \in Marks : Rest(c, V, Q, M)
        BY <4>1
      <4>3. Len(outbox[writer]) \in Nat /\ Len(V) \in Nat
        BY <3>2, Typed, LenProperties
      <4>4. /\ Len(outbox'[writer]) \in 0 .. Len(outbox[writer])
            /\ \A i \in 1 .. Len(outbox'[writer]) : outbox'[writer][i] = outbox[writer][i]
        BY <3>2
      <4>5. Prefix(outbox[writer], V)
        BY <4>2 DEF Rest
      <4>6. Prefix(outbox'[writer], V)
        BY <4>3, <4>4, <4>5 DEF Prefix
      <4>7. Rest(c, V, Q, M)'
        BY <1>1, <1>3, <3>2, <4>2, <4>6 DEF Rest, Unread, Prefix
      <4>8. \A i \in 1 .. Len(owed'[writer]) : owed'[writer][i] = c
        BY <1>2, <3>2
      <4> QED
        BY <1>1, <4>7, <4>8 DEF SearchReply
    <3> QED
      BY <1>1, <1>2, <3>2, <3>3, <3>4, <3>5, <3>6 DEF Answering
  <2>5. Ending(c)'
    BY <1>1, <2>1 DEF Progress, Ending, Own, Results, Confirms
  <2> QED
    BY <2>2, <2>3, <2>4, <2>5 DEF Progress
<1> QED
  BY <1>4, <1>6, <1>7, <1>8 DEF Exchange

LEMMA WholeIsAll ==
    ASSUME TypeOK, Inboxes, NEW s \in Sockets, NEW c \in Calls, Whole(s, c)
    PROVE  Holds(s, c, Fragments(c)) /\ pc[c] # "idle" /\ (Busy(c) => s = writer /\ pc[c] # "connecting")
<1>1. Fragments(c) \in Nat \ {0} /\ Len(inbox[s]) \in Nat
  BY FragmentsNat, InboxTyped
<1>2. inbox[s] # <<>> /\ inbox[s][1] = [call |-> c, n |-> 1]
  <2>1. Len(inbox[s]) > 0 /\ 1 \in 1 .. Fragments(c)
    BY <1>1 DEF Whole
  <2>2. inbox[s] # <<>>
    <3>1. Len(<<>>) = 0
      OBVIOUS
    <3> QED
      BY <2>1, <3>1
  <2> QED
    BY <2>1, <2>2 DEF Whole
<1>0. PICK d \in Calls : \E n \in 1 .. Fragments(d) :
        Holds(s, d, n) /\ pc[d] # "idle" /\ (Busy(d) => s = writer /\ pc[d] # "connecting")
  BY <1>2 DEF Inboxes
<1>3. PICK n \in 1 .. Fragments(d) :
        Holds(s, d, n) /\ pc[d] # "idle" /\ (Busy(d) => s = writer /\ pc[d] # "connecting")
  BY <1>0
<1>4. inbox[s][1] = [call |-> d, n |-> 1]
  BY <1>3, FragmentsNat DEF Holds
<1>5. d = c
  <2>1. [call |-> d, n |-> 1].call = [call |-> c, n |-> 1].call
    BY <1>2, <1>4
  <2> QED
    BY <2>1
<1>6. n = Fragments(c)
  BY <1>1, <1>3, <1>5 DEF Holds, Whole
<1> QED
  BY <1>3, <1>5, <1>6

(* A call of its own has all its parts as they were. *)
LEMMA OthersProgress ==
    ASSUME TypeOK, Exchange, NEW d \in Calls, ~Busy(d),
           pc'[d] = pc[d], got'[d] = got[d], parse'[d] = parse[d], outcome'[d] = outcome[d],
           ran'[d] = ran[d], answered'[d] = answered[d]
    PROVE  Progress(d)'
<1>1. Progress(d) /\ pc[d] \in {"idle", "done"}
  BY DEF Exchange, Busy
<1>2. Prepared(d)'
  BY <1>1 DEF Progress, Prepared, NoParse
<1>3. Ending(d)'
  BY <1>1 DEF Progress, Ending, Own
<1> QED
  BY <1>1, <1>2, <1>3 DEF Progress, Writing, Waiting

(* A command that runs on an open connection is that of the call that waits *)
(* for its reply.                                                           *)
LEMMA RunCommandAsked ==
    ASSUME TypeOK, Connection, Exchange, NEW s \in Sockets, link[s] = "up",
           NEW c \in Calls, Whole(s, c)
    PROVE  s = writer /\ pc[c] = "reading" /\ Unasked(c)
<1>1. Fragments(c) \in Nat \ {0} /\ Len(inbox[s]) \in Nat
  BY FragmentsNat, InboxTyped
<1>2. Holds(s, c, Fragments(c))
  BY WholeIsAll DEF Exchange
<1>3. inbox[s] # <<>> /\ inbox[s][1].call = c
  <2>1. Len(inbox[s]) > 0 /\ 1 \in 1 .. Fragments(c)
    BY <1>1, <1>2 DEF Holds
  <2>2. Len(<<>>) = 0
    OBVIOUS
  <2>3. inbox[s] # <<>>
    BY <2>1, <2>2
  <2>4. inbox[s][1] = [call |-> c, n |-> 1]
    BY <1>2, <2>1 DEF Holds
  <2> QED
    BY <2>3, <2>4
<1>4. s = writer /\ \E d \in Calls : pc[d] \in {"draining", "reading"}
  BY <1>3, OpenSocket DEF Open, Quiet
<1>5. PICK d \in Calls : pc[d] \in {"draining", "reading"}
  BY <1>4
<1>6. Progress(d) /\ Fragments(d) \in Nat \ {0} /\ frag[d] \in Nat
  BY FragmentsNat, Typed DEF Exchange
<1>7. ASSUME NEW n \in Nat, Holds(s, d, n) PROVE d = c
  <2>1. n > 0
    BY <1>1, <1>2, <1>7 DEF Holds
  <2>2. inbox[s][1] = [call |-> d, n |-> 1]
    BY <1>7, <2>1 DEF Holds
  <2> QED
    BY <1>3, <2>2
<1>8. CASE pc[d] = "draining"
  <2>1. frag[d] \in 1 .. Fragments(d) /\ Holds(s, d, frag[d] - 1)
    BY <1>4, <1>6, <1>8 DEF Progress, Writing
  <2>2. frag[d] - 1 \in Nat
    BY <1>6, <2>1
  <2>3. d = c
    BY <1>7, <2>1, <2>2
  <2>4. Len(inbox[s]) = Fragments(c) /\ Len(inbox[s]) = frag[d] - 1
    BY <1>2, <2>1 DEF Holds
  <2>5. Fragments(d) = Fragments(c)
    BY <2>3
  <2>6. frag[d] <= Fragments(d)
    BY <1>6, <2>1
  <2>7. frag[d] - 1 = Fragments(d)
    BY <2>4, <2>5
  <2>8. frag[d] \in Nat /\ Fragments(d) \in Nat
    BY <1>6
  <2>9. FALSE
    BY <2>6, <2>7, <2>8
  <2> QED
    BY <2>9
<1>9. CASE pc[d] = "reading"
  <2>1. Unasked(d)
    BY <1>3, <1>4, <1>6, <1>9 DEF Progress, Waiting, Answering
  <2>2. Holds(s, d, Fragments(d))
    BY <1>4, <2>1 DEF Unasked
  <2>3. d = c
    BY <1>6, <1>7, <2>2
  <2> QED
    BY <1>4, <1>9, <2>1, <2>3
<1> QED
  BY <1>5, <1>8, <1>9

LEMMA RunCommandParts ==
    ASSUME TypeOK, Exchange, NEW s \in Sockets, RunCommand(s)
    PROVE  /\ UNCHANGED <<conn, link, call, clean, faults>>
           /\ \E c \in Calls :
                /\ Whole(s, c) /\ Op[c] \in Allowed[status]
                /\ status' = IF Op[c] = "INITIALIZE" THEN "INITIALIZED" ELSE "READY"
                /\ inbox' = [inbox EXCEPT ![s] = <<>>]
                /\ ran' = [ran EXCEPT ![c] = @ + 1]
                /\ \/ /\ Op[c] = "SEARCH"
                      /\ owed' = [owed EXCEPT ![s] = [i \in 1 .. Queries[c] |-> c]]
                      /\ UNCHANGED <<outbox, answered>>
                   \/ /\ Op[c] # "SEARCH"
                      /\ \E k \in {0, 1} : Answer(s, c, <<TextUnit(c, k)>>) /\ (k = 0 => Op[c] = "LOAD")
                      /\ UNCHANGED owed
<1> DEFINE c == Head(inbox[s]).call
<1>1. UNCHANGED <<conn, link, call, clean, faults>>
  BY DEF RunCommand
<1>2. inbox[s] # <<>> /\ Whole(s, c) /\ Execute(s, c, Fragments(c)) /\ Op[c] \in Allowed[status]
      /\ ran' = [ran EXCEPT ![c] = @ + 1]
  BY DEF RunCommand
<1>3. c \in Calls
  <2>1. Head(inbox[s]) \in Fragment
    BY <1>2, InboxTyped, HeadTyped
  <2> QED
    BY <2>1 DEF Fragment
<1> HIDE DEF c
<1>4. Len(inbox[s]) = Fragments(c)
  BY <1>2, <1>3, WholeIsAll DEF Exchange, Holds
<1>5. inbox[s] \in Seq(Fragment) /\ Fragments(c) \in 0 .. Len(inbox[s]) /\ Len(inbox[s]) \in Nat
  BY <1>3, <1>4, InboxTyped, FragmentsNat
<1>6. SubSeq(inbox[s], Fragments(c) + 1, Len(inbox[s])) \in Seq(Fragment)
      /\ Len(SubSeq(inbox[s], Fragments(c) + 1, Len(inbox[s]))) = 0
  BY <1>4, <1>5, DropTyped
<1>7. SubSeq(inbox[s], Fragments(c) + 1, Len(inbox[s])) = <<>>
  BY <1>6, EmptySeq
<1>8. inbox' = [inbox EXCEPT ![s] = <<>>]
  BY <1>2, <1>7 DEF Execute
<1>9. CASE Op[c] = "SEARCH"
  BY <1>1, <1>2, <1>3, <1>8, <1>9 DEF Execute
<1>10. CASE Op[c] # "SEARCH"
  <2>1. UNCHANGED owed
    BY <1>2, <1>10 DEF Execute
  <2>2. PICK k \in IF Op[c] = "LOAD" THEN {0, 1} ELSE {1} : Answer(s, c, <<TextUnit(c, k)>>)
    BY <1>2, <1>10 DEF Execute
  <2>3. k \in {0, 1} /\ (k = 0 => Op[c] = "LOAD")
    OBVIOUS
  <2>4. status' = IF Op[c] = "INITIALIZE" THEN "INITIALIZED" ELSE "READY"
    BY <1>2 DEF Execute
  <2> QED
    BY <1>1, <1>2, <1>3, <1>8, <1>10, <2>1, <2>2, <2>3, <2>4
<1> QED
  BY <1>9, <1>10

LEMMA RunCommandExchange ==
    ASSUME TypeOK, Connection, Exchange, Connection', NEW s \in Sockets, RunCommand(s)
    PROVE  Exchange'
<1>1. UNCHANGED <<conn, link, call>>
  BY RunCommandParts
<1>2. UNCHANGED <<connected, writer, opened, pc, mine, frag, parse, got, outcome, link>>
  BY <1>1 DEF conn, call
<1>3. PICK c \in Calls :
        /\ Whole(s, c)
        /\ inbox' = [inbox EXCEPT ![s] = <<>>]
        /\ ran' = [ran EXCEPT ![c] = @ + 1]
        /\ \/ /\ Op[c] = "SEARCH"
              /\ owed' = [owed EXCEPT ![s] = [i \in 1 .. Queries[c] |-> c]]
              /\ UNCHANGED <<outbox, answered>>
           \/ /\ Op[c] # "SEARCH"
              /\ \E k \in {0, 1} : Answer(s, c, <<TextUnit(c, k)>>) /\ (k = 0 => Op[c] = "LOAD")
              /\ UNCHANGED owed
  BY RunCommandParts
<1>4. /\ inbox \in [Sockets -> Seq(Fragment)] /\ ran \in [Calls -> Nat] /\ owed \in [Sockets -> Seq(Calls)]
      /\ outbox \in [Sockets -> Seq(Unit)] /\ answered \in [Calls -> Nat] /\ link \in [Sockets -> Links]
  BY Typed
<1>5. /\ inbox'[s] = <<>> /\ ran'[c] = ran[c] + 1
      /\ \A t \in Sockets \ {s} : inbox'[t] = inbox[t] /\ owed'[t] = owed[t]
      /\ \A d \in Calls \ {c} : ran'[d] = ran[d]
  BY <1>3, <1>4
<1>6. Holds(s, c, Fragments(c)) /\ (Busy(c) => s = writer) /\ Fragments(c) \in Nat \ {0}
  BY <1>3, WholeIsAll, FragmentsNat DEF Exchange
<1>7. inbox[s] # <<>>
  <2>1. Len(<<>>) = 0
    OBVIOUS
  <2> QED
    BY <1>6, <2>1 DEF Holds
<1>8. link[s] \notin {"fin", "stale", "new"}
  BY <1>7 DEF Exchange, Settled, Quiet
<1>9. CASE link[s] # "up"
  <2>1. UNCHANGED <<outbox, answered>>
    BY <1>3, <1>9 DEF Answer
  <2>2. link'[s] \notin Open \cup {"new"} /\ \A t \in Sockets \ {s} : link'[t] = link[t]
    BY <1>2, <1>8, <1>9 DEF Open
  <2>3. \A d \in Calls : ran'[d] = ran[d] \/ (ran'[d] > 0 /\ (pc[d] = "reading" => writer = s))
    BY <1>4, <1>5, <1>6 DEF Busy
  <2> QED
    BY <1>1, <1>5, <2>1, <2>2, <2>3, AsideExchange
<1>10. CASE link[s] = "up"
  <2>1. s = writer /\ pc[c] = "reading" /\ Unasked(c)
    BY <1>3, <1>10, RunCommandAsked
  <2>2. Busy(c) /\ \A d \in Calls \ {c} : ~Busy(d)
    BY <2>1, Alone DEF Connection, Busy
  <2>3. answered[c] = 0 /\ outbox[s] = <<>> /\ owed[s] = <<>> /\ got[c] = <<>> /\ ran[c] = 0
        /\ parse[c] = Begun(c)
    BY <2>1 DEF Unasked
  <2>4. \A t \in Sockets \ {s} : outbox'[t] = outbox[t]
    BY <1>3, <1>4 DEF Answer
  <2>5. \A d \in Calls \ {c} : answered'[d] = answered[d]
    BY <1>3, <1>4 DEF Answer
  <2>6. Settled'
    BY <1>2, <1>5, <1>10, <2>4 DEF Exchange, Settled, Quiet
  <2>7. Resting'
    BY <1>2, <2>2 DEF Resting, Idle, Busy
  <2>8. Inboxes'
    BY <1>2, <1>5 DEF Exchange, Inboxes, Holds, Busy, Fragments
  <2>9. \A d \in Calls \ {c} : Progress(d)'
    BY <1>2, <1>5, <2>2, <2>5, OthersProgress
  <2>10. CASE Op[c] = "SEARCH"
    <3>1. owed' = [owed EXCEPT ![s] = [i \in 1 .. Queries[c] |-> c]] /\ UNCHANGED <<outbox, answered>>
      BY <1>3, <2>10
    <3>2. Queries[c] \in Nat
      BY CallsAssumption DEF CallsAssumption
    <3>3. owed'[s] = [i \in 1 .. Queries[c] |-> c] /\ Len([i \in 1 .. Queries[c] |-> c]) = Queries[c]
      <4>1. [i \in 1 .. Queries[c] |-> c] \in Seq(Calls)
        BY <3>2
      <4> QED
        BY <1>4, <3>1, <3>2, <4>1, LenProperties
    <3> DEFINE Q == [j \in Nat |-> Queries[c]]
               M == [j \in Nat |-> 0]
    <3>4. Len(<<>>) = 0 /\ <<>> \in Seq(Unit)
      OBVIOUS
    <3>5. Q \in Marks /\ M \in Marks /\ Q[0] = Queries[c] /\ M[0] = 0
      BY <3>2, <3>4 DEF Marks
    <3> HIDE DEF Q, M
    <3>6. Unread(c, <<>>, Q, M)
      BY <3>4 DEF Unread
    <3>7. Prefix(<<>>, <<>>)
      BY <3>4 DEF Prefix
    <3>8. parse[c].queries = Queries[c] /\ parse[c].fields = 0 /\ parse[c].need = 0
      BY <2>3 DEF Begun
    <3>12. /\ got'[c] = <<>> /\ answered'[c] = 0 /\ outbox'[writer] = <<>>
           /\ parse'[c] = parse[c] /\ Len(owed'[writer]) = Queries[c]
      BY <1>2, <2>1, <2>3, <3>1, <3>3
    <3>13. Len(<<>>) + Len(<<>>) = 0 /\ M[0] = 3 * 0 + 0
      BY <3>4, <3>5
    <3>9. Rest(c, <<>>, Q, M)'
      BY <1>2, <3>4, <3>5, <3>6, <3>7, <3>8, <3>12, <3>13 DEF Rest
    <3>10. SearchReply(c)'
      <4>1. \A i \in 1 .. Len(owed'[writer]) : owed'[writer][i] = c
        BY <2>1, <3>2, <3>3
      <4>2. \A i \in 1 .. Len(got'[c]) : got'[c][i].of = c
        BY <1>2, <2>3, <3>4
      <4> QED
        BY <1>2, <3>4, <3>5, <3>9, <4>1, <4>2 DEF SearchReply
    <3>11. Progress(c)'
      BY <1>2, <1>5, <2>1, <2>3, <2>10, <3>10 DEF Progress, Prepared, Writing, Waiting, Answering, Ending, Exchange, After
    <3> QED
      BY <2>6, <2>7, <2>8, <2>9, <3>11 DEF Exchange
  <2>11. CASE Op[c] # "SEARCH"
    <3>1. UNCHANGED owed
      BY <1>3, <2>11
    <3>2. PICK k \in {0, 1} : Answer(s, c, <<TextUnit(c, k)>>) /\ (k = 0 => Op[c] = "LOAD")
      BY <1>3, <2>11
    <3>3. <<TextUnit(c, k)>> \in Seq(Unit) /\ Len(<<TextUnit(c, k)>>) = 1
      BY TextUnitTyped
    <3>4. outbox'[s] = <<>> \o <<TextUnit(c, k)>> /\ answered'[c] = 1
      BY <1>4, <1>10, <2>3, <3>2, <3>3 DEF Answer
    <3>5. outbox'[s] = <<TextUnit(c, k)>>
      BY <3>3, <3>4
    <3>6. TextReply(c)'
      BY <1>2, <2>1, <2>3, <3>1, <3>2, <3>4, <3>5 DEF TextReply, TextUnit
    <3>7. Progress(c)'
      BY <1>2, <1>5, <2>1, <2>3, <2>11, <3>6 DEF Progress, Prepared, Writing, Waiting, Answering, Ending, Exchange, After
    <3> QED
      BY <2>6, <2>7, <2>8, <2>9, <3>7 DEF Exchange
  <2> QED
    BY <2>10, <2>11
<1> QED
  BY <1>9, <1>10

(* No bytes of a command are taken for another's. *)
LEMMA NotGarbled ==
    ASSUME TypeOK, Exchange, NEW s \in Sockets
    PROVE  ~RunGarbled(s)
<1> SUFFICES ASSUME RunGarbled(s) PROVE FALSE
  OBVIOUS
<1> DEFINE f == Head(inbox[s])
<1>1. inbox[s] # <<>> /\ f.n = 1 /\ \E i \in 2 .. Len(inbox[s]) : inbox[s][i] # [f EXCEPT !.n = i]
  BY DEF RunGarbled
<1>2. PICK i \in 2 .. Len(inbox[s]) : inbox[s][i] # [f EXCEPT !.n = i]
  BY <1>1
<1>0. PICK c \in Calls : \E n \in 1 .. Fragments(c) : Holds(s, c, n)
  BY <1>1 DEF Exchange, Inboxes
<1>3. PICK n \in 1 .. Fragments(c) : Holds(s, c, n)
  BY <1>0
<1>4. Fragments(c) \in Nat /\ inbox[s] \in Seq(Fragment)
  BY FragmentsNat, InboxTyped
<1>5. f = [call |-> c, n |-> 1]
  BY <1>3, <1>4 DEF Holds
<1>6. [f EXCEPT !.n = i] = [call |-> c, n |-> i]
  BY <1>5
<1>7. inbox[s][i] = [call |-> c, n |-> i]
  BY <1>2, <1>3, <1>4 DEF Holds
<1> QED
  BY <1>2, <1>6, <1>7

LEMMA CrashExchange ==
    ASSUME TypeOK, Connection, Exchange, Crash
    PROVE  Exchange'
<1>1. PICK k \in 0 .. 2 : outbox' = [s \in Sockets |-> IF link[s] = "up" /\ k < Len(outbox[s])
                                       THEN SubSeq(outbox[s], 1, k) ELSE outbox[s]]
  BY DEF Crash
<1>2. ASSUME NEW s \in Sockets
      PROVE  /\ link[s] # "up" => outbox'[s] = outbox[s]
             /\ Len(outbox'[s]) \in 0 .. Len(outbox[s])
             /\ \A i \in 1 .. Len(outbox'[s]) : outbox'[s][i] = outbox[s][i]
             /\ outbox[s] = <<>> => outbox'[s] = <<>>
             /\ Len(outbox[s]) = 1 => outbox'[s] \in {outbox[s], <<>>}
  <2>1. outbox[s] \in Seq(Unit) /\ Len(outbox[s]) \in Nat /\ Len(<<>>) = 0
    BY Typed, LenProperties
  <2>2. CASE link[s] = "up" /\ k < Len(outbox[s])
    <3>1. outbox'[s] = SubSeq(outbox[s], 1, k) /\ k \in 0 .. Len(outbox[s])
      BY <1>1, <2>1, <2>2
    <3>2. outbox'[s] \in Seq(Unit) /\ Len(outbox'[s]) = k /\ \A i \in 1 .. k : outbox'[s][i] = outbox[s][i]
      BY <2>1, <3>1, TakeTyped
    <3>3. outbox[s] # <<>>
      BY <2>1, <2>2
    <3>4. Len(outbox[s]) = 1 => outbox'[s] = <<>>
      BY <2>2, <3>2, EmptySeq
    <3> QED
      BY <2>1, <2>2, <3>1, <3>2, <3>3, <3>4
  <2>3. CASE ~(link[s] = "up" /\ k < Len(outbox[s]))
    BY <1>1, <2>1, <2>3
  <2> QED
    BY <2>2, <2>3
<1> QED
  BY <1>2, EndExchange DEF Crash

LEMMA RejectExchange ==
    ASSUME TypeOK, Connection, Exchange, NEW s \in Sockets, Reject(s)
    PROVE  Exchange'
<1>1. End /\ UNCHANGED <<conn, outbox, call, ran, answered>>
  BY DEF Reject
<1>2. \A t \in Sockets : Len(outbox[t]) \in Nat
  BY Typed, LenProperties
<1> QED
  BY <1>1, <1>2, EndExchange

LEMMA CutExchange ==
    ASSUME TypeOK, Connection, Exchange, Connection', NEW s \in Sockets, Cut(s)
    PROVE  Exchange'
<1>1. UNCHANGED <<conn, outbox, call, owed, ran, answered>>
  BY DEF Cut, server
<1>2. link' = [link EXCEPT ![s] = "reset"] /\ (UNCHANGED inbox \/ inbox' = [inbox EXCEPT ![s] = <<>>])
  BY DEF Cut
<1>3. /\ link'[s] = "reset" /\ inbox'[s] \in {inbox[s], <<>>}
      /\ \A t \in Sockets \ {s} : link'[t] = link[t] /\ inbox'[t] = inbox[t]
  BY <1>2, Typed
<1>4. "reset" \notin Open \cup {"new"}
  BY DEF Open
<1> QED
  BY <1>1, <1>3, <1>4, AsideExchange

-----------------------------------------------------------------------------
(* The rest of a reply, when the server adds to it and the client reads.    *)

(* Within a record the units come in threes. *)
LEMMA Threes ==
    \A m \in Nat, k \in Nat : k <= 12 * m =>
        /\ (12 * m - k) % 3 = 0 <=> k % 3 = 0
        /\ (12 * m - k) % 3 = 1 <=> k % 3 = 2
        /\ k < 12 * m /\ k % 3 = 0 => k + 1 < 12 * m /\ (k + 1) % 3 = 1
  OBVIOUS

(* The units of the answer to one query. *)
AnswerParts(c, h, m, u) ==
    /\ m \in Nat
    /\ u \in Seq(Unit) /\ Len(u) = 12 * m + 1
    /\ u[1] = [of |-> c, at |-> 0, part |-> "count", n |-> h]
    /\ \A k \in 0 .. 12 * m - 1 :
          u[k + 2] = [of |-> c, at |-> k + 1, part |-> <<"low", "high", "body">>[(k % 3) + 1],
                      n |-> IF k % 3 = 0 THEN 1 ELSE 0]

LEMMA QueryUnitsParts ==
    ASSUME NEW c \in Calls, NEW h \in Int
    PROVE  AnswerParts(c, h, IF h > 0 THEN h ELSE 0, QueryUnits(c, h))
<1> DEFINE m == IF h > 0 THEN h ELSE 0
           u == QueryUnits(c, h)
           first == [of |-> c, at |-> 0, part |-> "count", n |-> h]
<1>1. m \in Nat
  OBVIOUS
<1>2. u = <<first>> \o FieldUnits(c, m)
  BY DEF QueryUnits
<1> HIDE DEF m, u
<1>3. u \in Seq(Unit)
  BY QueryUnitsTyped DEF u
<1>4. FieldUnits(c, m) \in Seq(Unit) /\ <<first>> \in Seq(Unit) /\ Len(<<first>>) = 1
  BY <1>1, FieldUnitsTyped DEF Unit, Parts
<1>5. Len(FieldUnits(c, m)) = 12 * m
  <2>1. DOMAIN FieldUnits(c, m) = 1 .. 12 * m
    BY <1>1 DEF FieldUnits, Fields
  <2>2. 12 * m \in Nat
    BY <1>1
  <2> QED
    BY <1>4, <2>1, <2>2, LenProperties
<1> HIDE DEF first
<1>6. Len(u) = 1 + 12 * m /\ u[1] = first
      /\ \A i \in 1 .. 1 + 12 * m : i > 1 => u[i] = FieldUnits(c, m)[i - 1]
  BY <1>1, <1>2, <1>4, <1>5, ConcatProperties
<1>7. ASSUME NEW k \in 0 .. 12 * m - 1
      PROVE  u[k + 2] = [of |-> c, at |-> k + 1, part |-> <<"low", "high", "body">>[(k % 3) + 1],
                         n |-> IF k % 3 = 0 THEN 1 ELSE 0]
  <2>1. k + 2 \in 1 .. 1 + 12 * m /\ k + 2 > 1 /\ (k + 2) - 1 = k + 1 /\ k + 1 \in 1 .. 12 * m
    BY <1>1
  <2>2. u[k + 2] = FieldUnits(c, m)[k + 1]
    BY <1>6, <2>1
  <2>3. k + 1 \in 1 .. 3 * Fields * m
    BY <1>1, <2>1 DEF Fields
  <2>4. FieldUnits(c, m)[k + 1] = [of |-> c, at |-> k + 1, part |-> <<"low", "high", "body">>[(((k + 1) - 1) % 3) + 1],
                                   n |-> IF (k + 1) % 3 = 1 THEN 1 ELSE 0]
    BY <2>3 DEF FieldUnits
  <2>5. (k + 1) - 1 = k /\ ((k + 1) % 3 = 1 <=> k % 3 = 0)
    BY <1>1
  <2> QED
    BY <2>2, <2>4, <2>5
<1>8. AnswerParts(c, h, m, u)
  <2>1. Len(u) = 12 * m + 1
    BY <1>1, <1>6
  <2>2. u[1] = [of |-> c, at |-> 0, part |-> "count", n |-> h]
    BY <1>6 DEF first
  <2>3. \A k \in 0 .. 12 * m - 1 :
           u[k + 2] = [of |-> c, at |-> k + 1, part |-> <<"low", "high", "body">>[(k % 3) + 1],
                       n |-> IF k % 3 = 0 THEN 1 ELSE 0]
    BY <1>7
  <2> QED
    BY <1>1, <1>3, <2>1, <2>2, <2>3, Zenon DEF AnswerParts
<1> QED
  BY <1>8 DEF m, u

(* W is V with u after it. *)
Joins(W, V, u) ==
    /\ Len(W) = Len(V) + Len(u)
    /\ \A i \in 1 .. Len(W) : W[i] = IF i <= Len(V) THEN V[i] ELSE u[i - Len(V)]

LEMMA ConcatJoins == \A V, u \in Seq(Unit) : V \o u \in Seq(Unit) /\ Joins(V \o u, V, u)
<1> SUFFICES ASSUME NEW V \in Seq(Unit), NEW u \in Seq(Unit) PROVE V \o u \in Seq(Unit) /\ Joins(V \o u, V, u)
  OBVIOUS
<1>1. /\ V \o u \in Seq(Unit) /\ Len(V \o u) = Len(V) + Len(u)
      /\ \A i \in 1 .. Len(V) + Len(u) : (V \o u)[i] = IF i <= Len(V) THEN V[i] ELSE u[i - Len(V)]
  BY ConcatProperties
<1> QED
  BY <1>1 DEF Joins

(* W is V without its first n units. *)
Drops(W, V, n) ==
    /\ Len(W) = Len(V) - n
    /\ \A i \in 1 .. Len(V) - n : W[i] = V[i + n]

LEMMA SubSeqDrops ==
    \A V \in Seq(Unit) : \A n \in 0 .. Len(V) :
        SubSeq(V, n + 1, Len(V)) \in Seq(Unit) /\ Drops(SubSeq(V, n + 1, Len(V)), V, n)
  BY DropTyped DEF Drops

(* With the answer to one query more, the rest of a reply is W. *)
Grows(c, V, Q, M, W) ==
    \E R, N \in Marks :
       /\ Unread(c, W, R, N)
       /\ N[Len(W)] = 0 /\ R[Len(W)] = Q[Len(V)] - 1
       /\ N[0] = M[0] /\ R[0] = Q[0]

(* The server answers one more query. *)
LEMMA UnreadMore ==
    ASSUME NEW c \in Calls, NEW h \in Int, NEW V \in Seq(Unit), NEW W \in Seq(Unit),
           NEW Q \in Marks, NEW M \in Marks,
           Unread(c, V, Q, M), M[Len(V)] = 0, Q[Len(V)] > 0,
           Joins(W, V, QueryUnits(c, h))
    PROVE  Grows(c, V, Q, M, W)
<1> DEFINE L == Len(V)
           m == IF h > 0 THEN h ELSE 0
           u == QueryUnits(c, h)
<1>1. /\ m \in Nat
      /\ u \in Seq(Unit) /\ Len(u) = 12 * m + 1
      /\ u[1] = [of |-> c, at |-> 0, part |-> "count", n |-> h]
      /\ \A k \in 0 .. 12 * m - 1 :
           u[k + 2] = [of |-> c, at |-> k + 1, part |-> <<"low", "high", "body">>[(k % 3) + 1],
                       n |-> IF k % 3 = 0 THEN 1 ELSE 0]
  <2>1. AnswerParts(c, h, m, u)
    BY QueryUnitsParts
  <2> HIDE DEF m, u
  <2> QED
    BY <2>1 DEF AnswerParts
<1>2. L \in Nat
  BY LenProperties
<1>3. m = IF h > 0 THEN h ELSE 0
  OBVIOUS
<1>13. Len(W) = L + Len(u)
  BY DEF Joins
<1>4. \A i \in 1 .. Len(W) : W[i] = IF i <= L THEN V[i] ELSE u[i - L]
  BY DEF Joins
<1> HIDE DEF m, u, L
<1>0. m \in Nat /\ Len(W) = L + 12 * m + 1
  <2>1. m \in Nat /\ Len(u) = 12 * m + 1
    BY <1>1
  <2>2. Len(W) = L + (12 * m + 1)
    BY <1>13, <2>1, Zenon
  <2>3. L + (12 * m + 1) = L + 12 * m + 1
    BY <1>2, <2>1
  <2> QED
    BY <2>1, <2>2, <2>3, Zenon
<1>14. Unread(c, V, Q, M) /\ M[L] = 0 /\ Q[L] > 0
  BY DEF L
<1> DEFINE R == [j \in Nat |-> IF j <= L THEN Q[j] ELSE Q[L] - 1]
           N == [j \in Nat |-> IF j <= L THEN M[j] ELSE IF j <= Len(W) THEN L + 1 + 12 * m - j ELSE 0]
<1>5. R \in Marks /\ N \in Marks
  <2>1. \A j \in Nat : (IF j <= L THEN Q[j] ELSE Q[L] - 1) \in Nat
    <3>2. Q[L] \in Nat
      BY <1>2 DEF Marks
    <3>1. Q[L] - 1 \in Nat
      BY <1>14, <3>2
    <3> QED
      BY <3>1 DEF Marks
  <2>2. ASSUME NEW j \in Nat
        PROVE (IF j <= L THEN M[j] ELSE IF j <= Len(W) THEN L + 1 + 12 * m - j ELSE 0) \in Nat
    <3>1. CASE j <= L
      BY <3>1 DEF Marks
    <3>2. CASE ~(j <= L) /\ j <= Len(W)
      <4>1. L + 1 + 12 * m - j \in Nat
        BY <1>0, <1>2, <3>2
      <4> QED
        BY <3>2, <4>1
    <3> QED
      BY <3>1, <3>2
  <2> QED
    BY <2>1, <2>2 DEF Marks
<1>15. \A j \in 0 .. L : R[j] = Q[j] /\ N[j] = M[j]
  BY <1>2
<1>16. ASSUME NEW j \in L + 1 .. Len(W) PROVE R[j] = Q[L] - 1 /\ N[j] = L + 1 + 12 * m - j
  <2>1. j \in Nat /\ ~(j <= L) /\ j <= Len(W)
    BY <1>0, <1>2
  <2> QED
    BY <2>1
<1> HIDE DEF R, N
<1>6. /\ N[Len(W)] = 0 /\ R[Len(W)] = Q[L] - 1
      /\ N[0] = M[0] /\ R[0] = Q[0]
  <2>1. Len(W) \in L + 1 .. Len(W) /\ 0 \in 0 .. L /\ L + 1 + 12 * m - Len(W) = 0
    BY <1>0, <1>2
  <2>2. N[Len(W)] = L + 1 + 12 * m - Len(W) /\ R[Len(W)] = Q[L] - 1
    BY <1>16, <2>1
  <2> QED
    BY <1>15, <2>1, <2>2
<1>7. /\ \A j \in 0 .. L : R[j] = Q[j] /\ N[j] = M[j]
      /\ \A j \in L + 1 .. Len(W) : R[j] = Q[L] - 1 /\ N[j] = L + 1 + 12 * m - j
  BY <1>15, <1>16
<1>8. ASSUME NEW j \in 1 .. Len(W)
      PROVE  /\ W[j].of = c
             /\ N[j - 1] = 0 =>
                   /\ W[j].part = "count"
                   /\ R[j] = R[j - 1] - 1
                   /\ N[j] = IF W[j].n > 0 THEN 12 * W[j].n ELSE 0
             /\ N[j - 1] > 0 =>
                   /\ R[j] = R[j - 1]
                   /\ N[j] = N[j - 1] - 1
                   /\ N[j - 1] % 3 = 0 =>
                         /\ j < Len(W)
                         /\ W[j].part = "low" /\ W[j].n = 1
                         /\ W[j + 1] = [of |-> c, part |-> "high", n |-> 0, at |-> W[j].at + 1]
                   /\ N[j - 1] % 3 = 1 => W[j].part = "body"
  <2>1. CASE j <= L
    <3>1. j \in 1 .. L /\ j \in 0 .. L /\ j - 1 \in 0 .. L /\ j < Len(W)
      BY <1>0, <1>2, <2>1
    <3>2. R[j] = Q[j] /\ R[j - 1] = Q[j - 1] /\ N[j] = M[j] /\ N[j - 1] = M[j - 1] /\ W[j] = V[j]
      BY <1>4, <1>7, <2>1, <3>1
    <3>3. j < L => W[j + 1] = V[j + 1]
      BY <1>2, <1>4, <3>1
    <3> QED
      BY <1>14, <3>1, <3>2, <3>3 DEF Unread, L
  <2>2. CASE j = L + 1
    <3>1. W[j] = u[1]
      <4>1. ~(j <= L) /\ j - L = 1
        BY <1>2, <2>2
      <4> QED
        BY <1>4, <4>1
    <3>2. R[j - 1] = Q[L] /\ N[j - 1] = 0
      <4>1. j - 1 = L /\ L \in 0 .. L
        BY <1>2, <2>2
      <4> QED
        BY <1>7, <1>14, <4>1
    <3>3. R[j] = Q[L] - 1 /\ N[j] = 12 * m
      BY <1>0, <1>2, <1>7, <2>2
    <3>4. W[j].of = c /\ W[j].part = "count" /\ W[j].n = h
      BY <1>1, <3>1
    <3>5. (IF h > 0 THEN 12 * h ELSE 0) = 12 * m
      BY <1>3
    <3> QED
      BY <3>2, <3>3, <3>4, <3>5
  <2>3. CASE j > L + 1
    <3>13. j - L - 2 \in Nat
      BY <1>0, <1>2, <2>3
    <3>0. PICK k \in Nat : k = j - L - 2
      BY <3>13
    <3>1. k \in 0 .. 12 * m - 1 /\ j - L = k + 2 /\ j = k + L + 2 /\ k <= 12 * m
      BY <1>0, <1>2, <2>3, <3>0
    <3>2. W[j] = u[k + 2]
      BY <1>2, <1>4, <2>3, <3>1
    <3>10. j \in L + 1 .. Len(W) /\ j - 1 \in L + 1 .. Len(W)
      BY <1>0, <1>2, <2>3
    <3>11. /\ R[j] = Q[L] - 1 /\ R[j - 1] = Q[L] - 1
           /\ N[j - 1] = L + 1 + 12 * m - (j - 1) /\ N[j] = L + 1 + 12 * m - j
      BY <1>7, <3>10
    <3>3. /\ R[j] = Q[L] - 1 /\ R[j - 1] = Q[L] - 1
          /\ N[j - 1] = 12 * m - k /\ N[j] = 12 * m - k - 1
      BY <1>0, <1>2, <3>1, <3>11
    <3>12. u[k + 2] = [of |-> c, at |-> k + 1, part |-> <<"low", "high", "body">>[(k % 3) + 1],
                       n |-> IF k % 3 = 0 THEN 1 ELSE 0]
      BY <1>1, <3>1
    <3>4. W[j].of = c /\ W[j].at = k + 1 /\ W[j].part = <<"low", "high", "body">>[(k % 3) + 1]
          /\ W[j].n = IF k % 3 = 0 THEN 1 ELSE 0
      BY <3>2, <3>12
    <3>5. N[j - 1] > 0 /\ N[j] = N[j - 1] - 1
      BY <1>0, <3>1, <3>3
    <3>6. ASSUME N[j - 1] % 3 = 0
          PROVE  /\ j < Len(W)
                 /\ W[j].part = "low" /\ W[j].n = 1
                 /\ W[j + 1] = [of |-> c, part |-> "high", n |-> 0, at |-> W[j].at + 1]
      <4>1. k % 3 = 0
        BY <1>0, <3>1, <3>3, <3>6, Threes
      <4>2. k + 1 \in 0 .. 12 * m - 1 /\ (k + 1) % 3 = 1
        <5>1. k < 12 * m
          BY <1>0, <3>1
        <5>2. k + 1 < 12 * m /\ (k + 1) % 3 = 1
          BY <1>0, <3>1, <4>1, <5>1, Threes
        <5> QED
          BY <1>0, <5>2
      <4>3. u[(k + 1) + 2] = [of |-> c, at |-> (k + 1) + 1, part |-> <<"low", "high", "body">>[((k + 1) % 3) + 1],
                              n |-> IF (k + 1) % 3 = 0 THEN 1 ELSE 0]
        BY <1>1, <4>2
      <4>4. u[k + 3] = [of |-> c, at |-> (k + 1) + 1, part |-> "high", n |-> 0]
        BY <3>1, <4>2, <4>3
      <4>5. j < Len(W) /\ j + 1 \in 1 .. Len(W) /\ ~(j + 1 <= L) /\ (j + 1) - L = k + 3
        BY <1>0, <1>2, <3>1, <4>2
      <4>6. W[j + 1] = u[k + 3]
        BY <1>4, <4>5
      <4> QED
        BY <3>4, <4>1, <4>4, <4>5, <4>6
    <3>7. ASSUME N[j - 1] % 3 = 1 PROVE W[j].part = "body"
      <4>1. k % 3 = 2
        BY <1>0, <3>1, <3>3, <3>7, Threes
      <4> QED
        BY <3>4, <4>1
    <3> QED
      BY <3>3, <3>4, <3>5, <3>6, <3>7
  <2> QED
    BY <1>2, <2>1, <2>2, <2>3
<1>9. Unread(c, W, R, N)
  BY <1>8 DEF Unread
<1> QED
  BY <1>5, <1>6, <1>9 DEF L, Grows

(* W is what follows after n units. *)
Follows(c, W, Q, M, n) ==
    \E R, N \in Marks :
        Unread(c, W, R, N) /\ \A j \in Nat : R[j] = Q[j + n] /\ N[j] = M[j + n]

(* The client reads the first n units. *)
LEMMA UnreadLess ==
    ASSUME NEW c \in Calls, NEW V \in Seq(Unit), NEW W \in Seq(Unit), NEW n \in 0 .. Len(V),
           NEW Q \in Marks, NEW M \in Marks,
           Unread(c, V, Q, M),
           Drops(W, V, n)
    PROVE  Follows(c, W, Q, M, n)
<1> DEFINE R == [j \in Nat |-> Q[j + n]]
           N == [j \in Nat |-> M[j + n]]
<1>1. Len(W) = Len(V) - n /\ \A i \in 1 .. Len(V) - n : W[i] = V[i + n]
  BY DEF Drops
<1>2. Len(V) \in Nat /\ n \in Nat /\ Len(W) \in Nat
  BY LenProperties
<1>3. \A j \in Nat : j + n \in Nat
  BY <1>2
<1>4. R \in Marks /\ N \in Marks
  BY <1>3 DEF Marks
<1>5. \A j \in Nat : R[j] = Q[j + n] /\ N[j] = M[j + n]
  OBVIOUS
<1> HIDE DEF R, N
<1>6. ASSUME NEW j \in 1 .. Len(W)
      PROVE  /\ W[j].of = c
             /\ N[j - 1] = 0 =>
                   /\ W[j].part = "count"
                   /\ R[j] = R[j - 1] - 1
                   /\ N[j] = IF W[j].n > 0 THEN 12 * W[j].n ELSE 0
             /\ N[j - 1] > 0 =>
                   /\ R[j] = R[j - 1]
                   /\ N[j] = N[j - 1] - 1
                   /\ N[j - 1] % 3 = 0 =>
                         /\ j < Len(W)
                         /\ W[j].part = "low" /\ W[j].n = 1
                         /\ W[j + 1] = [of |-> c, part |-> "high", n |-> 0, at |-> W[j].at + 1]
                   /\ N[j - 1] % 3 = 1 => W[j].part = "body"
  <2>1. PICK i : i = j + n
    OBVIOUS
  <2>2. i \in 1 .. Len(V) /\ j \in Nat /\ j - 1 \in Nat /\ (j - 1) + n = i - 1
    BY <1>1, <1>2, <2>1
  <2>3. W[j] = V[i] /\ R[j] = Q[i] /\ N[j] = M[i] /\ R[j - 1] = Q[i - 1] /\ N[j - 1] = M[i - 1]
    BY <1>1, <1>5, <2>1, <2>2
  <2>4. i < Len(V) => j < Len(W) /\ j + 1 \in 1 .. Len(V) - n /\ (j + 1) + n = i + 1
    BY <1>1, <1>2, <2>1
  <2>5. i < Len(V) => j < Len(W) /\ W[j + 1] = V[i + 1]
    BY <1>1, <2>4
  <2> QED
    BY <2>2, <2>3, <2>5 DEF Unread
<1>7. Unread(c, W, R, N)
  BY <1>6 DEF Unread
<1> QED
  BY <1>4, <1>5, <1>7 DEF Follows

(* Queries are owed on an open connection to the call that waits for them.  *)
LEMMA OwedAsked ==
    ASSUME TypeOK, Connection, Exchange, NEW s \in Sockets, link[s] \in Open, owed[s] # <<>>
    PROVE  /\ s = writer /\ link[s] = "up"
           /\ \E c \in Calls : /\ pc[c] = "reading" /\ Op[c] = "SEARCH"
                               /\ ran[c] = 1 /\ inbox[writer] = <<>> /\ SearchReply(c)
<1>1. link[s] = "up"
  BY DEF Exchange, Settled, Open
<1>2. s = writer /\ \E c \in Calls : pc[c] \in {"draining", "reading"}
  BY OpenSocket DEF Quiet
<1>3. PICK c \in Calls : pc[c] \in {"draining", "reading"}
  BY <1>2
<1>4. Progress(c)
  BY DEF Exchange
<1>5. pc[c] = "reading"
  BY <1>2, <1>3, <1>4 DEF Progress, Writing
<1>6. Answering(c)
  BY <1>1, <1>2, <1>4, <1>5 DEF Progress, Waiting, Unasked
<1> QED
  BY <1>1, <1>2, <1>5, <1>6 DEF Answering, TextReply

LEMMA AnswerQueryExchange ==
    ASSUME TypeOK, Connection, Exchange, Connection', NEW s \in Sockets, NEW h \in Int, AnswerQuery(s, h)
    PROVE  Exchange'
<1>1. /\ UNCHANGED <<conn, link, inbox, call, ran>>
      /\ owed[s] # <<>> /\ owed' = [owed EXCEPT ![s] = Tail(@)]
      /\ Answer(s, Head(owed[s]), QueryUnits(Head(owed[s]), h))
  BY DEF AnswerQuery
<1>2. UNCHANGED <<connected, writer, opened, pc, mine, frag, parse, got, outcome, link, inbox, ran>>
  BY <1>1 DEF conn, call
<1>3. /\ owed \in [Sockets -> Seq(Calls)] /\ outbox \in [Sockets -> Seq(Unit)]
      /\ answered \in [Calls -> Nat] /\ got \in [Calls -> Seq(Unit)]
  BY Typed
<1>4. \A t \in Sockets \ {s} : owed'[t] = owed[t]
  BY <1>1, <1>3
<1>5. link[s] # "new"
  BY <1>1 DEF Exchange, Settled, Quiet
<1>6. CASE link[s] \notin Open
  <2>1. UNCHANGED <<outbox, answered>>
    BY <1>1, <1>6 DEF Answer, Open
  <2>2. link'[s] \notin Open \cup {"new"}
    BY <1>2, <1>5, <1>6
  <2> QED
    BY <1>1, <1>2, <1>4, <2>1, <2>2, AsideExchange
<1>7. CASE link[s] \in Open
  <2>1. s = writer /\ link[s] = "up"
    BY <1>1, <1>7, OwedAsked
  <2>2. PICK c \in Calls : /\ pc[c] = "reading" /\ Op[c] = "SEARCH"
                           /\ ran[c] = 1 /\ inbox[writer] = <<>> /\ SearchReply(c)
    BY <1>1, <1>7, OwedAsked
  <2>3. Busy(c) /\ \A d \in Calls \ {c} : ~Busy(d)
    BY <2>2, Alone DEF Connection, Busy
  <2>4. /\ owed[s] \in Seq(Calls) /\ Head(owed[s]) = owed[s][1] /\ Len(owed[s]) \in Nat \ {0}
        /\ Tail(owed[s]) \in Seq(Calls)
    BY <1>1, <1>3, HeadTyped
  <2>5. \A i \in 1 .. Len(owed[s]) : owed[s][i] = c
    BY <2>1, <2>2 DEF SearchReply
  <2>6. Head(owed[s]) = c
    BY <2>4, <2>5
  <2> DEFINE u == QueryUnits(c, h)
  <2>7. u \in Seq(Unit) /\ Len(u) \in Nat
    BY QueryUnitsTyped, LenProperties
  <2>8. /\ outbox' = [outbox EXCEPT ![s] = @ \o u]
        /\ answered' = [answered EXCEPT ![c] = @ + Len(u)]
    BY <1>1, <2>1, <2>6 DEF Answer
  <2> HIDE DEF u
  <2>9. /\ outbox'[s] = outbox[s] \o u /\ answered'[c] = answered[c] + Len(u)
        /\ \A t \in Sockets \ {s} : outbox'[t] = outbox[t]
        /\ \A d \in Calls \ {c} : answered'[d] = answered[d]
    BY <1>3, <2>8
  <2>10. /\ owed'[s] = Tail(owed[s]) /\ Len(owed'[s]) = Len(owed[s]) - 1
         /\ \A i \in 1 .. Len(owed'[s]) : owed'[s][i] = owed[s][i + 1]
    <3>1. owed'[s] = Tail(owed[s])
      BY <1>1, <1>3
    <3>2. Len(Tail(owed[s])) = Len(owed[s]) - 1 /\ \A i \in 1 .. Len(Tail(owed[s])) : Tail(owed[s])[i] = owed[s][i + 1]
      BY <1>1, <2>4, HeadTailProperties
    <3> QED
      BY <3>1, <3>2
  <2>11. \A i \in 1 .. Len(owed'[s]) : owed'[s][i] = c
    BY <2>4, <2>5, <2>10
  <2>12. PICK V \in Seq(Unit) : \E Q, M \in Marks : Rest(c, V, Q, M)
    BY <2>2 DEF SearchReply
  <2>13. PICK Q, M \in Marks : Rest(c, V, Q, M)
    BY <2>12
  <2>14. /\ Unread(c, V, Q, M)
         /\ Len(got[c]) + Len(V) = answered[c]
         /\ Prefix(outbox[s], V)
         /\ M[Len(V)] = 0
         /\ Len(outbox[s]) = Len(V) /\ Q[Len(V)] = Len(owed[s])
         /\ Q[0] = parse[c].queries
         /\ M[0] = 3 * parse[c].fields + parse[c].need
         /\ parse[c].need \in {0, 1}
    BY <2>1, <2>13 DEF Rest
  <2>15. outbox[s] = V
    BY <1>3, <2>14, SeqEqual DEF Prefix
  <2> DEFINE W == V \o u
  <2>16. /\ W \in Seq(Unit) /\ Len(W) = Len(V) + Len(u) /\ Len(V) \in Nat /\ outbox'[s] = W
         /\ \A i \in 1 .. Len(W) : W[i] = IF i <= Len(V) THEN V[i] ELSE u[i - Len(V)]
    <3>1. W \in Seq(Unit) /\ Joins(W, V, u)
      BY <2>7, ConcatJoins
    <3> QED
      BY <2>9, <2>15, <3>1, LenProperties DEF Joins
  <2> HIDE DEF W
  <2>17. \E R, N \in Marks :
            /\ Unread(c, W, R, N)
            /\ N[Len(W)] = 0 /\ R[Len(W)] = Q[Len(V)] - 1
            /\ N[0] = M[0] /\ R[0] = Q[0]
    <3>1. Q[Len(V)] > 0
      BY <2>4, <2>14
    <3>2. Unread(c, V, Q, M) /\ M[Len(V)] = 0
      BY <2>14
    <3>3. Joins(W, V, QueryUnits(c, h))
      BY <2>16 DEF u, Joins
    <3>4. W \in Seq(Unit)
      BY <2>16
    <3>5. Grows(c, V, Q, M, W)
      BY <3>1, <3>2, <3>3, <3>4, UnreadMore
    <3> QED
      BY <3>5 DEF Grows
  <2>18. PICK R, N \in Marks :
            /\ Unread(c, W, R, N)
            /\ N[Len(W)] = 0 /\ R[Len(W)] = Q[Len(V)] - 1
            /\ N[0] = M[0] /\ R[0] = Q[0]
    BY <2>17
  <2>19. Prefix(W, W)
    BY <2>16, LenProperties DEF Prefix
  <2>20. Len(got[c]) + Len(W) = answered'[c]
    <3>1. Len(got[c]) \in Nat
      BY <1>3, LenProperties
    <3>2. Len(got[c]) + Len(V) = answered[c] /\ Len(W) = Len(V) + Len(u) /\ answered'[c] = answered[c] + Len(u)
      BY <2>9, <2>14, <2>16
    <3>3. Len(V) \in Nat /\ Len(u) \in Nat
      BY <2>7, <2>16
    <3>4. \A a, b, d \in Nat : a + (b + d) = (a + b) + d
      OBVIOUS
    <3>5. Len(got[c]) + (Len(V) + Len(u)) = (Len(got[c]) + Len(V)) + Len(u)
      BY <3>1, <3>3, <3>4, Zenon
    <3> QED
      BY <3>2, <3>5, Zenon
  <2>21. R[Len(W)] = Len(owed'[s])
    BY <2>4, <2>10, <2>14, <2>18
  <2>22. Rest(c, W, R, N)'
    BY <1>2, <2>1, <2>14, <2>16, <2>18, <2>19, <2>20, <2>21 DEF Rest
  <2>23. SearchReply(c)'
    BY <1>2, <2>1, <2>2, <2>11, <2>16, <2>22 DEF SearchReply
  <2>24. Progress(c)'
    <3>1. Progress(c)
      BY DEF Exchange
    <3>2. Prepared(c)' /\ Writing(c)' /\ Ending(c)'
      BY <1>2, <2>2, <3>1 DEF Progress, Prepared, Writing, Ending, After
    <3>3. Waiting(c)'
      BY <1>2, <2>2, <2>23 DEF Waiting, Answering
    <3> QED
      BY <3>2, <3>3 DEF Progress
  <2>25. \A d \in Calls \ {c} : Progress(d)'
    BY <1>2, <2>3, <2>9, OthersProgress
  <2>26. Settled'
    BY <1>2, <1>4, <2>1, <2>9 DEF Exchange, Settled, Quiet
  <2>27. Resting'
    BY <1>2, <2>3 DEF Resting, Idle, Busy
  <2>28. Inboxes'
    BY <1>2 DEF Exchange, Inboxes, Holds, Busy, Fragments
  <2> QED
    BY <2>24, <2>25, <2>26, <2>27, <2>28 DEF Exchange
<1> QED
  BY <1>6, <1>7

LEMMA RestartExchange ==
    ASSUME Exchange, UNCHANGED <<conn, net, call, owed, ran, answered>>
    PROVE  Exchange'
<1>1. UNCHANGED <<connected, writer, opened, link, inbox, outbox, pc, mine, frag, parse, got, outcome, owed, ran, answered>>
  BY DEF conn, net, call
<1>2. Settled' /\ Resting'
  BY <1>1 DEF Exchange, Settled, Resting, Quiet, Idle
<1>3. Inboxes'
  BY <1>1 DEF Exchange, Inboxes, Holds, Busy, Fragments
<1>4. ASSUME NEW c \in Calls PROVE Progress(c)'
  <2>1. Progress(c)
    BY DEF Exchange
  <2>2. Prepared(c)' /\ Ending(c)'
    BY <1>1, <2>1 DEF Progress, Prepared, Begun, NoParse, Ending, Own, Results, Confirms
  <2>3. Writing(c)'
    BY <1>1, <2>1 DEF Progress, Writing, Holds, Fragments
  <2>4. Unasked(c) => Unasked(c)'
    BY <1>1 DEF Unasked, Holds, Begun, Fragments
  <2>5. TextReply(c) => TextReply(c)'
    BY <1>1 DEF TextReply, TextUnit
  <2>6. SearchReply(c) => SearchReply(c)'
    <3> SUFFICES ASSUME SearchReply(c) PROVE SearchReply(c)'
      OBVIOUS
    <3>1. PICK V \in Seq(Unit) : \E Q, M \in Marks : Rest(c, V, Q, M)
      BY DEF SearchReply
    <3>2. PICK Q, M \in Marks : Rest(c, V, Q, M)
      BY <3>1
    <3>3. Rest(c, V, Q, M)'
      BY <1>1, <3>2 DEF Rest, Unread, Prefix
    <3> QED
      BY <1>1, <3>3 DEF SearchReply
  <2>7. Waiting(c)'
    BY <1>1, <2>1, <2>4, <2>5, <2>6 DEF Progress, Waiting, Answering
  <2> QED
    BY <2>2, <2>3, <2>7 DEF Progress
<1> QED
  BY <1>2, <1>3, <1>4 DEF Exchange

LEMMA WorldExchange ==
    ASSUME TypeOK, Connection, Exchange, Connection', World
    PROVE  Exchange'
<1>1. ASSUME NEW s \in Sockets, ServerStep(s) PROVE Exchange'
  <2>1. \A n \in -1 .. MaxHits : n \in Int
    BY Bounds
  <2> QED
    BY <1>1, <2>1, RunCommandExchange, NotGarbled, RejectExchange, AnswerQueryExchange DEF ServerStep
<1>2. ASSUME NEW s \in Sockets, Cut(s) PROVE Exchange'
  BY <1>2, CutExchange
<1>3. CASE Restart
  BY <1>3, RestartExchange DEF Restart
<1> QED
  BY <1>1, <1>2, <1>3, NotCollected, CrashExchange DEF World

-----------------------------------------------------------------------------
(* The calls keep Exchange. *)

(* The steps of one call are nothing to the others. *)
LEMMA CallExchange ==
    ASSUME TypeOK, Exchange, NEW c \in Calls, UNCHANGED <<ran, answered>>,
           \A d \in Calls \ {c} :
              /\ ~Busy(d)
              /\ pc'[d] = pc[d] /\ got'[d] = got[d] /\ parse'[d] = parse[d] /\ outcome'[d] = outcome[d],
           Settled', Resting', Inboxes', Progress(c)'
    PROVE  Exchange'
<1>1. \A d \in Calls \ {c} : Progress(d)'
  BY OthersProgress
<1> QED
  BY <1>1 DEF Exchange

(* A call that has raised or not yet sent anything of use. *)
LEMMA RaisedProgress ==
    ASSUME TypeOK, NEW c \in Calls, Raised(c)
    PROVE  Progress(c)'
<1>1. pc'[c] = "done" /\ outcome'[c] # "ok"
  BY RaisedPlace
<1> QED
  BY <1>1 DEF Progress, Prepared, Writing, Waiting, Ending, After

(* What was sent was not sent by the call that starts: no inbox changes.    *)
LEMMA SameInboxes ==
    ASSUME TypeOK, Exchange, NEW c \in Calls, UNCHANGED inbox,
           \A d \in Calls \ {c} : ~Busy(d) /\ pc'[d] = pc[d],
           pc[c] \in {"idle", "connecting"}
    PROVE  Inboxes'
<1> SUFFICES ASSUME NEW s \in Sockets, inbox[s] # <<>>
             PROVE  \E d \in Calls : \E n \in 1 .. Fragments(d) :
                       Holds(s, d, n)' /\ pc'[d] # "idle" /\ (Busy(d)' => s = writer' /\ pc'[d] # "connecting")
  BY DEF Inboxes, Fragments
<1>1. PICK d \in Calls : \E n \in 1 .. Fragments(d) :
        Holds(s, d, n) /\ pc[d] # "idle" /\ (Busy(d) => s = writer /\ pc[d] # "connecting")
  BY DEF Exchange, Inboxes
<1>2. PICK n \in 1 .. Fragments(d) :
        Holds(s, d, n) /\ pc[d] # "idle" /\ (Busy(d) => s = writer /\ pc[d] # "connecting")
  BY <1>1
<1>3. d # c
  BY <1>2 DEF Busy
<1>4. ~Busy(d) /\ pc'[d] = pc[d]
  BY <1>3
<1>5. Holds(s, d, n)'
  BY <1>2 DEF Holds
<1> QED
  BY <1>2, <1>4, <1>5 DEF Busy

(* Later steps of the call leave an inbox as it is. *)
LEMMA KeptInboxes ==
    ASSUME TypeOK, Exchange, NEW c \in Calls, Busy(c), UNCHANGED inbox,
           \A d \in Calls \ {c} : ~Busy(d) /\ pc'[d] = pc[d],
           UNCHANGED writer \/ pc'[c] = "done", pc'[c] \notin {"idle", "connecting"}
    PROVE  Inboxes'
<1> SUFFICES ASSUME NEW s \in Sockets, inbox[s] # <<>>
             PROVE  \E d \in Calls : \E n \in 1 .. Fragments(d) :
                       Holds(s, d, n)' /\ pc'[d] # "idle" /\ (Busy(d)' => s = writer' /\ pc'[d] # "connecting")
  BY DEF Inboxes, Fragments
<1>1. PICK d \in Calls : \E n \in 1 .. Fragments(d) :
        Holds(s, d, n) /\ pc[d] # "idle" /\ (Busy(d) => s = writer /\ pc[d] # "connecting")
  BY DEF Exchange, Inboxes
<1>2. PICK n \in 1 .. Fragments(d) :
        Holds(s, d, n) /\ pc[d] # "idle" /\ (Busy(d) => s = writer /\ pc[d] # "connecting")
  BY <1>1
<1>3. Holds(s, d, n)'
  BY <1>2 DEF Holds
<1>4. CASE d = c
  BY <1>2, <1>3, <1>4 DEF Busy
<1>5. CASE d # c
  BY <1>2, <1>3, <1>5 DEF Busy
<1> QED
  BY <1>4, <1>5

(* A call that starts or goes on from "connecting" has sent nothing yet.    *)
LEMMA SentProgress ==
    ASSUME TypeOK, NEW c \in Calls, pc'[c] \in {"connecting", "draining", "broken"},
           got'[c] = <<>>, answered'[c] = 0, parse'[c] = Begun(c), outcome'[c] # "ok",
           Writing(c)'
    PROVE  Progress(c)'
  BY DEF Progress, Prepared, Waiting, Ending, Begun, After

LEMMA StartExchange ==
    ASSUME TypeOK, Connection, Exchange, NEW c \in Calls, Idle, Unsendable[c] = 0, Start(c)
    PROVE  Exchange'
<1>1. /\ pc[c] = "idle" /\ parse' = [parse EXCEPT ![c].queries = Queries[c]]
      /\ UNCHANGED <<conn, inbox, outbox, got, server>>
  BY DEF Start
<1>2. UNCHANGED <<connected, writer, opened, owed, ran, answered>>
  BY <1>1 DEF conn, server
<1>3. \A d \in Calls : ~Busy(d)
  BY IdleAlone
<1>4. Progress(c) /\ outcome[c] # "ok" /\ got[c] = <<>> /\ answered[c] = 0 /\ parse[c] = NoParse
  BY <1>1 DEF Exchange, Progress, Prepared, Ending, After
<1>5. parse'[c] = Begun(c) /\ \A d \in Calls \ {c} : parse'[d] = parse[d]
  <2>1. parse \in [Calls -> Parse]
    BY Typed
  <2>2. parse'[c] = [NoParse EXCEPT !.queries = Queries[c]]
    BY <1>1, <1>4, <2>1
  <2> QED
    BY <1>1, <2>1, <2>2 DEF NoParse, Begun
<1>6. link \in [Sockets -> Links] /\ (connected => writer \in Sockets)
  BY Typed DEF Connection, Joined
<1>7. CASE connected /\ Raised(c) /\ UNCHANGED <<link, frag>>
  <2>1. Progress(c)'
    BY <1>7, RaisedProgress
  <2>2. \A d \in Calls \ {c} : pc'[d] = pc[d] /\ outcome'[d] = outcome[d]
    BY <1>7, RaisedPlace
  <2>3. Settled'
    BY <1>1, <1>2, <1>7 DEF Exchange, Settled, Quiet
  <2>4. Resting'
    BY <1>1, <1>2, <1>7 DEF Exchange, Resting, Quiet
  <2>5. Inboxes'
    BY <1>1, <1>3, <2>2, SameInboxes
  <2> QED
    BY <1>1, <1>2, <1>3, <1>5, <2>1, <2>2, <2>3, <2>4, <2>5, CallExchange
<1>8. CASE connected /\ Sent(c, 1, writer, link)
  <2>1. /\ UNCHANGED outcome /\ frag'[c] = 1
        /\ \A d \in Calls \ {c} : pc'[d] = pc[d]
        /\ \A t \in Sockets \ {writer} : link'[t] = link[t]
        /\ \/ /\ pc'[c] = "draining" /\ link[writer] \in Open
              /\ link'[writer] = IF link[writer] = "up" THEN "up" ELSE "stale"
           \/ pc'[c] = "broken" /\ link[writer] \in {"stale", "reset"} /\ link'[writer] = "reset"
    BY <1>6, <1>8, SentPlace
  <2>2. link[writer] \in Open => Quiet(writer)
    BY <1>8 DEF Exchange, Resting
  <2>3. Settled'
    <3>1. link'[writer] # "new" /\ (link'[writer] \in {"fin", "stale"} => Quiet(writer))
      BY <2>1, <2>2
    <3> QED
      BY <1>1, <1>2, <1>6, <1>8, <2>1, <3>1 DEF Exchange, Settled, Quiet
  <2>4. Resting'
    BY <2>1 DEF Resting, Idle
  <2>5. Inboxes'
    BY <1>1, <1>3, <2>1, SameInboxes
  <2>6. Writing(c)'
    <3>1. SUFFICES ASSUME pc'[c] = "draining" PROVE Writing(c)'
      BY DEF Writing
    <3>2. Quiet(writer)
      BY <2>1, <2>2, <3>1
    <3>3. 1 \in 1 .. Fragments(c) /\ 1 - 1 = 0 /\ Len(<<>>) = 0
      BY FragmentsNat
    <3>4. Holds(writer, c, 1 - 1)'
      BY <1>1, <1>2, <3>2, <3>3 DEF Quiet, Holds
    <3> QED
      BY <1>1, <1>2, <2>1, <3>2, <3>3, <3>4 DEF Writing, Quiet, Fragments
  <2>7. Progress(c)'
    BY <1>1, <1>2, <1>4, <1>5, <2>1, <2>6, SentProgress
  <2> QED
    BY <1>1, <1>2, <1>3, <1>5, <2>1, <2>3, <2>4, <2>5, <2>7, CallExchange
<1>9. CASE ~connected /\ Await(c, "connecting", None) /\ UNCHANGED <<link, frag>>
  <2>1. pc'[c] = "connecting" /\ UNCHANGED outcome /\ \A d \in Calls \ {c} : pc'[d] = pc[d]
    BY <1>9, AwaitPlace
  <2>2. Settled'
    BY <1>1, <1>2, <1>9 DEF Exchange, Settled, Quiet
  <2>3. Resting'
    BY <1>2, <1>9 DEF Resting
  <2>4. Inboxes'
    BY <1>1, <1>3, <2>1, SameInboxes
  <2>5. Writing(c)'
    BY <2>1 DEF Writing
  <2>6. Progress(c)'
    BY <1>1, <1>2, <1>4, <1>5, <2>1, <2>5, SentProgress
  <2> QED
    BY <1>1, <1>2, <1>3, <1>5, <2>1, <2>2, <2>3, <2>4, <2>6, CallExchange
<1> QED
  BY <1>7, <1>8, <1>9, StartContract

LEMMA OpenedExchange ==
    ASSUME TypeOK, Connection, Exchange, NEW c \in Calls, Opened(c)
    PROVE  Exchange'
<1>1. /\ pc[c] = "connecting" /\ opened + 1 \in Sockets /\ link[opened + 1] = "new"
      /\ link' = [link EXCEPT ![opened + 1] = "up"]
  BY OpenedContract
<1>2. /\ opened' = opened + 1 /\ writer' = opened + 1 /\ connected' = TRUE
      /\ UNCHANGED <<inbox, outbox, parse, got, owed, ran, answered>>
  BY DEF Opened, server
<1>10. PICK s \in Sockets : s = opened + 1
  BY <1>1
<1>3. link[s] = "new" /\ link'[s] = "up" /\ \A t \in Sockets \ {s} : link'[t] = link[t]
  BY <1>1, <1>10, Typed
<1>4. writer' = s /\ inbox'[s] = <<>> /\ outbox'[s] = <<>> /\ owed'[s] = <<>>
  BY <1>2, <1>3, <1>10 DEF Exchange, Settled, Quiet
<1>5. Busy(c) /\ \A d \in Calls \ {c} : ~Busy(d)
  BY <1>1, Alone DEF Busy, Connection
<1>6. outcome[c] # "ok" /\ got[c] = <<>> /\ answered[c] = 0 /\ parse[c] = Begun(c)
  BY <1>1 DEF Exchange, Progress, Prepared, Ending, After
<1>7. Settled'
  BY <1>2, <1>3 DEF Exchange, Settled, Quiet
<1>8. CASE Raised(c) /\ UNCHANGED frag
  <2>1. Progress(c)'
    BY <1>8, RaisedProgress
  <2>2. \A d \in Calls \ {c} : pc'[d] = pc[d] /\ outcome'[d] = outcome[d]
    BY <1>8, RaisedPlace
  <2>3. Resting'
    BY <1>4 DEF Resting, Quiet
  <2>4. Inboxes'
    BY <1>1, <1>2, <1>5, <2>2, SameInboxes
  <2> QED
    BY <1>2, <1>5, <1>7, <2>1, <2>2, <2>3, <2>4, CallExchange
<1>9. CASE frag' = [frag EXCEPT ![c] = 1] /\ Await(c, "draining", opened + 1)
  <2>1. pc'[c] = "draining" /\ UNCHANGED outcome /\ \A d \in Calls \ {c} : pc'[d] = pc[d]
    BY <1>9, AwaitPlace
  <2>2. frag'[c] = 1
    BY <1>9, Typed
  <2>3. Resting'
    BY <2>1 DEF Resting, Idle
  <2>4. Inboxes'
    BY <1>1, <1>2, <1>5, <2>1, SameInboxes
  <2>5. Writing(c)'
    <3>1. 1 \in 1 .. Fragments(c) /\ 1 - 1 = 0 /\ Len(<<>>) = 0
      BY FragmentsNat
    <3>2. inbox'[writer'] = <<>> /\ outbox'[writer'] = <<>> /\ owed'[writer'] = <<>>
      BY <1>4
    <3>3. Len(inbox'[writer']) = 0
      BY <3>1, <3>2
    <3> QED
      BY <2>2, <3>1, <3>2, <3>3 DEF Writing, Holds, Fragments
  <2>6. Progress(c)'
    BY <1>2, <1>6, <2>1, <2>5, SentProgress DEF Begun
  <2> QED
    BY <1>2, <1>5, <1>7, <2>1, <2>3, <2>4, <2>6, CallExchange
<1> QED
  BY <1>8, <1>9, OpenedContract

LEMMA RefusedExchange ==
    ASSUME TypeOK, Connection, Exchange, NEW c \in Calls, Refused(c)
    PROVE  Exchange'
<1>1. /\ pc[c] = "connecting" /\ Raised(c)
      /\ UNCHANGED <<connected, writer, inbox, outbox, parse, got, owed, ran, answered>>
      /\ \/ writer = None /\ UNCHANGED link
         \/ writer # None /\ link' = [link EXCEPT ![writer] = Shut(@)]
  BY RefusedContract DEF conn, server
<1>2. Busy(c) /\ ~connected /\ \A d \in Calls \ {c} : ~Busy(d)
  BY <1>1, Alone DEF Busy, Connection, Standing, Stands
<1>3. \A d \in Calls \ {c} : pc'[d] = pc[d] /\ outcome'[d] = outcome[d]
  BY <1>1, RaisedPlace
<1>4. \A s \in Sockets : link'[s] \in {"fin", "stale", "new"} => link[s] = link'[s]
  BY <1>1, <1>2, Typed DEF Connection, Joined, Shut
<1>5. Settled'
  BY <1>1, <1>4 DEF Exchange, Settled, Quiet
<1>6. Resting'
  BY <1>1, <1>2 DEF Resting
<1>7. Inboxes'
  BY <1>1, <1>2, <1>3, SameInboxes
<1>8. Progress(c)'
  BY <1>1, RaisedProgress
<1> QED
  BY <1>1, <1>2, <1>3, <1>5, <1>6, <1>7, <1>8, CallExchange

(* The fragment that is sent comes after those before it. *)
LEMMA AppendHolds ==
    ASSUME TypeOK, NEW c \in Calls, NEW s \in Sockets, NEW f \in Nat \ {0}, Holds(s, c, f - 1),
           inbox' = [inbox EXCEPT ![s] = Append(@, [call |-> c, n |-> f])]
    PROVE  Holds(s, c, f)'
<1> DEFINE e == [call |-> c, n |-> f]
<1>1. inbox[s] \in Seq(Fragment) /\ e \in Fragment /\ Len(inbox[s]) = f - 1
  BY InboxTyped DEF Fragment, Holds
<1>2. inbox'[s] = Append(inbox[s], e)
  BY Typed
<1>5. \A i \in 1 .. f - 1 : inbox[s][i] = [call |-> c, n |-> i]
  BY DEF Holds
<1> HIDE DEF e
<1>3. /\ Len(Append(inbox[s], e)) = Len(inbox[s]) + 1
      /\ Append(inbox[s], e)[Len(inbox[s]) + 1] = e
      /\ \A i \in 1 .. Len(inbox[s]) : Append(inbox[s], e)[i] = inbox[s][i]
  BY <1>1, AppendProperties
<1>4. Len(inbox'[s]) = f /\ inbox'[s][f] = e /\ \A i \in 1 .. f - 1 : inbox'[s][i] = inbox[s][i]
  <2>1. (f - 1) + 1 = f
    OBVIOUS
  <2> QED
    BY <1>1, <1>2, <1>3, <2>1
<1>6. ASSUME NEW i \in 1 .. f PROVE inbox'[s][i] = [call |-> c, n |-> i]
  <2>1. CASE i = f
    BY <1>4, <2>1 DEF e
  <2>2. CASE i # f
    <3>1. i \in 1 .. f - 1
      BY <2>2
    <3> QED
      BY <1>4, <1>5, <3>1
  <2> QED
    BY <2>1, <2>2
<1> QED
  BY <1>4, <1>6 DEF Holds

LEMMA DrainedExchange ==
    ASSUME TypeOK, Connection, Exchange, Once, NEW c \in Calls, Drained(c)
    PROVE  Exchange'
<1>1. /\ pc[c] = "draining" /\ connected /\ mine[c] = writer /\ writer \in Sockets
      /\ link[writer] \in Open
      /\ inbox' = IF link[writer] = "up"
                  THEN [inbox EXCEPT ![writer] = Append(@, [call |-> c, n |-> frag[c]])]
                  ELSE inbox
  BY DrainedContract
<1>2. UNCHANGED <<outbox, parse, got, owed, ran, answered>>
  BY DEF Drained, server
<1>3. Busy(c) /\ \A d \in Calls \ {c} : ~Busy(d)
  BY <1>1, Alone DEF Busy, Connection
<1>4. /\ frag[c] \in 1 .. Fragments(c) /\ Fragments(c) \in Nat
      /\ link[writer] = "up" => Holds(writer, c, frag[c] - 1)
      /\ outbox[writer] = <<>> /\ owed[writer] = <<>>
      /\ got[c] = <<>> /\ answered[c] = 0 /\ parse[c] = Begun(c) /\ outcome[c] # "ok"
  BY <1>1, FragmentsNat DEF Exchange, Progress, Prepared, Writing, Ending, After
<1>5. \A t \in Sockets \ {writer} : inbox'[t] = inbox[t]
  BY <1>1, Typed
<1>6. PICK s \in Sockets : s = writer
  BY <1>1
<1>7. PICK f \in Nat \ {0} : f = frag[c]
  BY <1>4
<1>8. link[s] = "up" => Holds(s, c, f)'
  BY <1>1, <1>4, <1>6, <1>7, AppendHolds
<1>9. link[s] # "up" => inbox'[s] = <<>> /\ owed'[s] = <<>>
  BY <1>1, <1>2, <1>6 DEF Exchange, Settled, Open
(* Where it goes on, its connection has what it has sent. *)
<1>10. ASSUME UNCHANGED writer, pc'[c] # "idle", pc'[c] # "connecting",
              \A d \in Calls \ {c} : pc'[d] = pc[d]
       PROVE  Inboxes'
  <2>1. SUFFICES ASSUME NEW t \in Sockets, inbox'[t] # <<>>
                 PROVE  \E d \in Calls : \E n \in 1 .. Fragments(d) :
                           Holds(t, d, n)' /\ pc'[d] # "idle" /\ (Busy(d)' => t = writer' /\ pc'[d] # "connecting")
    BY DEF Inboxes, Fragments
  <2>2. CASE t = s
    <3>1. Holds(t, c, f)' /\ f \in 1 .. Fragments(c)
      BY <1>1, <1>4, <1>6, <1>7, <1>8, <1>9, <2>1, <2>2
    <3> QED
      BY <1>6, <1>10, <2>2, <3>1
  <2>3. CASE t # s
    <3>1. inbox'[t] = inbox[t]
      BY <1>5, <1>6, <2>3
    <3>2. PICK d \in Calls : \E n \in 1 .. Fragments(d) :
            Holds(t, d, n) /\ pc[d] # "idle" /\ (Busy(d) => t = writer /\ pc[d] # "connecting")
      BY <2>1, <3>1 DEF Exchange, Inboxes
    <3>3. PICK n \in 1 .. Fragments(d) :
            Holds(t, d, n) /\ pc[d] # "idle" /\ (Busy(d) => t = writer /\ pc[d] # "connecting")
      BY <3>2
    <3>4. d # c
      BY <1>3, <1>6, <2>3, <3>3
    <3>5. pc'[d] = pc[d] /\ ~Busy(d)' /\ Holds(t, d, n)'
      BY <1>3, <1>10, <3>1, <3>3, <3>4 DEF Busy, Holds
    <3> QED
      BY <3>3, <3>5
  <2> QED
    BY <2>2, <2>3
<1>11. CASE frag[c] < Fragments(c) /\ Sent(c, frag[c] + 1, writer, link) /\ UNCHANGED conn
  <2>0. UNCHANGED <<connected, writer, opened>> /\ link \in [Sockets -> Links] /\ Sent(c, f + 1, s, link)
    BY <1>6, <1>7, <1>11, Typed DEF conn
  <2>1. /\ UNCHANGED outcome /\ frag'[c] = f + 1
        /\ \A d \in Calls \ {c} : pc'[d] = pc[d]
        /\ \A t \in Sockets \ {s} : link'[t] = link[t]
        /\ \/ /\ pc'[c] = "draining" /\ link[s] \in Open
              /\ link'[s] = IF link[s] = "up" THEN "up" ELSE "stale"
           \/ pc'[c] = "broken" /\ link[s] \in {"stale", "reset"} /\ link'[s] = "reset"
    BY <2>0, SentPlace
  <2>2. Settled'
    <3>1. link'[s] # "new" /\ (link'[s] \in {"fin", "stale"} => inbox'[s] = <<>> /\ owed'[s] = <<>>)
      BY <1>9, <2>1
    <3> QED
      BY <1>2, <1>5, <1>6, <2>1, <3>1 DEF Exchange, Settled, Quiet
  <2>3. Resting'
    BY <2>1 DEF Resting, Idle
  <2>4. Inboxes'
    BY <1>10, <2>0, <2>1
  <2>5. Writing(c)'
    <3>1. SUFFICES ASSUME pc'[c] = "draining" PROVE Writing(c)'
      BY DEF Writing
    <3>2. f + 1 \in 1 .. Fragments(c) /\ (f + 1) - 1 = f
      BY <1>4, <1>7, <1>11
    <3>3. link'[s] = "up" => Holds(s, c, f)'
      BY <1>8, <2>1, <3>1
    <3>4. frag'[c] - 1 = f /\ frag'[c] \in 1 .. Fragments(c)
      BY <2>1, <3>2
    <3> QED
      BY <1>2, <1>4, <1>6, <2>0, <3>3, <3>4 DEF Writing, Holds, Fragments
  <2>6. Progress(c)'
    BY <1>2, <1>4, <2>1, <2>5, SentProgress DEF Begun
  <2> QED
    BY <1>2, <1>3, <2>1, <2>2, <2>3, <2>4, <2>6, CallExchange
<1>12. CASE /\ frag[c] = Fragments(c) /\ UNCHANGED <<writer, opened, frag>>
            /\ Op[c] = "SEARCH" /\ parse[c] = NoParse /\ Closes(c)
  <2>1. /\ pc'[c] = "closing" /\ UNCHANGED outcome
        /\ \A d \in Calls \ {c} : pc'[d] = pc[d]
        /\ connected' = FALSE
        /\ \A t \in Sockets \ {writer} : link'[t] = link[t]
        /\ link'[writer] = Shut(link[writer])
    BY <1>1, <1>12, ClosesPlace
  <2>2. link'[writer] \notin {"fin", "stale", "new"}
    BY <2>1 DEF Shut
  <2>3. Settled'
    BY <1>2, <1>5, <2>1, <2>2 DEF Exchange, Settled, Quiet
  <2>4. Resting'
    BY <2>1 DEF Resting
  <2>5. Inboxes'
    BY <1>10, <1>12, <2>1
  <2>6. Queries[c] = 0
    BY <1>4, <1>12 DEF Begun, NoParse
  <2>7. Progress(c)'
    <3>1. Len(<<>>) = 0 /\ ~(0 > 0)
      OBVIOUS
    <3>2. Own(c)'
      BY <1>2, <1>4, <1>12, <2>6, <3>1 DEF Own
    <3> QED
      BY <1>4, <2>1, <3>2 DEF Progress, Prepared, Writing, Waiting, Ending, After
  <2> QED
    BY <1>2, <1>3, <2>1, <2>3, <2>4, <2>5, <2>7, CallExchange
<1>13. CASE /\ frag[c] = Fragments(c) /\ UNCHANGED <<writer, opened, frag>>
            /\ Await(c, "reading", writer) /\ UNCHANGED <<connected, link>>
  <2>1. pc'[c] = "reading" /\ UNCHANGED outcome /\ \A d \in Calls \ {c} : pc'[d] = pc[d]
    BY <1>13, AwaitPlace
  <2>2. Settled'
    BY <1>1, <1>2, <1>5, <1>6, <1>9, <1>13 DEF Exchange, Settled, Quiet, Open
  <2>3. Resting'
    BY <2>1 DEF Resting, Idle
  <2>4. Inboxes'
    BY <1>10, <1>13, <2>1
  <2>5. ran[c] = 0
    BY <1>1 DEF Once, After
  <2>6. Unasked(c)'
    <3>1. link'[writer'] = "up" => Holds(s, c, f)'
      BY <1>6, <1>8, <1>13
    <3>2. link'[writer'] = "up" => Len(inbox'[writer']) = Fragments(c)
                                   /\ \A i \in 1 .. Fragments(c) : inbox'[writer'][i] = [call |-> c, n |-> i]
      BY <1>6, <1>7, <1>13, <3>1 DEF Holds
    <3> QED
      BY <1>2, <1>4, <1>13, <2>5, <3>2 DEF Unasked, Begun, Holds, Fragments
  <2>7. Progress(c)'
    BY <1>4, <2>1, <2>6 DEF Progress, Prepared, Writing, Waiting, Ending, After
  <2> QED
    BY <1>2, <1>3, <2>1, <2>2, <2>3, <2>4, <2>7, CallExchange
<1> QED
  BY <1>11, <1>12, <1>13, DrainedContract

LEMMA RecloseExchange ==
    ASSUME TypeOK, Connection, Exchange, NEW c \in Calls, Reclose(c)
    PROVE  Exchange'
<1>1. /\ pc[c] \in {"draining", "broken"} /\ connected' = FALSE
      /\ UNCHANGED <<writer, opened, link, inbox, outbox, frag, parse, got, owed, ran, answered>>
      /\ Await(c, "reclosing", writer)
  BY RecloseContract DEF server
<1>2. Busy(c) /\ \A d \in Calls \ {c} : ~Busy(d)
  BY <1>1, Alone DEF Busy, Connection
<1>3. pc'[c] = "reclosing" /\ UNCHANGED outcome /\ \A d \in Calls \ {c} : pc'[d] = pc[d]
  BY <1>1, AwaitPlace
<1>4. Settled' /\ Resting'
  BY <1>1 DEF Exchange, Settled, Quiet, Resting
<1>5. Inboxes'
  BY <1>1, <1>2, <1>3, KeptInboxes
<1>6. Progress(c)'
  BY <1>1, <1>3 DEF Exchange, Progress, Prepared, Writing, Waiting, Ending, After
<1> QED
  BY <1>1, <1>2, <1>3, <1>4, <1>5, <1>6, CallExchange

LEMMA WaitClosedExchange ==
    ASSUME TypeOK, Connection, Exchange, NEW c \in Calls, WaitClosed(c)
    PROVE  Exchange'
<1>1. /\ pc[c] \in {"closing", "reclosing"} /\ ~connected
      /\ UNCHANGED <<connected, link, inbox, outbox, parse, got, owed, ran, answered>>
      /\ \/ Raised(c)
         \/ pc[c] = "closing" /\ \E r \in Results(c, got[c]) : Return(c, r)
  BY WaitClosedContract DEF net, server
<1>2. Busy(c) /\ \A d \in Calls \ {c} : ~Busy(d)
  BY <1>1, Alone DEF Busy, Connection
<1>3. Settled' /\ Resting'
  BY <1>1 DEF Exchange, Settled, Quiet, Resting
<1>4. /\ pc'[c] = "done" /\ \A d \in Calls \ {c} : pc'[d] = pc[d] /\ outcome'[d] = outcome[d]
      /\ outcome'[c] = "ok" => pc[c] = "closing" /\ "ok" \in Results(c, got[c])
  <2>1. CASE Raised(c)
    BY <2>1, RaisedPlace
  <2>2. ASSUME NEW r \in Results(c, got[c]), pc[c] = "closing", Return(c, r)
        PROVE  /\ pc'[c] = "done" /\ \A d \in Calls \ {c} : pc'[d] = pc[d] /\ outcome'[d] = outcome[d]
               /\ outcome'[c] = "ok" => pc[c] = "closing" /\ "ok" \in Results(c, got[c])
    BY <2>2, ReturnPlace
  <2> QED
    BY <1>1, <2>1, <2>2
<1>5. Inboxes'
  BY <1>1, <1>2, <1>4, KeptInboxes
<1>6. Progress(c)'
  <2>1. outcome'[c] = "ok" => Own(c)
    BY <1>4 DEF Exchange, Progress, Ending
  <2>2. Own(c) => Own(c)'
    BY <1>1 DEF Own
  <2> QED
    BY <1>4, <2>1, <2>2 DEF Progress, Prepared, Writing, Waiting, Ending, After
<1> QED
  BY <1>1, <1>2, <1>3, <1>4, <1>5, <1>6, CallExchange

LEMMA ReadFailsExchange ==
    ASSUME TypeOK, Connection, Exchange, NEW c \in Calls, ReadFails(c)
    PROVE  Exchange'
<1>1. /\ pc[c] = "reading" /\ link[writer] = "reset" /\ Raised(c)
      /\ UNCHANGED <<connected, writer, opened, link, inbox, outbox, frag, parse, got, owed, ran, answered>>
  BY ReadFailsContract DEF conn, net, server
<1>2. Busy(c) /\ \A d \in Calls \ {c} : ~Busy(d)
  BY <1>1, Alone DEF Busy, Connection
<1>3. pc'[c] = "done" /\ \A d \in Calls \ {c} : pc'[d] = pc[d] /\ outcome'[d] = outcome[d]
  BY <1>1, RaisedPlace
<1>4. Settled' /\ Resting'
  BY <1>1 DEF Exchange, Settled, Quiet, Resting, Open
<1>5. Inboxes'
  BY <1>1, <1>2, <1>3, KeptInboxes
<1>6. Progress(c)'
  BY <1>1, RaisedProgress
<1> QED
  BY <1>1, <1>2, <1>3, <1>4, <1>5, <1>6, CallExchange

(* The reply to a call other than search is one unit of text. *)
LEMMA ReadTextExchange ==
    ASSUME TypeOK, Connection, Exchange, NEW c \in Calls, NEW n \in Nat, ReadText(c, n)
    PROVE  Exchange'
<1>1. /\ pc[c] = "reading" /\ writer \in Sockets /\ link[writer] \in Open /\ Op[c] # "SEARCH"
      /\ n <= Len(outbox[writer])
      /\ outbox' = [outbox EXCEPT ![writer] = SubSeq(@, n + 1, Len(@))]
      /\ got' = [got EXCEPT ![c] = SubSeq(outbox[writer], 1, n)]
      /\ Closes(c)
      /\ UNCHANGED <<writer, opened, inbox, frag, parse, owed, ran, answered>>
  BY ReadTextContract DEF server, ReadText
<1>2. Busy(c) /\ \A d \in Calls \ {c} : ~Busy(d)
  BY <1>1, Alone DEF Busy, Connection
<1>3. /\ pc'[c] = "closing" /\ UNCHANGED outcome
      /\ \A d \in Calls \ {c} : pc'[d] = pc[d]
      /\ connected' = FALSE
      /\ \A t \in Sockets \ {writer} : link'[t] = link[t]
      /\ link'[writer] = Shut(link[writer])
  BY <1>1, ClosesPlace
<1>4. /\ \A d \in Calls \ {c} : got'[d] = got[d]
      /\ got'[c] = SubSeq(outbox[writer], 1, n)
      /\ \A t \in Sockets \ {writer} : outbox'[t] = outbox[t]
  BY <1>1, Typed
<1>5. link'[writer] \notin {"fin", "stale", "new"}
  BY <1>3 DEF Shut
<1>6. Settled'
  BY <1>1, <1>3, <1>4, <1>5 DEF Exchange, Settled, Quiet
<1>7. Resting'
  BY <1>3 DEF Resting
<1>8. Inboxes'
  BY <1>1, <1>2, <1>3, KeptInboxes
<1>9. ASSUME "ok" \in Results(c, got'[c]) PROVE Own(c)'
  <2>1. Len(got'[c]) = 1
    <3>1. "ok" # "PeriplusServerError" /\ "ok" # "UnicodeDecodeError"
      OBVIOUS
    <3> QED
      BY <1>1, <1>9, <3>1 DEF Results
  <2>2. outbox[writer] \in Seq(Unit) /\ n \in 0 .. Len(outbox[writer])
    BY <1>1, Typed, LenProperties
  <2>3. Len(SubSeq(outbox[writer], 1, n)) = n /\ \A i \in 1 .. n : SubSeq(outbox[writer], 1, n)[i] = outbox[writer][i]
    BY <2>2, TakeTyped
  <2>4. n = 1 /\ got'[c][1] = outbox[writer][1]
    BY <1>4, <2>1, <2>3
  <2>5. outbox[writer] # <<>>
    <3>1. Len(<<>>) = 0
      OBVIOUS
    <3> QED
      BY <1>1, <2>4, <3>1
  <2>6. Answering(c)
    BY <1>1, <2>5 DEF Exchange, Progress, Waiting, Unasked, Open
  <2>7. PICK k \in {0, 1} : outbox[writer] = <<TextUnit(c, k)>>
    BY <1>1, <2>5, <2>6 DEF Answering, TextReply
  <2>8. got'[c][1].of = c
    BY <2>4, <2>7 DEF TextUnit
  <2>9. answered'[c] = 1 /\ ran'[c] > 0
    BY <1>1, <2>6 DEF Answering, TextReply
  <2>10. \A i \in 1 .. 1 : i = 1
    OBVIOUS
  <2> QED
    BY <2>1, <2>8, <2>9, <2>10 DEF Own
<1>10. outcome[c] # "ok"
  BY <1>1 DEF Exchange, Progress, Ending
<1>11. Progress(c)'
  <2>1. Ending(c)'
    <3>1. "ok" \in Results(c, got[c])' => "ok" \in Results(c, got'[c])
      BY DEF Results, Confirms
    <3> QED
      BY <1>3, <1>9, <1>10, <3>1 DEF Ending
  <2> QED
    BY <1>3, <2>1 DEF Progress, Prepared, Writing, Waiting, After
<1> QED
  BY <1>1, <1>2, <1>3, <1>4, <1>6, <1>7, <1>8, <1>11, CallExchange

(* What Q and M say after j units is what p says. *)
Marked(Q, M, j, p) == Q[j] = p.queries /\ M[j] = 3 * p.fields + p.need /\ p.need \in {0, 1}

(* These are units that search asks for at p. *)
Takes(p, units) ==
    /\ Len(units) > 0 /\ Len(units) <= Asked(p)
    /\ p.need > 0 \/ Len(units) = Asked(p)

(* The upper half of the length whose lower half is u. *)
LEMMA HighUnit ==
    ASSUME NEW u \in [of : Calls, part : Parts, n : Int, at : Nat]
    PROVE  [u EXCEPT !.part = "high", !.n = 0, !.at = @ + 1] = [of |-> u.of, part |-> "high", n |-> 0, at |-> u.at + 1]
<1>1. u.at + 1 \in Nat /\ "high" \in Parts
  BY DEF Parts
<1>2. PICK f \in Nat : f = u.at + 1
  BY <1>1
<1> DEFINE T == [of : Calls, part : Parts, n : Int, at : Nat]
           v == [u EXCEPT !.part = "high"]
           w == [v EXCEPT !.n = 0]
           x == [w EXCEPT !.at = f]
<1>3. v \in T /\ v.of = u.of /\ v.part = "high" /\ v.at = u.at
  BY <1>1
<1>4. x = [u EXCEPT !.part = "high", !.n = 0, !.at = @ + 1]
  BY <1>2
<1> HIDE DEF v
<1>5. w \in T /\ w.of = u.of /\ w.part = "high" /\ w.n = 0 /\ w.at = u.at
  BY <1>3
<1> HIDE DEF w
<1>6. x \in T /\ x.of = u.of /\ x.part = "high" /\ x.n = 0 /\ x.at = f
  BY <1>5
<1> HIDE DEF x
<1>7. x = [of |-> x.of, part |-> x.part, n |-> x.n, at |-> x.at]
  BY <1>6
<1> QED
  BY <1>2, <1>4, <1>6, <1>7

LEMMA AskedOne == \A p : p.need = 1 => \A n \in Nat \ {0} : n <= Asked(p) => n = 1
<1> SUFFICES ASSUME NEW p, p.need = 1, NEW n \in Nat \ {0}, n <= Asked(p) PROVE n = 1
  OBVIOUS
<1>1. Asked(p) = 1
  BY DEF Asked
<1> QED
  BY <1>1

(* What a search makes of the next units is what the server meant by them.  *)
LEMMA ParsedRest ==
    ASSUME NEW c \in Calls, NEW V \in Seq(Unit), NEW Q \in Marks, NEW M \in Marks,
           Unread(c, V, Q, M), NEW p \in Parse, Marked(Q, M, 0, p),
           NEW units \in Seq(Unit), Prefix(units, V), Takes(p, units), NEW q \in Parsed(p, units)
    PROVE  Marked(Q, M, Len(units), q)
<1>9. /\ Q[0] = p.queries /\ M[0] = 3 * p.fields + p.need /\ p.need \in {0, 1}
      /\ Len(units) > 0 /\ Len(units) <= Len(V)
      /\ \A i \in 1 .. Len(units) : units[i] = V[i]
      /\ Len(units) <= Asked(p)
  BY DEF Marked, Prefix, Takes
<1>10. p.need > 0 \/ Len(units) = Asked(p)
  BY DEF Takes
<1>1. p.queries \in Nat /\ p.fields \in Nat /\ p.need \in Nat /\ Len(units) \in Nat /\ Len(V) \in Nat
  BY LenProperties DEF Parse
<1>2. 1 \in 1 .. Len(V) /\ 1 \in 1 .. Len(units) /\ units[1] = V[1] /\ 1 - 1 = 0
  BY <1>1, <1>9
<1>3. /\ V[1].of = c
      /\ M[0] = 0 =>
            /\ V[1].part = "count"
            /\ Q[1] = Q[0] - 1
            /\ M[1] = IF V[1].n > 0 THEN 12 * V[1].n ELSE 0
      /\ M[0] > 0 =>
            /\ Q[1] = Q[0]
            /\ M[1] = M[0] - 1
            /\ M[0] % 3 = 0 =>
                  /\ V[1].part = "low" /\ V[1].n = 1
                  /\ V[2] = [of |-> c, part |-> "high", n |-> 0, at |-> V[1].at + 1]
  <2>1. 1 + 1 = 2
    OBVIOUS
  <2> QED
    BY <1>2, <2>1 DEF Unread
<1>8. V[1] \in Unit
  BY <1>2
<1>4. V[1] \in [of : Calls, part : Parts, n : Int, at : Nat]
  BY <1>8 DEF Unit
<1>5. CASE p.need = 1
  <2>1. Len(units) = 1
    <3>1. Len(units) \in Nat \ {0} /\ Len(units) <= Asked(p)
      BY <1>1, <1>9
    <3> QED
      BY <1>5, <3>1, AskedOne, Zenon
  <2>2. q = [p EXCEPT !.need = 1 - 1]
    BY <1>5, <2>1 DEF Parsed
  <2>3. q.queries = p.queries /\ q.fields = p.fields /\ q.need = 0
    BY <2>2 DEF Parse
  <2>4. M[0] > 0 /\ M[0] - 1 = 3 * p.fields
    BY <1>1, <1>5, <1>9
  <2> QED
    BY <1>1, <1>3, <1>9, <2>1, <2>3, <2>4 DEF Marked
<1>6. CASE p.need = 0 /\ p.fields > 0
  <2>1. Asked(p) = 2 /\ Len(units) = 2
    BY <1>1, <1>6, <1>10 DEF Asked
  <2>2. M[0] > 0 /\ M[0] % 3 = 0 /\ M[0] - 1 > 0
    BY <1>1, <1>6, <1>9
  <2>3. V[1].part = "low" /\ V[1].n = 1 /\ V[2] = [of |-> c, part |-> "high", n |-> 0, at |-> V[1].at + 1]
        /\ Q[1] = Q[0] /\ M[1] = M[0] - 1
    BY <1>3, <2>2
  <2>4. units[2] = V[2] /\ 2 \in 1 .. Len(V) /\ 2 - 1 = 1
    BY <1>1, <1>9, <2>1
  <2>5. Q[2] = Q[1] /\ M[2] = M[1] - 1
    <3>1. M[2 - 1] > 0 => Q[2] = Q[2 - 1] /\ M[2] = M[2 - 1] - 1
      BY <2>4, Zenon DEF Unread
    <3>2. M[1] > 0
      BY <2>2, <2>3
    <3> QED
      BY <2>4, <3>1, <3>2
  <2>6. [V[1] EXCEPT !.part = "high", !.n = 0, !.at = @ + 1] = [of |-> c, part |-> "high", n |-> 0, at |-> V[1].at + 1]
    BY <1>3, <1>4, HighUnit
  <2>7. Numbers(units) = {1}
    BY <1>2, <2>1, <2>3, <2>4, <2>6 DEF Numbers
  <2>8. q = [p EXCEPT !.fields = @ - 1, !.need = 1]
    BY <1>6, <2>7 DEF Parsed
  <2>9. q.queries = p.queries /\ q.fields = p.fields - 1 /\ q.need = 1
    BY <2>8 DEF Parse
  <2>10. (M[0] - 1) - 1 = 3 * (p.fields - 1) + 1
    BY <1>1, <1>6, <1>9
  <2> QED
    BY <1>9, <2>1, <2>3, <2>5, <2>9, <2>10 DEF Marked
<1>7. CASE p.need = 0 /\ p.fields = 0
  <2>1. Asked(p) = 1 /\ Len(units) = 1
    BY <1>1, <1>7, <1>10 DEF Asked
  <2>2. M[0] = 0
    BY <1>7, <1>9
  <2>3. V[1].part = "count" /\ Q[1] = Q[0] - 1 /\ M[1] = IF V[1].n > 0 THEN 12 * V[1].n ELSE 0
    BY <1>3, <2>2
  <2>4. Numbers(units) = {V[1].n}
    BY <1>2, <2>1, <2>3 DEF Numbers
  <2>5. q = [p EXCEPT !.queries = @ - 1, !.fields = IF V[1].n > 0 THEN Fields * V[1].n ELSE 0]
    BY <1>7, <2>4 DEF Parsed
  <2>6. q.queries = p.queries - 1 /\ q.fields = (IF V[1].n > 0 THEN Fields * V[1].n ELSE 0) /\ q.need = 0
    BY <1>7, <2>5 DEF Parse
  <2>7. M[1] = 3 * q.fields + 0
    BY <1>4, <2>3, <2>6 DEF Fields
  <2> QED
    BY <1>9, <2>1, <2>3, <2>6, <2>7 DEF Marked
<1> QED
  BY <1>1, <1>5, <1>6, <1>7, <1>9

(* A search that keeps the contract and cannot go on leaves nothing behind. *)
LEMMA UnreadableEnds ==
    ASSUME TypeOK, Connection, Exchange, NEW c \in Calls, NEW n \in Nat, ReadRecords(c, n),
           parse[c].need > 0 \/ n = Asked(parse[c]) \/ (link[writer] # "up" /\ n = Len(outbox[writer])),
           Unreadable(c, n)
    PROVE  link[writer] # "up" /\ n = Len(outbox[writer])
<1>1. /\ pc[c] = "reading" /\ writer \in Sockets /\ link[writer] \in Open /\ Op[c] = "SEARCH"
      /\ n <= Len(outbox[writer])
      /\ n = 0 => outbox[writer] = <<>> /\ link[writer] # "up"
  BY ReadRecordsContract DEF ReadRecords
<1>2. outbox[writer] \in Seq(Unit) /\ Len(outbox[writer]) \in Nat /\ Len(<<>>) = 0 /\ parse[c] \in Parse
  BY <1>1, Typed, LenProperties
<1>3. CASE parse[c].need = 0 /\ n < Asked(parse[c])
  BY <1>3 DEF Asked
<1>4. CASE parse[c].need > 0 /\ n = 0
  BY <1>1, <1>2, <1>4
<1>5. CASE /\ parse[c].need > 0 /\ n = parse[c].need
           /\ \E i \in 1 .. n : SubSeq(outbox[writer], 1, n)[i].part # "body"
  <2>1. PICK i \in 1 .. n : SubSeq(outbox[writer], 1, n)[i].part # "body"
    BY <1>5
  <2>2. \A j \in 1 .. n : SubSeq(outbox[writer], 1, n)[j] = outbox[writer][j]
    <3>1. n \in 0 .. Len(outbox[writer])
      BY <1>1, <1>2
    <3> QED
      BY <1>2, <3>1, TakeTyped
  <2>3. outbox[writer] # <<>>
    BY <1>1, <1>2, <2>1
  <2>4. SearchReply(c)
    BY <1>1, <2>3 DEF Exchange, Progress, Waiting, Unasked, Answering, Open
  <2>5. PICK V \in Seq(Unit) : \E Q, M \in Marks : Rest(c, V, Q, M)
    BY <2>4 DEF SearchReply
  <2>6. PICK Q, M \in Marks : Rest(c, V, Q, M)
    BY <2>5
  <2>7. /\ Unread(c, V, Q, M) /\ Prefix(outbox[writer], V)
        /\ M[0] = 3 * parse[c].fields + parse[c].need /\ parse[c].need \in {0, 1}
    BY <2>6 DEF Rest
  <2>8. parse[c].need = 1 /\ n = 1 /\ i = 1
    BY <1>5, <2>1, <2>7
  <2>9. 1 \in 1 .. Len(V) /\ outbox[writer][1] = V[1] /\ 1 - 1 = 0
    <3>1. Len(V) \in Nat /\ 1 \in 1 .. Len(outbox[writer]) /\ Len(outbox[writer]) <= Len(V)
      BY <1>1, <1>2, <2>7, <2>8, LenProperties DEF Prefix
    <3> QED
      BY <1>2, <2>7, <3>1 DEF Prefix
  <2>10. M[0] > 0 /\ M[0] % 3 = 1
    <3>1. parse[c].fields \in Nat
      BY <1>2 DEF Parse
    <3>2. M[0] = 3 * parse[c].fields + 1
      BY <2>7, <2>8
    <3> QED
      BY <3>1, <3>2
  <2>11. V[1].part = "body"
    BY <2>7, <2>9, <2>10 DEF Unread
  <2> QED
    BY <2>1, <2>2, <2>8, <2>9, <2>11
<1> QED
  BY <1>3, <1>4, <1>5 DEF Unreadable

(* The rest of the reply when the client has read n units. *)
LEMMA ReadRest ==
    ASSUME TypeOK, Connection, Exchange, Reading, NEW c \in Calls, NEW n \in Nat, ReadRecords(c, n),
           n > 0, NEW q \in Parsed(parse[c], SubSeq(outbox[writer], 1, n)),
           parse[c].need > 0 \/ n = Asked(parse[c]), parse'[c] = q
    PROVE  /\ ran[c] = 1 /\ inbox[writer] = <<>>
           /\ \A i \in 1 .. Len(got'[c]) : got'[c][i].of = c
           /\ \A i \in 1 .. Len(owed[writer]) : owed[writer][i] = c
           /\ \E W \in Seq(Unit) : \E R, N \in Marks :
                 /\ Unread(c, W, R, N)
                 /\ Len(got'[c]) + Len(W) = answered[c]
                 /\ Prefix(outbox'[writer], W)
                 /\ N[Len(W)] = 0
                 /\ link[writer] = "up" => Len(outbox'[writer]) = Len(W) /\ R[Len(W)] = Len(owed[writer])
                 /\ R[0] = q.queries /\ N[0] = 3 * q.fields + q.need /\ q.need \in {0, 1}
<1> DEFINE U == SubSeq(outbox[writer], 1, n)
<1>1. /\ pc[c] = "reading" /\ writer \in Sockets /\ link[writer] \in Open /\ Op[c] = "SEARCH"
      /\ n <= Len(outbox[writer]) /\ n <= Asked(parse[c])
      /\ outbox' = [outbox EXCEPT ![writer] = SubSeq(@, n + 1, Len(@))]
      /\ got' = [got EXCEPT ![c] = @ \o U]
  BY ReadRecordsContract DEF ReadRecords
<1>2. /\ outbox[writer] \in Seq(Unit) /\ Len(outbox[writer]) \in Nat /\ Len(<<>>) = 0
      /\ parse[c] \in Parse /\ got[c] \in Seq(Unit) /\ Len(got[c]) \in Nat
  BY <1>1, Typed, LenProperties
<1>3. n \in 0 .. Len(outbox[writer])
  BY <1>1, <1>2
<1>4. U \in Seq(Unit) /\ Len(U) = n /\ \A i \in 1 .. n : U[i] = outbox[writer][i]
  BY <1>2, <1>3, TakeTyped
<1>5. /\ outbox'[writer] = SubSeq(outbox[writer], n + 1, Len(outbox[writer]))
      /\ got'[c] = got[c] \o U
  BY <1>1, Typed
<1>19. q \in Parsed(parse[c], U)
  OBVIOUS
<1> HIDE DEF U
<1>6. /\ Len(outbox'[writer]) = Len(outbox[writer]) - n
      /\ \A i \in 1 .. Len(outbox[writer]) - n : outbox'[writer][i] = outbox[writer][i + n]
  <2>1. Drops(outbox'[writer], outbox[writer], n)
    BY <1>2, <1>3, <1>5, SubSeqDrops
  <2> QED
    BY <2>1 DEF Drops
<1>7. outbox[writer] # <<>>
  BY <1>1, <1>2
<1>8. ran[c] = 1 /\ inbox[writer] = <<>> /\ SearchReply(c)
  BY <1>1, <1>7 DEF Exchange, Progress, Waiting, Unasked, Answering, Open
<1>9. PICK V \in Seq(Unit) : \E Q, M \in Marks : Rest(c, V, Q, M)
  BY <1>8 DEF SearchReply
<1>10. PICK Q, M \in Marks : Rest(c, V, Q, M)
  BY <1>9
<1>11. /\ Unread(c, V, Q, M)
       /\ Len(got[c]) + Len(V) = answered[c]
       /\ Len(outbox[writer]) <= Len(V) /\ \A i \in 1 .. Len(outbox[writer]) : outbox[writer][i] = V[i]
       /\ M[Len(V)] = 0
       /\ link[writer] = "up" => Len(outbox[writer]) = Len(V) /\ Q[Len(V)] = Len(owed[writer])
       /\ Q[0] = parse[c].queries
       /\ M[0] = 3 * parse[c].fields + parse[c].need
       /\ parse[c].need \in {0, 1}
  BY <1>10 DEF Rest, Prefix
<1>12. Len(V) \in Nat /\ n <= Len(V) /\ n \in 0 .. Len(V)
  <2>1. Len(V) \in Nat
    BY LenProperties
  <2> QED
    BY <1>1, <1>2, <1>11, <2>1
<1>13. \A i \in 1 .. n : U[i] = V[i]
  BY <1>2, <1>3, <1>4, <1>11
<1>14. Q[n] = q.queries /\ M[n] = 3 * q.fields + q.need /\ q.need \in {0, 1}
  <2>1. Takes(parse[c], U)
    BY <1>1, <1>4 DEF Takes
  <2>2. Prefix(U, V)
    BY <1>4, <1>12, <1>13 DEF Prefix
  <2>3. Marked(Q, M, 0, parse[c])
    BY <1>11 DEF Marked
  <2>4. Marked(Q, M, Len(U), q)
    BY <1>2, <1>4, <1>11, <1>19, <2>1, <2>2, <2>3, ParsedRest
  <2> QED
    BY <1>4, <2>4 DEF Marked
<1>27. PICK W \in Seq(Unit) : Drops(W, V, n)
  BY <1>12, SubSeqDrops
<1>15. Len(W) = Len(V) - n /\ \A i \in 1 .. Len(V) - n : W[i] = V[i + n]
  BY <1>27 DEF Drops
<1>16. PICK R, N \in Marks : Unread(c, W, R, N) /\ \A j \in Nat : R[j] = Q[j + n] /\ N[j] = M[j + n]
  <2>1. Follows(c, W, Q, M, n)
    BY <1>11, <1>12, <1>27, UnreadLess
  <2> QED
    BY <2>1 DEF Follows
<1>17. /\ Len(W) \in Nat /\ Len(W) + n = Len(V) /\ 0 + n = n
       /\ R[Len(W)] = Q[Len(V)] /\ N[Len(W)] = M[Len(V)] /\ R[0] = Q[n] /\ N[0] = M[n]
  <2>1. Len(W) \in Nat /\ Len(W) + n = Len(V) /\ 0 + n = n
    BY <1>12, <1>15
  <2> QED
    BY <1>16, <2>1
<1>18. Prefix(outbox'[writer], W)
  <2>1. Len(outbox'[writer]) <= Len(W) /\ Len(outbox'[writer]) \in Nat
    BY <1>2, <1>3, <1>6, <1>11, <1>12, <1>15
  <2>2. ASSUME NEW i \in 1 .. Len(outbox'[writer]) PROVE outbox'[writer][i] = W[i]
    <3>1. i + n \in 1 .. Len(outbox[writer]) /\ i \in 1 .. Len(outbox[writer]) - n /\ i \in 1 .. Len(V) - n
      BY <1>2, <1>3, <1>6, <1>11, <1>12
    <3> QED
      BY <1>6, <1>11, <1>15, <3>1
  <2> QED
    BY <2>1, <2>2 DEF Prefix
<1>20. link[writer] = "up" => Len(outbox'[writer]) = Len(W)
  BY <1>6, <1>11, <1>15
<1>21. Len(got'[c]) = Len(got[c]) + n
       /\ \A i \in 1 .. Len(got[c]) + n : got'[c][i] = IF i <= Len(got[c]) THEN got[c][i] ELSE U[i - Len(got[c])]
  <2>1. Joins(got'[c], got[c], U)
    BY <1>2, <1>4, <1>5, ConcatJoins
  <2>2. Len(got'[c]) = Len(got[c]) + Len(U) /\ Len(U) = n
    BY <1>4, <2>1 DEF Joins
  <2> QED
    BY <2>1, <2>2 DEF Joins
<1>22. Len(got'[c]) + Len(W) = answered[c]
  BY <1>2, <1>11, <1>12, <1>15, <1>21
<1>23. \A i \in 1 .. n : U[i].of = c
  <2>1. \A i \in 1 .. n : i \in 1 .. Len(V)
    BY <1>12
  <2>2. \A i \in 1 .. Len(V) : V[i].of = c
    BY <1>11, Zenon DEF Unread
  <2> QED
    BY <1>13, <2>1, <2>2
<1>24. ASSUME NEW i \in 1 .. Len(got'[c]) PROVE got'[c][i].of = c
  <2>1. CASE i <= Len(got[c])
    <3>1. i \in 1 .. Len(got[c]) /\ got'[c][i] = got[c][i]
      BY <1>2, <1>21, <2>1
    <3> QED
      BY <1>8, <3>1 DEF SearchReply
  <2>2. CASE ~(i <= Len(got[c]))
    <3>1. i - Len(got[c]) \in 1 .. n
      BY <1>2, <1>21, <2>2
    <3>2. got'[c][i] = U[i - Len(got[c])]
      BY <1>21, <2>2
    <3> QED
      BY <1>23, <3>1, <3>2
  <2> QED
    BY <2>1, <2>2
<1>25. \A i \in 1 .. Len(owed[writer]) : owed[writer][i] = c
  BY <1>8 DEF SearchReply
<1>26. /\ Unread(c, W, R, N)
       /\ N[Len(W)] = 0
       /\ link[writer] = "up" => R[Len(W)] = Len(owed[writer])
       /\ R[0] = q.queries /\ N[0] = 3 * q.fields + q.need /\ q.need \in {0, 1}
  BY <1>11, <1>14, <1>16, <1>17
<1> QED
  BY <1>8, <1>18, <1>20, <1>22, <1>24, <1>25, <1>26

LEMMA ReadRecordsExchange ==
    ASSUME TypeOK, Connection, Exchange, Reading, NEW c \in Calls, NEW n \in Nat, ReadRecords(c, n),
           parse[c].need > 0 \/ n = Asked(parse[c]) \/ (link[writer] # "up" /\ n = Len(outbox[writer]))
    PROVE  Exchange'
<1>1. /\ pc[c] = "reading" /\ writer \in Sockets /\ link[writer] \in Open /\ Op[c] = "SEARCH"
      /\ n <= Len(outbox[writer])
      /\ outbox' = [outbox EXCEPT ![writer] = SubSeq(@, n + 1, Len(@))]
      /\ got' = [got EXCEPT ![c] = @ \o SubSeq(outbox[writer], 1, n)]
      /\ UNCHANGED <<writer, opened, inbox, frag, owed, ran, answered>>
  BY ReadRecordsContract DEF server, ReadRecords
<1>2. Busy(c) /\ \A d \in Calls \ {c} : ~Busy(d)
  BY <1>1, Alone DEF Busy, Connection
<1>3. /\ \A d \in Calls \ {c} : got'[d] = got[d]
      /\ \A t \in Sockets \ {writer} : outbox'[t] = outbox[t]
      /\ outbox'[writer] = SubSeq(outbox[writer], n + 1, Len(outbox[writer]))
  BY <1>1, Typed
<1>4. outcome[c] # "ok"
  BY <1>1 DEF Exchange, Progress, Ending
<1>5. CASE Raised(c) /\ Unreadable(c, n) /\ UNCHANGED <<parse, connected, link>>
  <2>1. pc'[c] = "done" /\ \A d \in Calls \ {c} : pc'[d] = pc[d] /\ outcome'[d] = outcome[d]
    BY <1>5, RaisedPlace
  <2>2. link[writer] # "up" /\ n = Len(outbox[writer])
    BY <1>5, UnreadableEnds
  <2>3. outbox'[writer] = <<>>
    <3>1. outbox[writer] \in Seq(Unit) /\ n \in 0 .. Len(outbox[writer]) /\ Len(outbox[writer]) \in Nat
      BY <1>1, Typed, LenProperties
    <3>2. outbox'[writer] \in Seq(Unit) /\ Drops(outbox'[writer], outbox[writer], n)
      BY <1>3, <3>1, SubSeqDrops
    <3>3. Len(outbox'[writer]) = Len(outbox[writer]) - n
      BY <3>2 DEF Drops
    <3>4. Len(outbox'[writer]) = 0
      BY <2>2, <3>1, <3>3
    <3> QED
      BY <3>2, <3>4, EmptySeq
  <2>4. Quiet(writer)'
    <3>1. link[writer] \in {"fin", "stale"}
      BY <1>1, <2>2 DEF Open
    <3>2. inbox[writer] = <<>> /\ owed[writer] = <<>>
      BY <1>1, <3>1 DEF Exchange, Settled
    <3> QED
      BY <1>1, <2>3, <3>2 DEF Quiet
  <2>5. Settled'
    BY <1>1, <1>3, <1>5, <2>4 DEF Exchange, Settled, Quiet
  <2>6. Resting'
    BY <2>4 DEF Resting
  <2>7. Inboxes'
    BY <1>1, <1>2, <2>1, KeptInboxes
  <2>8. Progress(c)'
    BY <1>5, RaisedProgress
  <2> QED
    BY <1>1, <1>2, <1>3, <1>5, <2>1, <2>5, <2>6, <2>7, <2>8, CallExchange
<1>6. ASSUME NEW q \in Parsed(parse[c], SubSeq(outbox[writer], 1, n)), n > 0,
             parse[c].need > 0 \/ n = Asked(parse[c]), parse' = [parse EXCEPT ![c] = q],
             \/ q = NoParse /\ Closes(c)
             \/ q # NoParse /\ Await(c, "reading", writer) /\ UNCHANGED <<connected, link>>
      PROVE  Exchange'
  <2>1. parse'[c] = q /\ \A d \in Calls \ {c} : parse'[d] = parse[d]
    BY <1>6, Typed
  <2>2. /\ ran[c] = 1 /\ inbox[writer] = <<>>
        /\ \A i \in 1 .. Len(got'[c]) : got'[c][i].of = c
        /\ \A i \in 1 .. Len(owed[writer]) : owed[writer][i] = c
        /\ \E W \in Seq(Unit) : \E R, N \in Marks :
              /\ Unread(c, W, R, N)
              /\ Len(got'[c]) + Len(W) = answered[c]
              /\ Prefix(outbox'[writer], W)
              /\ N[Len(W)] = 0
              /\ link[writer] = "up" => Len(outbox'[writer]) = Len(W) /\ R[Len(W)] = Len(owed[writer])
              /\ R[0] = q.queries /\ N[0] = 3 * q.fields + q.need /\ q.need \in {0, 1}
    BY <1>6, <2>1, ReadRest
  <2>3. CASE q = NoParse /\ Closes(c)
    <3>1. /\ pc'[c] = "closing" /\ UNCHANGED outcome
          /\ \A d \in Calls \ {c} : pc'[d] = pc[d]
          /\ connected' = FALSE
          /\ \A t \in Sockets \ {writer} : link'[t] = link[t]
          /\ link'[writer] = Shut(link[writer])
      BY <1>1, <2>3, ClosesPlace
    <3>2. link'[writer] \notin {"fin", "stale", "new"}
      BY <3>1 DEF Shut
    <3>3. Settled'
      BY <1>1, <1>3, <3>1, <3>2 DEF Exchange, Settled, Quiet
    <3>4. Resting'
      BY <3>1 DEF Resting
    <3>5. Inboxes'
      BY <1>1, <1>2, <3>1, KeptInboxes
    <3>6. PICK W \in Seq(Unit) : \E R, N \in Marks :
             /\ Unread(c, W, R, N) /\ Len(got'[c]) + Len(W) = answered[c]
             /\ R[0] = q.queries /\ N[0] = 3 * q.fields + q.need
      BY <2>2
    <3>7. PICK R, N \in Marks :
             /\ Unread(c, W, R, N) /\ Len(got'[c]) + Len(W) = answered[c]
             /\ R[0] = q.queries /\ N[0] = 3 * q.fields + q.need
      BY <3>6
    <3>8. R[0] = 0 /\ N[0] = 0
      BY <2>3, <3>7 DEF NoParse
    <3>9. Len(W) = 0
      <4>1. Len(W) \in Nat
        BY LenProperties
      <4>2. SUFFICES ASSUME Len(W) > 0 PROVE FALSE
        BY <4>1
      <4>3. 1 \in 1 .. Len(W) /\ 1 - 1 = 0
        BY <4>1, <4>2
      <4>4. R[1] = R[0] - 1
        BY <3>7, <3>8, <4>3 DEF Unread
      <4>5. R[1] \in Nat
        BY DEF Marks
      <4> QED
        BY <3>8, <4>4, <4>5
    <3>10. Len(got'[c]) = answered[c]
      <4>1. Len(got'[c]) \in Nat
        <5>1. got' \in [Calls -> Seq(Unit)]
          <6>1. /\ got \in [Calls -> Seq(Unit)] /\ outbox[writer] \in Seq(Unit)
                /\ n \in 0 .. Len(outbox[writer])
            BY <1>1, Typed, LenProperties
          <6>2. SubSeq(outbox[writer], 1, n) \in Seq(Unit)
            BY <6>1, TakeTyped
          <6>3. got[c] \o SubSeq(outbox[writer], 1, n) \in Seq(Unit)
            BY <6>1, <6>2, ConcatProperties
          <6> QED
            BY <1>1, <6>1, <6>3
        <5> QED
          BY <5>1, LenProperties
      <4>2. Len(got'[c]) + Len(W) = answered[c]
        BY <3>7
      <4> QED
        BY <3>9, <4>1, <4>2
    <3>11. Own(c)'
      <4>1. Len(got'[c]) = answered'[c]
        BY <1>1, <3>10
      <4>2. \A i \in 1 .. Len(got'[c]) : got'[c][i].of = c
        BY <2>2
      <4>3. ran'[c] = 1
        BY <1>1, <2>2
      <4> QED
        BY <4>1, <4>2, <4>3 DEF Own
    <3>12. Progress(c)'
      BY <1>4, <3>1, <3>11 DEF Progress, Prepared, Writing, Waiting, Ending, After
    <3> QED
      BY <1>1, <1>2, <1>3, <2>1, <3>1, <3>3, <3>4, <3>5, <3>12, CallExchange
  <2>4. CASE q # NoParse /\ Await(c, "reading", writer) /\ UNCHANGED <<connected, link>>
    <3>1. pc'[c] = "reading" /\ UNCHANGED outcome /\ \A d \in Calls \ {c} : pc'[d] = pc[d]
      BY <2>4, AwaitPlace
    <3>2. Settled'
      BY <1>1, <1>3, <2>4 DEF Exchange, Settled, Quiet, Open
    <3>3. Resting'
      BY <3>1 DEF Resting, Idle
    <3>4. Inboxes'
      BY <1>1, <1>2, <3>1, KeptInboxes
    <3>5. SearchReply(c)'
      <4>1. PICK W \in Seq(Unit) : \E R, N \in Marks :
               /\ Unread(c, W, R, N)
               /\ Len(got'[c]) + Len(W) = answered[c]
               /\ Prefix(outbox'[writer], W)
               /\ N[Len(W)] = 0
               /\ link[writer] = "up" => Len(outbox'[writer]) = Len(W) /\ R[Len(W)] = Len(owed[writer])
               /\ R[0] = q.queries /\ N[0] = 3 * q.fields + q.need /\ q.need \in {0, 1}
        BY <2>2
      <4>2. PICK R, N \in Marks :
               /\ Unread(c, W, R, N)
               /\ Len(got'[c]) + Len(W) = answered[c]
               /\ Prefix(outbox'[writer], W)
               /\ N[Len(W)] = 0
               /\ link[writer] = "up" => Len(outbox'[writer]) = Len(W) /\ R[Len(W)] = Len(owed[writer])
               /\ R[0] = q.queries /\ N[0] = 3 * q.fields + q.need /\ q.need \in {0, 1}
        BY <4>1
      <4>3. Rest(c, W, R, N)'
        BY <1>1, <2>1, <2>4, <4>2 DEF Rest
      <4> QED
        BY <1>1, <2>2, <4>3 DEF SearchReply
    <3>6. Answering(c)'
      BY <1>1, <2>2, <3>5 DEF Answering
    <3>7. Progress(c)'
      BY <1>4, <3>1, <3>6 DEF Progress, Prepared, Writing, Waiting, Ending, After
    <3> QED
      BY <1>1, <1>2, <1>3, <2>1, <3>1, <3>2, <3>3, <3>4, <3>7, CallExchange
  <2> QED
    BY <1>6, <2>3, <2>4
<1> QED
  BY <1>5, <1>6, ReadRecordsContract

LEMMA StepExchange ==
    ASSUME TypeOK, Reading, Once, Connection, Exchange, NEW c \in Calls, CallStep(c)
    PROVE  Exchange'
<1>1. CASE Idle /\ Unsendable[c] = 0 /\ Start(c)
  BY <1>1, StartExchange
<1>2. ASSUME NEW n \in 0 .. Buffered(c), ReadText(c, n) PROVE Exchange'
  <2>1. pc[c] = "reading"
    BY <1>2 DEF ReadText, Arrives
  <2>2. n \in Nat
    BY <2>1, BufferedNat
  <2> QED
    BY <1>2, <2>2, ReadTextExchange
<1>3. CASE Continue(c)
  BY <1>2, <1>3, OpenedExchange, RefusedExchange, DrainedExchange, RecloseExchange, RedrainNever,
     WaitClosedExchange, ReadFailsExchange DEF Continue
<1>4. CASE ReadWhole(c)
  <2>1. PICK n \in 0 .. Buffered(c) :
          /\ pc[c] = "reading"
          /\ \/ parse[c].need > 0
             \/ n = Asked(parse[c])
             \/ link[mine[c]] # "up" /\ n = Len(outbox[mine[c]])
          /\ ReadRecords(c, n)
    BY <1>4 DEF ReadWhole
  <2>2. n \in Nat
    BY <2>1, BufferedNat
  <2>3. mine[c] = writer
    BY <2>1 DEF Connection, Standing, Stands
  <2>4. parse[c].need > 0 \/ n = Asked(parse[c]) \/ (link[writer] # "up" /\ n = Len(outbox[writer]))
    BY <2>1, <2>3
  <2> QED
    BY <2>1, <2>2, <2>4, ReadRecordsExchange
<1> QED
  BY <1>1, <1>3, <1>4 DEF CallStep

(* Every invariant of the contract, step by step. *)
Contract == Reading /\ Once /\ Connection /\ Exchange

LEMMA InitContract == Init => Contract
<1>1. Init => Reading
  BY DEF Init, Reading
<1> QED
  BY <1>1, InitOnce, InitConnection, InitExchange DEF Contract

LEMMA NextContract ==
    ASSUME TypeOK, Contract, [ContractNext]_vars
    PROVE  Contract'
<1>1. Connection'
  BY NextConnection DEF Contract
<1>2. CASE World
  <2>1. Exchange'
    BY <1>1, <1>2, WorldExchange DEF Contract
  <2>2. UNCHANGED call
    BY <1>2, WorldSteps
  <2>3. Reading'
    BY <2>2 DEF Contract, Reading, call
  <2>4. Once'
    BY <1>2, <2>2, WorldSteps, ShrinksOnce, RunsOnce DEF Contract, call
  <2> QED
    BY <1>1, <2>1, <2>3, <2>4 DEF Contract
<1>3. ASSUME NEW c \in Calls, CallStep(c) PROVE Contract'
  <2>1. Start(c) \/ Continue(c) \/ \E n \in 0 .. Buffered(c) : ReadRecords(c, n)
    BY <1>3 DEF CallStep, ReadWhole
  <2> QED
    BY <1>1, <1>3, <2>1, CallSteps, CallsOnce, StepExchange DEF Contract
<1>4. CASE UNCHANGED vars
  <2>1. UNCHANGED <<conn, net, call, owed, ran, answered, pc, inbox>>
    BY <1>4 DEF vars, server, call, net
  <2>2. Exchange'
    BY <2>1, RestartExchange DEF Contract
  <2>3. Reading'
    BY <2>1 DEF Contract, Reading, call
  <2>4. Once'
    BY <2>1, KeepsOnce DEF Contract
  <2> QED
    BY <1>1, <2>2, <2>3, <2>4 DEF Contract
<1> QED
  BY <1>2, <1>3, <1>4, ContractSteps

LEMMA ContractHolds == ContractSpec => [](TypeOK /\ Contract)
<1>1. Init => Contract
  BY InitContract
<1>2. TypeOK /\ Contract /\ [ContractNext]_vars => Contract'
  BY NextContract
<1> QED
  BY <1>1, <1>2, ContractIsSpec, ClientTypeCorrect, PTL DEF ContractSpec

(* Under the contract the server never finds in one command's place bytes   *)
(* of another: a command that was cut off is the last of its connection.    *)
THEOREM CommandsAreWhole == ContractSpec => []WholeCommands
<1>1. TypeOK /\ Contract => WholeCommands
  <2> SUFFICES ASSUME TypeOK, Contract, NEW s \in Sockets, NEW i \in DOMAIN inbox[s]
               PROVE  \/ /\ inbox[s][i].n = 1
                         /\ i = 1 \/ inbox[s][i - 1].n = Fragments(inbox[s][i - 1].call)
                      \/ i > 1 /\ inbox[s][i - 1] = [inbox[s][i] EXCEPT !.n = @ - 1]
    BY DEF WholeCommands
  <2>1. inbox[s] \in Seq(Fragment) /\ DOMAIN inbox[s] = 1 .. Len(inbox[s]) /\ Len(inbox[s]) \in Nat
    BY InboxTyped, LenProperties
  <2>2. inbox[s] # <<>>
    <3>1. Len(<<>>) = 0
      OBVIOUS
    <3> QED
      BY <2>1, <3>1
  <2>3. PICK c \in Calls : \E n \in 1 .. Fragments(c) : Holds(s, c, n)
    BY <2>2 DEF Contract, Exchange, Inboxes
  <2>4. PICK n \in 1 .. Fragments(c) : Holds(s, c, n)
    BY <2>3
  <2>5. \A j \in 1 .. Len(inbox[s]) : inbox[s][j] = [call |-> c, n |-> j]
    BY <2>4 DEF Holds
  <2>6. inbox[s][i] = [call |-> c, n |-> i]
    BY <2>1, <2>5
  <2>7. CASE i = 1
    BY <2>6, <2>7
  <2>8. CASE i # 1
    <3>1. i > 1 /\ i - 1 \in 1 .. Len(inbox[s])
      BY <2>1, <2>8
    <3>2. inbox[s][i - 1] = [call |-> c, n |-> i - 1]
      BY <2>5, <3>1
    <3> QED
      BY <2>6, <3>1, <3>2
  <2> QED
    BY <2>7, <2>8
<1> QED
  BY <1>1, ContractHolds, PTL

(* Under the contract a call that returns has read the reply to itself, and *)
(* all of it, whatever was lost, cut or started again on the way.           *)
THEOREM RepliesAreOwn == ContractSpec => []OwnReply
<1>1. TypeOK /\ Contract => OwnReply
  <2> SUFFICES ASSUME TypeOK, Contract, NEW c \in Calls, outcome[c] = "ok"
               PROVE  Len(got[c]) = answered[c] /\ \A i \in DOMAIN got[c] : got[c][i].of = c
    BY DEF OwnReply
  <2>1. Own(c)
    BY DEF Contract, Exchange, Progress, Ending
  <2>2. DOMAIN got[c] = 1 .. Len(got[c])
    BY Typed, LenProperties
  <2> QED
    BY <2>1, <2>2 DEF Own
<1> QED
  BY <1>1, ContractHolds, PTL
-----------------------------------------------------------------------------
(* A call that opens a connection of its own and meets no fault: nothing    *)
(* else is on its way to the server, which goes on and is ready for it.     *)

Good(c) == {"ok"} \cup (IF Op[c] = "LOAD" THEN {"PeriplusServerError"} ELSE {})
Ready(c) == Op[c] \in Allowed[status]
Undelivered(s) == \E t \in Sockets \ {s} : inbox[t] # <<>>

Undisturbed(c) ==
    /\ pc[c] \notin {"idle", "broken", "reclosing"}
    /\ pc[c] = "connecting" => Ready(c) /\ \A s \in Sockets : inbox[s] = <<>>
    /\ pc[c] \in {"draining", "reading"} => link[writer] = "up" /\ ~Undelivered(writer)
    /\ pc[c] = "draining" => Ready(c)
    /\ pc[c] = "reading" /\ ran[c] = 0 => Ready(c)
    /\ pc[c] = "closing" => link[writer] \in {"closed", "dead"} /\ Results(c, got[c]) \subseteq Good(c)
    /\ pc[c] = "done" => outcome[c] \in Good(c)

Smooth ==
    /\ \A c \in Calls : outcome[c] # "none" => pc[c] = "done"
    /\ \A c \in clean \ Mismatched : Undisturbed(c)

LEMMA InitSmooth == Init => Smooth
  BY DEF Init, Smooth

(* What the server has not read begins with the call in progress. *)
LEMMA HeadOfOwn ==
    ASSUME TypeOK, Connection, Exchange, NEW c \in Calls, pc[c] \in {"draining", "reading"},
           link[writer] = "up", inbox[writer] # <<>>
    PROVE  /\ Head(inbox[writer]) = [call |-> c, n |-> 1]
           /\ pc[c] = "reading" => ran[c] = 0
<1>1. Progress(c) /\ Stands(c)
  BY DEF Exchange, Connection, Standing
<1>2. /\ pc[c] = "draining" => Holds(writer, c, frag[c] - 1) /\ frag[c] - 1 \in Nat
      /\ pc[c] = "reading" => Holds(writer, c, Fragments(c)) /\ ran[c] = 0 /\ Fragments(c) \in Nat
  <2>1. Fragments(c) \in Nat \ {0}
    BY FragmentsNat
  <2>2. CASE pc[c] = "draining"
    <3>1. frag[c] \in 1 .. Fragments(c) /\ Holds(writer, c, frag[c] - 1)
      BY <1>1, <2>2 DEF Progress, Writing
    <3>2. frag[c] - 1 \in Nat
      BY <2>1, <3>1
    <3> QED
      BY <2>2, <3>1, <3>2
  <2>3. CASE pc[c] = "reading"
    BY <1>1, <2>1, <2>3 DEF Progress, Waiting, Unasked, Answering
  <2> QED
    BY <2>2, <2>3
<1>3. PICK n \in Nat : Holds(writer, c, n)
  BY <1>2
<1>4. writer \in Sockets
  BY <1>1, Typed DEF Stands, Connection, Joined
<1>5. inbox[writer] \in Seq(Fragment) /\ Len(inbox[writer]) \in Nat
  BY <1>4, InboxTyped
<1>6. Len(inbox[writer]) # 0
  BY <1>5, EmptySeq
<1>7. 1 \in 1 .. n
  BY <1>3, <1>5, <1>6 DEF Holds
<1>8. inbox[writer][1] = [call |-> c, n |-> 1]
  BY <1>3, <1>7 DEF Holds
<1> QED
  BY <1>2, <1>5, <1>8

(* No step that leaves connections and inboxes alone disturbs a call, if    *)
(* the server stays ready for it.                                           *)
LEMMA StillUndisturbed ==
    ASSUME NEW c \in Calls, Undisturbed(c), UNCHANGED <<conn, call, ran, inbox, link>>,
           Ready(c) => Ready(c)'
    PROVE  Undisturbed(c)'
<1>1. UNCHANGED <<writer, pc, got, outcome>>
  BY DEF conn, call
<1>2. Results(c, got[c])' = Results(c, got[c]) /\ Good(c)' = Good(c)
  BY <1>1 DEF Results, Confirms, Good
<1>3. ~Undelivered(writer) => ~Undelivered(writer)'
  BY <1>1 DEF Undelivered
<1> QED
  BY <1>1, <1>2, <1>3 DEF Undisturbed

(* Nor does one after which the call has nothing to ask for any more. *)
LEMMA EndedUndisturbed ==
    ASSUME TypeOK, Connection, NEW c \in Calls, Undisturbed(c), Falls, UNCHANGED <<conn, call>>,
           pc[c] \notin {"connecting", "draining", "reading"}
    PROVE  Undisturbed(c)'
<1>1. UNCHANGED <<writer, pc, got, outcome>>
  BY DEF conn, call
<1>2. Results(c, got[c])' = Results(c, got[c]) /\ Good(c)' = Good(c)
  BY <1>1 DEF Results, Confirms, Good
<1>3. pc[c] = "closing" => link'[writer] \in {"closed", "dead"}
  <2> SUFFICES ASSUME pc[c] = "closing" PROVE link'[writer] \in {"closed", "dead"}
    OBVIOUS
  <2>1. writer \in Sockets
    BY Typed DEF Connection, Standing, Stands
  <2>2. link[writer] \in {"closed", "dead"}
    BY DEF Undisturbed
  <2> QED
    BY <2>1, <2>2 DEF Falls
<1> QED
  BY <1>1, <1>2, <1>3 DEF Undisturbed

LEMMA RunCommandUndisturbed ==
    ASSUME TypeOK, Connection, Exchange, NEW c \in Calls, Undisturbed(c), NEW s \in Sockets, RunCommand(s)
    PROVE  Undisturbed(c)'
<1>1. UNCHANGED <<conn, link, call>> /\ inbox[s] # <<>>
  BY DEF RunCommand
<1>2. PICK d \in Calls :
        Whole(s, d) /\ inbox' = [inbox EXCEPT ![s] = <<>>] /\ ran' = [ran EXCEPT ![d] = @ + 1]
  BY RunCommandParts
<1>3. CASE pc[c] = "connecting"
  BY <1>1, <1>3 DEF Undisturbed
<1>4. CASE pc[c] \in {"draining", "reading"}
  <2>1. s = writer /\ link[s] = "up"
    BY <1>1, <1>4 DEF Undisturbed, Undelivered
  <2>2. pc[d] = "reading"
    BY <1>2, <2>1, RunCommandAsked
  <2>3. d = c
    BY <1>4, <2>2 DEF Connection, Program, Busy
  <2>4. ran'[c] = ran[c] + 1 /\ ran[c] \in Nat
    BY <1>2, <2>3, Typed
  <2>5. ran'[c] # 0
    BY <2>4
  <2>6. ~Undelivered(writer)'
    <3>1. \A t \in Sockets \ {writer} : inbox'[t] = inbox[t]
      BY <1>2, <2>1, Typed
    <3>2. ~Undelivered(writer)
      BY <1>4 DEF Undisturbed
    <3> QED
      BY <1>1, <3>1, <3>2 DEF Undelivered, conn
  <2> QED
    BY <1>1, <2>1, <2>2, <2>3, <2>5, <2>6 DEF Undisturbed, conn, call
<1>5. CASE pc[c] \notin {"connecting", "draining", "reading"}
  BY <1>1, <1>5, EndedUndisturbed DEF Falls
<1> QED
  BY <1>3, <1>4, <1>5

(* The server does not reject the only command there is, being ready for it. *)
LEMMA RejectUndisturbed ==
    ASSUME TypeOK, Connection, Exchange, NEW c \in Calls, Undisturbed(c), NEW s \in Sockets, Reject(s)
    PROVE  Undisturbed(c)'
<1>1. UNCHANGED <<conn, call>> /\ inbox[s] # <<>> /\ Falls
  BY EndFalls DEF Reject
<1>2. CASE pc[c] = "connecting"
  BY <1>1, <1>2 DEF Undisturbed
<1>3. CASE pc[c] \in {"draining", "reading"}
  <2>1. s = writer /\ link[s] = "up"
    BY <1>1, <1>3 DEF Undisturbed, Undelivered
  <2>2. Head(inbox[s]) = [call |-> c, n |-> 1] /\ (pc[c] = "reading" => ran[c] = 0)
    BY <1>1, <1>3, <2>1, HeadOfOwn
  <2>3. Ready(c)
    BY <1>3, <2>2 DEF Undisturbed
  <2>4. Head(inbox[s]).call = c /\ Head(inbox[s]).n = 1
    BY <2>2
  <2> QED
    BY <2>3, <2>4 DEF Reject, Ready
<1>4. CASE pc[c] \notin {"connecting", "draining", "reading"}
  BY <1>1, <1>4, EndedUndisturbed
<1> QED
  BY <1>2, <1>3, <1>4

LEMMA WorldSmooth ==
    ASSUME TypeOK, Connection, Exchange, Smooth, World
    PROVE  Smooth'
<1>1. UNCHANGED <<pc, outcome>>
  BY WorldFalls DEF call
<1>2. CASE UNCHANGED clean
  <2> SUFFICES ASSUME NEW c \in clean \ Mismatched PROVE Undisturbed(c)'
    BY <1>1, <1>2 DEF Smooth
  <2>1. c \in Calls /\ Undisturbed(c)
    BY DEF Smooth, TypeOK
  <2>2. ASSUME NEW s \in Sockets, ServerStep(s) PROVE Undisturbed(c)'
    <3>1. ASSUME NEW n \in -1 .. MaxHits, AnswerQuery(s, n) PROVE Undisturbed(c)'
      BY <2>1, <3>1, StillUndisturbed DEF AnswerQuery, Ready
    <3> QED
      BY <2>1, <2>2, <3>1, RunCommandUndisturbed, NotGarbled, RejectUndisturbed DEF ServerStep
  <2>3. ASSUME NEW s \in Sockets, Cut(s) PROVE Undisturbed(c)'
    BY <1>2, <2>3 DEF Cut, Fault
  <2>4. CASE Crash
    BY <1>2, <2>4 DEF Crash, Fault
  <2>5. CASE Restart
    <3>1. ~Ready(c)
      BY <2>5 DEF Restart, Ready, Allowed
    <3> QED
      BY <2>1, <2>5, <3>1, StillUndisturbed DEF Restart, net
  <2> QED
    BY <2>2, <2>3, <2>4, <2>5, NotCollected DEF World
<1>3. CASE clean' = {}
  BY <1>1, <1>3 DEF Smooth
<1> QED
  <2>1. World => UNCHANGED clean \/ clean' = {}
    <3>1. ASSUME NEW s \in Sockets, ServerStep(s) PROVE UNCHANGED clean
      BY <3>1 DEF ServerStep, RunCommand, RunGarbled, Reject, AnswerQuery
    <3> QED
      BY <3>1, NotCollected DEF World, Cut, Crash, Restart, Fault
  <2> QED
    BY <1>2, <1>3, <2>1

(* A step of one call leaves the others where they have ended. *)
LEMMA CallSmooth ==
    ASSUME TypeOK, Smooth, NEW c \in Calls, clean' \subseteq clean \cup {c},
           \A d \in Calls \ {c} : ~Busy(d) /\ pc'[d] = pc[d] /\ outcome'[d] = outcome[d],
           outcome'[c] # "none" => pc'[c] = "done",
           c \in clean' \ Mismatched => Undisturbed(c)'
    PROVE  Smooth'
<1>1. \A d \in Calls : outcome'[d] # "none" => pc'[d] = "done"
  BY DEF Smooth
<1>2. ASSUME NEW d \in clean' \ Mismatched PROVE Undisturbed(d)'
  <2>1. CASE d = c
    BY <1>2, <2>1
  <2>2. CASE d # c
    <3>1. d \in clean \ Mismatched /\ d \in Calls \ {c}
      BY <1>2, <2>2 DEF TypeOK
    <3>2. Undisturbed(d)
      BY <3>1 DEF Smooth
    <3>3. pc[d] = "done" /\ pc'[d] = "done" /\ outcome'[d] = outcome[d]
      BY <3>1, <3>2 DEF Undisturbed, Busy
    <3> QED
      BY <3>2, <3>3 DEF Undisturbed, Good
  <2> QED
    BY <2>1, <2>2
<1> QED
  BY <1>1, <1>2 DEF Smooth

(* What a call in progress is, when it is undisturbed. *)
LEMMA BusySmooth ==
    ASSUME TypeOK, Connection, Smooth, NEW c \in Calls, Busy(c)
    PROVE  /\ \A d \in Calls \ {c} : ~Busy(d)
           /\ outcome[c] = "none"
           /\ c \in clean \ Mismatched => Undisturbed(c)
  BY Alone DEF Smooth, Connection, Busy

LEMMA StartSmooth ==
    ASSUME TypeOK, Connection, Smooth, NEW c \in Calls, Idle, Unsendable[c] = 0, Start(c)
    PROVE  Smooth'
<1>1. pc[c] = "idle" /\ UNCHANGED <<conn, inbox, server>>
  BY DEF Start
<1>2. outcome[c] = "none" /\ c \notin clean \ Mismatched
  BY <1>1 DEF Smooth, Undisturbed
<1>3. clean' \subseteq clean \cup {c}
  BY DEF Start
<1>4. \A d \in Calls \ {c} : ~Busy(d)
  BY IdleAlone
<1>5. CASE c \in clean' \ Mismatched
  <2>1. ~connected /\ Ready(c) /\ \A s \in Sockets : inbox[s] = <<>>
    BY <1>2, <1>5 DEF Start, Ready
  <2>2. Await(c, "connecting", None)
    BY <2>1 DEF Start
  <2>3. pc'[c] = "connecting" /\ UNCHANGED outcome /\ \A d \in Calls \ {c} : pc'[d] = pc[d]
    BY <2>2, AwaitPlace
  <2>4. Undisturbed(c)'
    BY <1>1, <2>1, <2>3 DEF Undisturbed, Ready, server
  <2> QED
    BY <1>2, <1>3, <1>4, <2>3, <2>4, CallSmooth
<1>6. CASE c \notin clean' \ Mismatched
  <2>1. CASE Raised(c)
    BY <1>3, <1>4, <1>6, <2>1, RaisedPlace, CallSmooth
  <2>2. CASE c \notin Mismatched /\ Sent(c, 1, writer, link) /\ connected
    <3>1. writer \in Sockets /\ link \in [Sockets -> Links]
      BY <2>2, Typed DEF Connection, Joined
    <3>2. UNCHANGED outcome /\ \A d \in Calls \ {c} : pc'[d] = pc[d]
      BY <2>2, <3>1, SentPlace
    <3> QED
      BY <1>2, <1>3, <1>4, <1>6, <3>2, CallSmooth
  <2>3. CASE Await(c, "connecting", None)
    BY <1>2, <1>3, <1>4, <1>6, <2>3, AwaitPlace, CallSmooth
  <2> QED
    BY <2>1, <2>2, <2>3, StartContract
<1> QED
  BY <1>5, <1>6

LEMMA OpenedSmooth ==
    ASSUME TypeOK, Connection, Smooth, NEW c \in Calls, Opened(c)
    PROVE  Smooth'
<1>1. /\ pc[c] = "connecting" /\ opened + 1 \in Sockets
      /\ link' = [link EXCEPT ![opened + 1] = "up"]
      /\ \/ c \in Mismatched /\ Raised(c)
         \/ c \notin Mismatched /\ Await(c, "draining", opened + 1)
  BY OpenedContract
<1>2. writer' = opened + 1 /\ UNCHANGED <<inbox, server, clean>>
  BY DEF Opened
<1>3. /\ \A d \in Calls \ {c} : ~Busy(d)
      /\ outcome[c] = "none"
      /\ c \in clean \ Mismatched => Undisturbed(c)
  BY <1>1, BusySmooth DEF Busy
<1>4. CASE c \in Mismatched /\ Raised(c)
  BY <1>2, <1>3, <1>4, RaisedPlace, CallSmooth
<1>5. CASE Await(c, "draining", opened + 1)
  <2>1. pc'[c] = "draining" /\ UNCHANGED outcome /\ \A d \in Calls \ {c} : pc'[d] = pc[d]
    BY <1>5, AwaitPlace
  <2>2. link'[opened + 1] = "up"
    BY <1>1, Typed
  <2>3. ASSUME Undisturbed(c) PROVE Undisturbed(c)'
    <3>1. Ready(c)' /\ ~Undelivered(writer)'
      BY <1>1, <1>2, <2>3 DEF Undisturbed, Ready, Undelivered, server
    <3> QED
      BY <1>2, <2>1, <2>2, <3>1 DEF Undisturbed
  <2> QED
    BY <1>2, <1>3, <2>1, <2>3, CallSmooth
<1> QED
  BY <1>1, <1>4, <1>5

LEMMA RefusedSmooth ==
    ASSUME TypeOK, Connection, Smooth, NEW c \in Calls, Refused(c)
    PROVE  Smooth'
<1>1. pc[c] = "connecting" /\ Raised(c)
  BY RefusedContract
<1>2. /\ \A d \in Calls \ {c} : ~Busy(d)
      /\ c \in clean \ Mismatched => Undisturbed(c)
  BY <1>1, BusySmooth DEF Busy
<1>3. c \notin clean' \ Mismatched /\ clean' \subseteq clean
  <2>1. CASE status = "DOWN" /\ UNCHANGED clean
    <3>1. ~Ready(c)
      BY <2>1 DEF Ready, Allowed
    <3> QED
      BY <1>1, <1>2, <2>1, <3>1 DEF Undisturbed
  <2> QED
    BY <2>1 DEF Refused
<1> QED
  BY <1>1, <1>2, <1>3, RaisedPlace, CallSmooth

LEMMA DrainedSmooth ==
    ASSUME TypeOK, Connection, Smooth, NEW c \in Calls, Drained(c)
    PROVE  Smooth'
<1>1. /\ pc[c] = "draining" /\ writer \in Sockets
      /\ inbox' = IF link[writer] = "up"
                  THEN [inbox EXCEPT ![writer] = Append(@, [call |-> c, n |-> frag[c]])]
                  ELSE inbox
      /\ UNCHANGED <<writer, got, server, clean>>
      /\ \/ Sent(c, frag[c] + 1, writer, link)
         \/ Op[c] = "SEARCH" /\ Closes(c)
         \/ Await(c, "reading", writer) /\ UNCHANGED link
  BY DrainedContract DEF Drained, conn
<1>2. /\ \A d \in Calls \ {c} : ~Busy(d)
      /\ outcome[c] = "none"
      /\ c \in clean \ Mismatched => Undisturbed(c)
  BY <1>1, BusySmooth DEF Busy
<1>3. Undisturbed(c) => link[writer] = "up" /\ Ready(c)' /\ ~Undelivered(writer)'
  <2> SUFFICES ASSUME Undisturbed(c) PROVE link[writer] = "up" /\ Ready(c)' /\ ~Undelivered(writer)'
    OBVIOUS
  <2>1. link[writer] = "up" /\ Ready(c) /\ ~Undelivered(writer)
    BY <1>1 DEF Undisturbed
  <2>2. \A t \in Sockets \ {writer} : inbox'[t] = inbox[t]
    BY <1>1, Typed
  <2> QED
    BY <1>1, <2>1, <2>2 DEF Ready, Undelivered, server
<1>4. CASE Sent(c, frag[c] + 1, writer, link)
  <2>1. UNCHANGED outcome /\ (\A d \in Calls \ {c} : pc'[d] = pc[d])
        /\ (link[writer] = "up" => pc'[c] = "draining" /\ link'[writer] = "up")
    BY <1>1, <1>4, Typed, SentPlace
  <2>2. Undisturbed(c) => Undisturbed(c)'
    BY <1>1, <1>3, <2>1 DEF Undisturbed
  <2> QED
    BY <1>1, <1>2, <2>1, <2>2, CallSmooth
<1>5. CASE Op[c] = "SEARCH" /\ Closes(c)
  <2>1. /\ pc'[c] = "closing" /\ UNCHANGED outcome /\ \A d \in Calls \ {c} : pc'[d] = pc[d]
        /\ link'[writer] = Shut(link[writer])
    BY <1>1, <1>5, ClosesPlace
  <2>2. Results(c, got[c])' \subseteq Good(c)'
    BY <1>5 DEF Results, Good
  <2>3. Undisturbed(c) => Undisturbed(c)'
    BY <1>1, <1>3, <2>1, <2>2 DEF Undisturbed, Shut
  <2> QED
    BY <1>1, <1>2, <2>1, <2>3, CallSmooth
<1>6. CASE Await(c, "reading", writer) /\ UNCHANGED link
  <2>1. pc'[c] = "reading" /\ UNCHANGED outcome /\ \A d \in Calls \ {c} : pc'[d] = pc[d]
    BY <1>6, AwaitPlace
  <2>2. Undisturbed(c) => Undisturbed(c)'
    BY <1>1, <1>3, <1>6, <2>1 DEF Undisturbed
  <2> QED
    BY <1>1, <1>2, <2>1, <2>2, CallSmooth
<1> QED
  BY <1>1, <1>4, <1>5, <1>6

LEMMA RecloseSmooth ==
    ASSUME TypeOK, Connection, Smooth, NEW c \in Calls, Reclose(c)
    PROVE  Smooth'
<1>1. /\ pc[c] \in {"draining", "broken"} /\ link[writer] = "reset" /\ UNCHANGED clean
      /\ Await(c, "reclosing", writer)
  BY RecloseContract
<1>2. /\ \A d \in Calls \ {c} : ~Busy(d)
      /\ outcome[c] = "none"
      /\ c \in clean \ Mismatched => Undisturbed(c)
  BY <1>1, BusySmooth DEF Busy
<1>3. ~Undisturbed(c)
  BY <1>1 DEF Undisturbed
<1> QED
  BY <1>1, <1>2, <1>3, AwaitPlace, CallSmooth

LEMMA WaitClosedSmooth ==
    ASSUME TypeOK, Connection, Smooth, NEW c \in Calls, WaitClosed(c)
    PROVE  Smooth'
<1>1. /\ pc[c] \in {"closing", "reclosing"} /\ UNCHANGED clean
      /\ \/ link[writer] = "reset" /\ Raised(c)
         \/ pc[c] = "closing" /\ \E r \in Results(c, got[c]) : Return(c, r)
  BY WaitClosedContract
<1>2. /\ \A d \in Calls \ {c} : ~Busy(d)
      /\ c \in clean \ Mismatched => Undisturbed(c)
  BY <1>1, BusySmooth DEF Busy
<1>3. CASE link[writer] = "reset" /\ Raised(c)
  <2>1. ~Undisturbed(c)
    BY <1>1, <1>3 DEF Undisturbed
  <2> QED
    BY <1>1, <1>2, <1>3, <2>1, RaisedPlace, CallSmooth
<1>4. ASSUME pc[c] = "closing", NEW r \in Results(c, got[c]), Return(c, r) PROVE Smooth'
  <2>1. pc'[c] = "done" /\ outcome'[c] = r
        /\ \A d \in Calls \ {c} : pc'[d] = pc[d] /\ outcome'[d] = outcome[d]
    BY <1>4, ReturnPlace
  <2>2. Undisturbed(c) => r \in Good(c)
    BY <1>4 DEF Undisturbed
  <2>3. Undisturbed(c) => Undisturbed(c)'
    BY <2>1, <2>2 DEF Undisturbed, Good
  <2> QED
    BY <1>1, <1>2, <2>1, <2>3, CallSmooth
<1> QED
  BY <1>1, <1>3, <1>4

LEMMA ReadFailsSmooth ==
    ASSUME TypeOK, Connection, Smooth, NEW c \in Calls, ReadFails(c)
    PROVE  Smooth'
<1>1. pc[c] = "reading" /\ link[writer] = "reset" /\ Raised(c) /\ UNCHANGED clean
  BY ReadFailsContract
<1>2. /\ \A d \in Calls \ {c} : ~Busy(d)
      /\ c \in clean \ Mismatched => Undisturbed(c)
  BY <1>1, BusySmooth DEF Busy
<1>3. ~Undisturbed(c)
  BY <1>1 DEF Undisturbed
<1> QED
  BY <1>1, <1>2, <1>3, RaisedPlace, CallSmooth

LEMMA ReadTextSmooth ==
    ASSUME TypeOK, Connection, Exchange, Smooth, NEW c \in Calls, NEW n \in Nat, ReadText(c, n)
    PROVE  Smooth'
<1>1. /\ pc[c] = "reading" /\ writer \in Sockets /\ Op[c] # "SEARCH"
      /\ n <= Len(outbox[writer])
      /\ n = 0 => link[writer] # "up"
      /\ got' = [got EXCEPT ![c] = SubSeq(outbox[writer], 1, n)]
      /\ Closes(c)
      /\ UNCHANGED <<writer, clean>>
  BY ReadTextContract DEF ReadText
<1>2. /\ \A d \in Calls \ {c} : ~Busy(d)
      /\ outcome[c] = "none"
      /\ c \in clean \ Mismatched => Undisturbed(c)
  BY <1>1, BusySmooth DEF Busy
<1>3. /\ pc'[c] = "closing" /\ UNCHANGED outcome /\ \A d \in Calls \ {c} : pc'[d] = pc[d]
      /\ link'[writer] = Shut(link[writer])
  BY <1>1, ClosesPlace
<1>4. ASSUME Undisturbed(c) PROVE Undisturbed(c)'
  <2>1. link[writer] = "up" /\ n > 0
    BY <1>1, <1>4 DEF Undisturbed
  <2>2. outbox[writer] \in Seq(Unit) /\ Len(outbox[writer]) \in Nat
    BY <1>1, Typed, LenProperties
  <2>3. PICK k \in {0, 1} : outbox[writer] = <<TextUnit(c, k)>> /\ (k = 0 => Op[c] = "LOAD")
    <3>1. outbox[writer] # <<>>
      <4>1. Len(outbox[writer]) # 0
        BY <1>1, <2>1, <2>2
      <4>2. Len(<<>>) = 0
        OBVIOUS
      <4> QED
        BY <4>1, <4>2
    <3>2. TextReply(c)
      BY <1>1, <2>1, <3>1 DEF Exchange, Progress, Waiting, Unasked, Answering
    <3> QED
      BY <2>1, <3>2 DEF TextReply
  <2>4. n = 1
    <3>1. Len(outbox[writer]) = 1
      BY <2>3
    <3> QED
      BY <1>1, <2>1, <3>1
  <2>5. Len(got'[c]) = 1 /\ got'[c][1] = TextUnit(c, k)
    <3>1. n \in 0 .. Len(outbox[writer])
      BY <1>1, <2>2
    <3>2. Len(SubSeq(outbox[writer], 1, n)) = n /\ \A i \in 1 .. n : SubSeq(outbox[writer], 1, n)[i] = outbox[writer][i]
      BY <2>2, <3>1, TakeTyped
    <3>3. got'[c] = SubSeq(outbox[writer], 1, n)
      BY <1>1, Typed
    <3>4. SubSeq(outbox[writer], 1, n)[1] = outbox[writer][1]
      BY <2>4, <3>2
    <3> QED
      BY <2>3, <2>4, <3>2, <3>3, <3>4
  <2>6. got'[c] \in Seq(Unit) /\ DOMAIN got'[c] = 1 .. 1
    <3>1. n \in 0 .. Len(outbox[writer])
      BY <1>1, <2>2
    <3>2. SubSeq(outbox[writer], 1, n) \in Seq(Unit)
      BY <2>2, <3>1, TakeTyped
    <3>3. got'[c] = SubSeq(outbox[writer], 1, n)
      BY <1>1, Typed
    <3> QED
      BY <2>5, <3>2, <3>3, LenProperties
  <2>7. Results(c, got'[c]) \subseteq Good(c)
    <3>1. CASE k = 1
      <4>1. Confirms(c, got'[c][1])
        BY <2>5, <3>1 DEF Confirms, TextUnit
      <4>2. Results(c, got'[c]) = {"ok"}
        BY <2>5, <4>1 DEF Results
      <4> QED
        BY <4>2 DEF Good
    <3>2. CASE k = 0
      <4>1. Op[c] = "LOAD"
        BY <2>3, <3>2
      <4>2. \A i \in DOMAIN got'[c] : got'[c][i].part = "text"
        BY <2>5, <2>6 DEF TextUnit
      <4>3. Results(c, got'[c]) \subseteq {"ok", "PeriplusServerError"}
        BY <4>2 DEF Results
      <4> QED
        BY <4>1, <4>3 DEF Good
    <3> QED
      BY <2>3, <3>1, <3>2
  <2>8. Results(c, got[c])' \subseteq Good(c)'
    BY <2>7 DEF Results, Good, Confirms
  <2> QED
    BY <1>1, <1>3, <2>1, <2>8 DEF Undisturbed, Shut
<1> QED
  BY <1>1, <1>2, <1>3, <1>4, CallSmooth

LEMMA ReadRecordsSmooth ==
    ASSUME TypeOK, Connection, Exchange, Smooth, NEW c \in Calls, NEW n \in Nat, ReadRecords(c, n),
           parse[c].need > 0 \/ n = Asked(parse[c]) \/ (link[writer] # "up" /\ n = Len(outbox[writer]))
    PROVE  Smooth'
<1>1. /\ pc[c] = "reading" /\ writer \in Sockets /\ Op[c] = "SEARCH"
      /\ UNCHANGED <<writer, inbox, server, clean>>
      /\ \/ Raised(c) /\ Unreadable(c, n)
         \/ Closes(c)
         \/ Await(c, "reading", writer) /\ UNCHANGED link
  BY ReadRecordsContract DEF ReadRecords
<1>2. /\ \A d \in Calls \ {c} : ~Busy(d)
      /\ outcome[c] = "none"
      /\ c \in clean \ Mismatched => Undisturbed(c)
  BY <1>1, BusySmooth DEF Busy
<1>3. CASE Raised(c) /\ Unreadable(c, n)
  <2>1. link[writer] # "up"
    BY <1>3, UnreadableEnds
  <2>2. ~Undisturbed(c)
    BY <1>1, <2>1 DEF Undisturbed
  <2> QED
    BY <1>1, <1>2, <1>3, <2>2, RaisedPlace, CallSmooth
<1>4. CASE Closes(c)
  <2>1. /\ pc'[c] = "closing" /\ UNCHANGED outcome /\ \A d \in Calls \ {c} : pc'[d] = pc[d]
        /\ link'[writer] = Shut(link[writer])
    BY <1>1, <1>4, ClosesPlace
  <2>2. Results(c, got[c])' \subseteq Good(c)'
    BY <1>1 DEF Results, Good
  <2>3. Undisturbed(c) => Undisturbed(c)'
    BY <1>1, <2>1, <2>2 DEF Undisturbed, Shut
  <2> QED
    BY <1>1, <1>2, <2>1, <2>3, CallSmooth
<1>5. CASE Await(c, "reading", writer) /\ UNCHANGED link
  <2>1. pc'[c] = "reading" /\ UNCHANGED outcome /\ \A d \in Calls \ {c} : pc'[d] = pc[d]
    BY <1>5, AwaitPlace
  <2>2. Undisturbed(c) => Undisturbed(c)'
    BY <1>1, <1>5, <2>1 DEF Undisturbed, Undelivered, Ready, server
  <2> QED
    BY <1>1, <1>2, <2>1, <2>2, CallSmooth
<1> QED
  BY <1>1, <1>3, <1>4, <1>5

LEMMA StepSmooth ==
    ASSUME TypeOK, Contract, Smooth, NEW c \in Calls, CallStep(c)
    PROVE  Smooth'
<1>1. Reading /\ Connection /\ Exchange
  BY DEF Contract
<1>2. ASSUME NEW n \in 0 .. Buffered(c), ReadText(c, n) PROVE Smooth'
  <2>1. pc[c] = "reading"
    BY <1>2 DEF ReadText, Arrives
  <2>2. n \in Nat
    BY <1>1, <2>1, BufferedNat
  <2> QED
    BY <1>1, <1>2, <2>2, ReadTextSmooth
<1>3. CASE Continue(c)
  BY <1>1, <1>2, <1>3, OpenedSmooth, RefusedSmooth, DrainedSmooth, RecloseSmooth, RedrainNever,
     WaitClosedSmooth, ReadFailsSmooth DEF Continue
<1>4. CASE ReadWhole(c)
  <2>1. PICK n \in 0 .. Buffered(c) :
          /\ pc[c] = "reading"
          /\ \/ parse[c].need > 0
             \/ n = Asked(parse[c])
             \/ link[mine[c]] # "up" /\ n = Len(outbox[mine[c]])
          /\ ReadRecords(c, n)
    BY <1>4 DEF ReadWhole
  <2>2. n \in Nat
    BY <1>1, <2>1, BufferedNat
  <2>3. mine[c] = writer
    BY <1>1, <2>1 DEF Connection, Standing, Stands
  <2>4. parse[c].need > 0 \/ n = Asked(parse[c]) \/ (link[writer] # "up" /\ n = Len(outbox[writer]))
    BY <2>1, <2>3
  <2> QED
    BY <1>1, <2>1, <2>2, <2>4, ReadRecordsSmooth
<1> QED
  BY <1>1, <1>3, <1>4, StartSmooth DEF CallStep

(* Under the contract, a call that opens its connection to a server ready   *)
(* for it, and meets no fault, returns, or raises the server's own error:   *)
(* nothing left of earlier calls, or of how send() and receive() handle     *)
(* errors, makes it fail.                                                   *)
THEOREM CleanCallsReturn == ContractSpec => []CleanCallsSucceed
<1>1. TypeOK /\ Contract /\ Smooth /\ [ContractNext]_vars => Smooth'
  <2> SUFFICES ASSUME TypeOK, Contract, Smooth, [ContractNext]_vars PROVE Smooth'
    OBVIOUS
  <2>1. CASE UNCHANGED vars
    <3>1. UNCHANGED <<pc, outcome, clean>> /\ UNCHANGED <<conn, call, ran, inbox, link, status>>
      BY <2>1 DEF vars, call, net, server
    <3>2. ASSUME NEW c \in clean \ Mismatched PROVE Undisturbed(c)'
      <4>1. c \in Calls /\ Undisturbed(c)
        BY <3>2 DEF Smooth, TypeOK
      <4> QED
        BY <3>1, <4>1, StillUndisturbed DEF Ready
    <3> QED
      BY <3>1, <3>2 DEF Smooth
  <2> QED
    BY <2>1, StepSmooth, WorldSmooth, ContractSteps DEF Contract
<1>2. TypeOK /\ Smooth => CleanCallsSucceed
  BY DEF TypeOK, Smooth, Undisturbed, Good, CleanCallsSucceed
<1> QED
  BY <1>1, <1>2, InitSmooth, ContractHolds, PTL DEF ContractSpec

-----------------------------------------------------------------------------
(* Refinement *)

(* No search is of an empty list: search([]) returns without waiting for   *)
(* the server.                                                             *)
SearchesAsk == \A c \in Calls : Op[c] = "SEARCH" => Queries[c] > 0

Effect == {c \in Calls : ran[c] > 0}

LEMMA RemoteInit == Init => Remote!Init
  BY DEF Init, Remote!Init, CallState

(* A call that has returned has run. *)
LEMMA ReturnedRan ==
    ASSUME SearchesAsk, Contract, NEW c \in Calls, outcome[c] = "ok"
    PROVE  c \in Effect
  BY DEF SearchesAsk, Contract, Exchange, Progress, Ending, Own, Effect

LEMMA ReturnedRanAfter ==
    ASSUME SearchesAsk, Contract', NEW c \in Calls, outcome'[c] = "ok"
    PROVE  c \in Effect'
  BY DEF SearchesAsk, Contract, Exchange, Progress, Ending, Own, Effect

-----------------------------------------------------------------------------
(* The steps of a call *)

Waits(c) == \E place \in Places \ {"idle", "done"} : \E s : Await(c, place, s)
Ends(c) == \E r \in Outcomes \ {"none"} : Return(c, r)

LEMMA closeEnds ==
    ASSUME NEW c \in Calls, NEW units, close(c, units)
    PROVE  Waits(c) \/ Ends(c)
<1>1. Results(c, units) \subseteq Outcomes \ {"none"} /\ "closing" \in Places \ {"idle", "done"}
  BY DEF Results, Outcomes, Places
<1> QED
  BY <1>1 DEF close, Waits, Ends

LEMMA receiveEnds ==
    ASSUME NEW c \in Calls, receive(c)
    PROVE  Waits(c) \/ Ends(c)
<1>1. /\ {"ConnectionError", "RuntimeError"} \subseteq Outcomes \ {"none"}
      /\ "reading" \in Places \ {"idle", "done"}
  BY DEF Outcomes, Places
<1> QED
  BY <1>1 DEF receive, Waits, Ends

LEMMA writeEnds ==
    ASSUME NEW c \in Calls, NEW i, NEW s, NEW lk, NEW place \in {"draining", "redraining"},
           write(c, i, s, lk, place)
    PROVE  Waits(c)
<1>1. {"draining", "redraining", "broken"} \subseteq Places \ {"idle", "done"}
  BY DEF Places
<1> QED
  BY <1>1 DEF write, Waits

LEMMA sendEnds ==
    ASSUME NEW c \in Calls, NEW i, NEW s, NEW lk, send(c, i, s, lk)
    PROVE  Waits(c) \/ Ends(c)
<1>1. {"ConnectionError", "UnicodeEncodeError"} \subseteq Outcomes \ {"none"}
  BY DEF Outcomes
<1> QED
  BY <1>1, writeEnds DEF send, Ends

LEMMA BeginEnds ==
    ASSUME NEW c \in Calls, NEW s, NEW lk, Begin(c, s, lk)
    PROVE  Waits(c) \/ Ends(c)
<1>1. "AssertionError" \in Outcomes \ {"none"}
  BY DEF Outcomes
<1> QED
  BY <1>1, sendEnds DEF Begin, Ends

LEMMA StartEnds ==
    ASSUME NEW c \in Calls, Start(c)
    PROVE  (Waits(c) \/ Ends(c)) /\ pc[c] = "idle" /\ UNCHANGED ran
<1>1. "connecting" \in Places \ {"idle", "done"}
  BY DEF Places
<1> QED
  BY <1>1, BeginEnds DEF Start, Waits, server

LEMMA ContinueEnds ==
    ASSUME NEW c \in Calls, Continue(c)
    PROVE  (Waits(c) \/ Ends(c)) /\ Busy(c) /\ UNCHANGED ran
<1> USE DEF Busy, server
<1>1. CASE Opened(c)
  BY <1>1, BeginEnds, writeEnds DEF Opened
<1>2. CASE Refused(c)
  <2>1. {"PeriplusConnectionError", "ConnectionResetError", "ConnectionError"} \subseteq Outcomes \ {"none"}
    BY DEF Outcomes
  <2> QED
    BY <1>2, <2>1 DEF Refused, Ends
<1>3. CASE Drained(c)
  BY <1>3, sendEnds, closeEnds, receiveEnds DEF Drained
<1>4. CASE Reclose(c)
  <2>1. {"reopening", "reclosing"} \subseteq Places \ {"idle", "done"}
    BY DEF Places
  <2> QED
    BY <1>4, <2>1 DEF Reclose, Waits
<1>5. CASE RedrainFails(c) \/ ReadFails(c)
  <2>1. "ConnectionResetError" \in Outcomes \ {"none"}
    BY DEF Outcomes
  <2> QED
    BY <1>5, <2>1 DEF RedrainFails, ReadFails, Ends
<1>6. CASE WaitClosed(c)
  <2>1. /\ Results(c, got[c]) \subseteq Outcomes \ {"none"} /\ "ConnectionResetError" \in Outcomes \ {"none"}
        /\ "reopening" \in Places \ {"idle", "done"}
    BY DEF Results, Outcomes, Places
  <2> QED
    BY <1>6, <2>1 DEF WaitClosed, Waits, Ends
<1>7. ASSUME NEW n, ReadText(c, n) PROVE (Waits(c) \/ Ends(c)) /\ Busy(c) /\ UNCHANGED ran
  BY <1>7, closeEnds DEF ReadText, Arrives
<1> QED
  BY <1>1, <1>2, <1>3, <1>4, <1>5, <1>6, <1>7 DEF Continue

LEMMA ReadRecordsEnds ==
    ASSUME NEW c \in Calls, NEW n, ReadRecords(c, n)
    PROVE  (Waits(c) \/ Ends(c)) /\ Busy(c) /\ UNCHANGED ran
<1>1. {"struct.error", "RuntimeError", "UnicodeDecodeError"} \subseteq Outcomes \ {"none"}
  BY DEF Outcomes
<1> QED
  BY <1>1, closeEnds, receiveEnds DEF ReadRecords, Arrives, Busy, server, Ends

LEMMA CallEnds ==
    ASSUME NEW c \in Calls, CallStep(c)
    PROVE  /\ Waits(c) \/ Ends(c)
           /\ UNCHANGED ran
           /\ (Idle /\ pc[c] = "idle") \/ Busy(c)
  BY StartEnds, ContinueEnds, ReadRecordsEnds DEF CallStep, ReadWhole

-----------------------------------------------------------------------------
(* The steps of RemoteCalls they map to *)

LEMMA RemoteCall ==
    ASSUME TypeOK, SearchesAsk, Contract, Contract', NEW c \in Calls, CallStep(c)
    PROVE  [Remote!Next]_(Remote!vars)
<1>1. UNCHANGED Effect
  BY CallEnds DEF Effect
<1>2. \A d \in Calls : CallState[d] = IF pc[d] = "idle" THEN "idle"
                                      ELSE IF pc[d] # "done" THEN "busy"
                                      ELSE IF outcome[d] = "ok" THEN "returned" ELSE "failed"
  BY DEF CallState
<1>3. CASE Waits(c)
  <2>1. /\ pc'[c] \notin {"idle", "done"}
        /\ \A d \in Calls \ {c} : pc'[d] = pc[d] /\ outcome'[d] = outcome[d]
    BY <1>3, AwaitPlace DEF Waits
  <2>2. CASE Idle /\ pc[c] = "idle"
    <3>1. CallState' = [CallState EXCEPT ![c] = "busy"]
      BY <2>1 DEF CallState
    <3>2. CallState[c] = "idle" /\ \A d \in Calls : CallState[d] # "busy"
      BY <1>2, <2>2 DEF Idle
    <3> QED
      BY <1>1, <3>1, <3>2 DEF Remote!Begin, Remote!Next, Effect
  <2>3. CASE Busy(c)
    <3>1. CallState' = CallState
      BY <2>1, <2>3 DEF CallState, Busy
    <3> QED
      BY <1>1, <3>1 DEF Remote!vars, Effect
  <2> QED
    BY <2>2, <2>3, CallEnds
<1>4. ASSUME NEW r \in Outcomes \ {"none"}, Return(c, r) PROVE [Remote!Next]_(Remote!vars)
  <2>1. /\ pc'[c] = "done" /\ outcome'[c] = r
        /\ \A d \in Calls \ {c} : pc'[d] = pc[d] /\ outcome'[d] = outcome[d]
    BY <1>4, ReturnPlace
  <2>2. CASE Idle /\ pc[c] = "idle"
    <3>1. CallState[c] = "idle" /\ \A d \in Calls : CallState[d] # "busy"
      BY <1>2, <2>2 DEF Idle
    <3>2. r # "ok"
      <4>1. c \notin Effect
        BY <2>2 DEF Contract, Once, After, Effect
      <4> QED
        BY <1>1, <2>1, <4>1, ReturnedRanAfter
    <3>3. CallState' = [CallState EXCEPT ![c] = "failed"]
      BY <2>1, <3>2 DEF CallState
    <3> QED
      BY <1>1, <3>1, <3>3 DEF Remote!FailAtOnce, Remote!Next, Effect
  <2>3. CASE Busy(c)
    <3>1. CallState[c] = "busy"
      BY <1>2, <2>3 DEF Busy
    <3>2. CASE r = "ok"
      <4>1. c \in Effect
        BY <1>1, <2>1, <3>2, ReturnedRanAfter
      <4>2. CallState' = [CallState EXCEPT ![c] = "returned"]
        BY <2>1, <3>2 DEF CallState
      <4> QED
        BY <1>1, <3>1, <4>1, <4>2 DEF Remote!Succeed, Remote!Next, Effect
    <3>3. CASE r # "ok"
      <4>1. CallState' = [CallState EXCEPT ![c] = "failed"]
        BY <2>1, <3>3 DEF CallState
      <4> QED
        BY <1>1, <3>1, <4>1 DEF Remote!Fail, Remote!Next, Effect
    <3> QED
      BY <3>2, <3>3
  <2> QED
    BY <2>2, <2>3, CallEnds
<1> QED
  BY <1>3, <1>4, CallEnds DEF Ends

(* A command that runs had not, and its call has asked for it. *)
LEMMA RemoteEffect ==
    ASSUME TypeOK, SearchesAsk, Contract, UNCHANGED call, NEW s \in Sockets, NEW c \in Calls, Runs(s, c)
    PROVE  Remote!TakeEffect(c)
<1>1. UNCHANGED CallState
  BY DEF call, CallState
<1>2. inbox[s][Fragments(c)] = Last(c) /\ Fragments(c) \in 1 .. Len(inbox[s])
  <2>1. Fragments(c) \in Nat \ {0} /\ Len(inbox[s]) \in Nat
    BY FragmentsNat, InboxTyped
  <2>2. Fragments(c) \in 1 .. Fragments(c)
    BY <2>1
  <2> QED
    BY <2>1, <2>2 DEF Runs, Whole, Last
<1>3. pc[c] \in After /\ ran[c] = 0
  BY <1>2 DEF Contract, Once
<1>4. ran' = [ran EXCEPT ![c] = 1]
  BY <1>3 DEF Runs
<1>5. c \notin Effect /\ Effect' = Effect \cup {c}
  BY <1>3, <1>4, Typed DEF Effect
<1>6. outcome[c] # "ok"
  BY <1>5, ReturnedRan
<1>7. CallState[c] \in {"busy", "failed"}
  BY <1>3, <1>6 DEF CallState, After
<1> QED
  BY <1>1, <1>5, <1>7 DEF Remote!TakeEffect, Effect

LEMMA RemoteWorld ==
    ASSUME TypeOK, SearchesAsk, Contract, World
    PROVE  [Remote!Next]_(Remote!vars)
<1>1. CASE UNCHANGED <<call, ran>>
  BY <1>1 DEF Remote!vars, CallState, call
<1>2. ASSUME UNCHANGED call, NEW s \in Sockets, NEW c \in Calls, Runs(s, c) PROVE Remote!Next
  BY <1>2, RemoteEffect DEF Remote!Next
<1> QED
  BY <1>1, <1>2, WorldSteps

(* Under the contract, whatever the network and the server do, a command    *)
(* runs at most once, and has run when its call returns; one whose call     *)
(* raised may still run later.  But search([]) is answered by the client.   *)
THEOREM ClientImplementsRemoteCalls ==
    ASSUME SearchesAsk
    PROVE  ContractSpec => ImplementsRemoteCalls
<1>1. TypeOK /\ Contract /\ Contract' /\ [ContractNext]_vars => [Remote!Next]_(Remote!vars)
  <2> SUFFICES ASSUME TypeOK, Contract, Contract', [ContractNext]_vars PROVE [Remote!Next]_(Remote!vars)
    OBVIOUS
  <2>1. CASE UNCHANGED vars
    BY <2>1 DEF vars, call, server, Remote!vars, CallState
  <2> QED
    BY <2>1, RemoteCall, RemoteWorld, ContractSteps
<1> QED
  BY <1>1, RemoteInit, ContractHolds, PTL DEF ContractSpec, ImplementsRemoteCalls, Remote!Spec

=============================================================================
