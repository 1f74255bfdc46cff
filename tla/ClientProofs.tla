----------------------------- MODULE ClientProofs -----------------------------
(***************************************************************************)
(* Theorems about Client, for any program of calls, any replies and any    *)
(* number of connections and faults.                                       *)
(***************************************************************************)
EXTENDS Client, SequenceTheorems, TLAPS

Links == {"new", "up", "fin", "stale", "reset", "closed", "dead"}
Parse == [queries : Nat, fields : Nat, need : Nat]

(* The part of TypeOK that Await and Return write. *)
CallTyped ==
    /\ pc \in [Calls -> Places]
    /\ mine \in [Calls -> 0 .. opened]
    /\ outcome \in [Calls -> Outcomes]

LEMMA CallsTyped ==
    ASSUME TypeOK
    PROVE  /\ pc \in [Calls -> Places]
           /\ mine \in [Calls -> 0 .. opened]
           /\ outcome \in [Calls -> Outcomes]
           /\ opened \in Nat
<1>1. pc \in [Calls -> Places] /\ mine \in [Calls -> 0 .. opened] /\ outcome \in [Calls -> Outcomes]
  BY Zenon DEF TypeOK
<1>2. opened \in 0 .. MaxSockets
  BY Zenon DEF TypeOK
<1>3. MaxSockets \in Nat
  BY CallsAssumption DEF CallsAssumption
<1> QED
  BY <1>1, <1>2, <1>3

(* Await and Return leave the locals of the calls typed. *)
LEMMA AwaitTyped ==
    ASSUME TypeOK, opened' \in Nat, opened <= opened',
           NEW c \in Calls, NEW place \in Places, NEW s \in 0 .. opened', Await(c, place, s)
    PROVE  CallTyped'
<1>1. /\ pc \in [Calls -> Places]
      /\ mine \in [Calls -> 0 .. opened]
      /\ outcome \in [Calls -> Outcomes]
      /\ opened \in Nat
  BY CallsTyped
<1>2. 0 .. opened \subseteq 0 .. opened'
  BY <1>1
<1> QED
  BY <1>1, <1>2 DEF Await, CallTyped

LEMMA ReturnTyped ==
    ASSUME TypeOK, opened' \in Nat, opened <= opened',
           NEW c \in Calls, NEW result \in Outcomes, Return(c, result)
    PROVE  CallTyped'
<1>1. /\ pc \in [Calls -> Places]
      /\ mine \in [Calls -> 0 .. opened]
      /\ outcome \in [Calls -> Outcomes]
      /\ opened \in Nat
  BY CallsTyped
<1>2. 0 .. opened \subseteq 0 .. opened' /\ None \in 0 .. opened' /\ "done" \in Places
  BY <1>1 DEF None, Places
<1> QED
  BY <1>1, <1>2 DEF Return, CallTyped

LEMMA ShutTyped == \A l \in Links : Shut(l) \in Links
  BY DEF Shut, Links

LEMMA writeTyped ==
    ASSUME TypeOK, opened' \in Nat, opened <= opened',
           NEW c \in Calls, NEW i \in Nat, NEW s \in 1 .. opened', NEW lk \in [Sockets -> Links],
           NEW place \in Places, write(c, i, s, lk, place)
    PROVE  CallTyped' /\ link' \in [Sockets -> Links] /\ frag' \in [Calls -> Nat]
<1>1. frag \in [Calls -> Nat]
  BY DEF TypeOK
<1>2. frag' \in [Calls -> Nat]
  BY <1>1 DEF write
<1>3. s \in 0 .. opened' /\ "broken" \in Places
  BY DEF Places
<1>4. CASE lk[s] \in {"up", "fin", "stale"} /\ link' = [lk EXCEPT ![s] = IF @ = "up" THEN "up" ELSE "stale"]
           /\ Await(c, place, s)
  <2>1. CallTyped'
    BY <1>3, <1>4, AwaitTyped
  <2>2. link' \in [Sockets -> Links]
    BY <1>4 DEF Links
  <2> QED
    BY <1>2, <2>1, <2>2
<1>5. CASE link' = [lk EXCEPT ![s] = IF @ = "stale" THEN "reset" ELSE @] /\ Await(c, "broken", s)
  <2>1. CallTyped'
    BY <1>3, <1>5, AwaitTyped
  <2>2. link' \in [Sockets -> Links]
    BY <1>5 DEF Links
  <2> QED
    BY <1>2, <2>1, <2>2
<1> QED
  BY <1>4, <1>5 DEF write

LEMMA sendTyped ==
    ASSUME TypeOK, opened' \in Nat, opened <= opened',
           NEW c \in Calls, NEW i \in Nat, NEW s \in 0 .. opened', NEW lk \in [Sockets -> Links],
           send(c, i, s, lk)
    PROVE  CallTyped' /\ link' \in [Sockets -> Links] /\ frag' \in [Calls -> Nat]
<1>1. frag \in [Calls -> Nat]
  BY DEF TypeOK
<1>2. CASE link' = lk /\ UNCHANGED frag /\ (Return(c, "ConnectionError") \/ Return(c, "UnicodeEncodeError"))
  <2>1. {"ConnectionError", "UnicodeEncodeError"} \subseteq Outcomes
    BY DEF Outcomes
  <2>2. CallTyped'
    BY <1>2, <2>1, ReturnTyped
  <2> QED
    BY <1>1, <1>2, <2>2
<1>3. CASE s # None /\ write(c, i, s, lk, "draining")
  <2>1. s \in 1 .. opened' /\ "draining" \in Places
    BY <1>3 DEF None, Places
  <2> QED
    BY <1>3, <2>1, writeTyped
<1> QED
  BY <1>2, <1>3 DEF send

LEMMA BeginTyped ==
    ASSUME TypeOK, opened' \in Nat, opened <= opened',
           NEW c \in Calls, NEW s \in 0 .. opened', NEW lk \in [Sockets -> Links], Begin(c, s, lk)
    PROVE  CallTyped' /\ link' \in [Sockets -> Links] /\ frag' \in [Calls -> Nat]
<1>1. CASE Return(c, "AssertionError") /\ link' = lk /\ UNCHANGED frag
  <2>1. "AssertionError" \in Outcomes
    BY DEF Outcomes
  <2>2. CallTyped'
    BY <1>1, <2>1, ReturnTyped
  <2> QED
    BY <1>1, <2>2 DEF TypeOK
<1>2. CASE send(c, 1, s, lk)
  BY <1>2, sendTyped
<1> QED
  BY <1>1, <1>2 DEF Begin

LEMMA receiveTyped ==
    ASSUME TypeOK, opened' = opened, NEW c \in Calls, receive(c)
    PROVE  CallTyped'
<1>1. writer \in 0 .. opened /\ opened \in Nat
  BY CallsAssumption DEF TypeOK, CallsAssumption
<1>2. {"ConnectionError", "RuntimeError"} \subseteq Outcomes /\ "reading" \in Places
  BY DEF Outcomes, Places
<1>3. CASE Return(c, "ConnectionError") \/ Return(c, "RuntimeError")
  BY <1>1, <1>2, <1>3, ReturnTyped
<1>4. CASE Await(c, "reading", writer)
  BY <1>1, <1>2, <1>4, AwaitTyped
<1> QED
  BY <1>3, <1>4 DEF receive

LEMMA ResultsTyped == \A c, units : Results(c, units) \subseteq Outcomes
  BY DEF Results, Outcomes

LEMMA closeTyped ==
    ASSUME TypeOK, opened' = opened, NEW c \in Calls, NEW units, close(c, units)
    PROVE  CallTyped' /\ link' \in [Sockets -> Links] /\ connected' \in BOOLEAN
<1>1. writer \in 0 .. opened /\ opened \in Nat /\ link \in [Sockets -> Links]
  BY CallsAssumption DEF TypeOK, CallsAssumption, Links
<1>2. "closing" \in Places
  BY DEF Places
<1>3. connected' \in BOOLEAN
  BY DEF close
<1>4. CASE UNCHANGED link /\ \E r \in Results(c, units) : Return(c, r)
  <2>1. PICK r \in Results(c, units) : Return(c, r)
    BY <1>4
  <2>2. r \in Outcomes
    BY <2>1, ResultsTyped
  <2>3. CallTyped'
    BY <1>1, <2>1, <2>2, ReturnTyped
  <2> QED
    BY <1>1, <1>3, <1>4, <2>3
<1>5. CASE link' = [link EXCEPT ![writer] = Shut(@)] /\ Await(c, "closing", writer)
  <2>1. CallTyped'
    BY <1>1, <1>2, <1>5, AwaitTyped
  <2>2. link' \in [Sockets -> Links]
    BY <1>1, <1>5, ShutTyped
  <2> QED
    BY <1>3, <2>1, <2>2
<1> QED
  BY <1>3, <1>4, <1>5 DEF close

-----------------------------------------------------------------------------
(* Sequences that lose their first n elements, or gain some, keep their     *)
(* type.                                                                    *)
LEMMA DropTyped ==
    ASSUME NEW T, NEW q \in Seq(T), NEW n \in 0 .. Len(q)
    PROVE  /\ SubSeq(q, n + 1, Len(q)) \in Seq(T)
           /\ Len(SubSeq(q, n + 1, Len(q))) = Len(q) - n
           /\ \A i \in 1 .. Len(q) - n : SubSeq(q, n + 1, Len(q))[i] = q[i + n]
<1>1. Len(q) \in Nat /\ n \in Nat
  BY LenProperties
<1>2. n + 1 \in 1 .. Len(q) + 1 /\ Len(q) \in (n + 1) - 1 .. Len(q)
  BY <1>1
<1>3. /\ SubSeq(q, n + 1, Len(q)) \in Seq(T)
      /\ Len(SubSeq(q, n + 1, Len(q))) = Len(q) - (n + 1) + 1
      /\ \A i \in 1 .. Len(q) - (n + 1) + 1 : SubSeq(q, n + 1, Len(q))[i] = q[(n + 1) + i - 1]
  BY <1>2, SubSeqProperties
<1>4. Len(q) - (n + 1) + 1 = Len(q) - n
  BY <1>1
<1>5. \A i \in 1 .. Len(q) - n : (n + 1) + i - 1 = i + n
  BY <1>1
<1> QED
  BY <1>3, <1>4, <1>5

LEMMA TakeTyped ==
    ASSUME NEW T, NEW q \in Seq(T), NEW n \in 0 .. Len(q)
    PROVE  SubSeq(q, 1, n) \in Seq(T) /\ Len(SubSeq(q, 1, n)) = n
           /\ \A i \in 1 .. n : SubSeq(q, 1, n)[i] = q[i]
<1>1. Len(q) \in Nat /\ n \in Nat
  BY LenProperties
<1>2. 1 \in 1 .. Len(q) + 1 /\ n \in 1 - 1 .. Len(q) /\ n - 1 + 1 = n
  BY <1>1
<1>3. /\ SubSeq(q, 1, n) \in Seq(T)
      /\ Len(SubSeq(q, 1, n)) = n - 1 + 1
      /\ \A i \in 1 .. n - 1 + 1 : SubSeq(q, 1, n)[i] = q[1 + i - 1]
  BY <1>2, SubSeqProperties
<1>4. \A i \in 1 .. n : 1 + i - 1 = i
  BY <1>1
<1> QED
  BY <1>2, <1>3, <1>4

LEMMA FieldUnitsTyped == \A c \in Calls, h \in Nat : FieldUnits(c, h) \in Seq(Unit)
<1> SUFFICES ASSUME NEW c \in Calls, NEW h \in Nat PROVE FieldUnits(c, h) \in Seq(Unit)
  OBVIOUS
<1>1. 3 * Fields * h \in Nat
  BY DEF Fields
<1>2. \A i \in 1 .. 3 * Fields * h : ((i - 1) % 3) + 1 \in 1 .. 3
  BY <1>1
<1>3. \A j \in 1 .. 3 : <<"low", "high", "body">>[j] \in Parts \ {"count"}
  BY DEF Parts
<1>4. \A i \in 1 .. 3 * Fields * h : (IF i % 3 = 1 THEN 1 ELSE 0) \in Nat
  OBVIOUS
<1>5. \A i \in 1 .. 3 * Fields * h :
        [of |-> c, at |-> i, part |-> <<"low", "high", "body">>[((i - 1) % 3) + 1],
         n |-> IF i % 3 = 1 THEN 1 ELSE 0] \in Unit
  <2> SUFFICES ASSUME NEW i \in 1 .. 3 * Fields * h
               PROVE  [of |-> c, at |-> i, part |-> <<"low", "high", "body">>[((i - 1) % 3) + 1],
                       n |-> IF i % 3 = 1 THEN 1 ELSE 0] \in Unit
    OBVIOUS
  <2>1. i \in Nat
    BY <1>1
  <2>2. PICK p : p = <<"low", "high", "body">>[((i - 1) % 3) + 1]
    OBVIOUS
  <2>3. PICK n : n = IF i % 3 = 1 THEN 1 ELSE 0
    OBVIOUS
  <2>4. p \in Parts /\ p # "count" /\ n \in Nat
    BY <1>2, <1>3, <1>4, <2>2, <2>3
  <2>5. [of |-> c, at |-> i, part |-> p, n |-> n] \in Unit
    BY <2>1, <2>4 DEF Unit
  <2> QED
    BY <2>2, <2>3, <2>5
<1> QED
  BY <1>1, <1>5 DEF FieldUnits

LEMMA QueryUnitsTyped == \A c \in Calls, h \in Int : QueryUnits(c, h) \in Seq(Unit)
<1> SUFFICES ASSUME NEW c \in Calls, NEW h \in Int PROVE QueryUnits(c, h) \in Seq(Unit)
  OBVIOUS
<1>1. [of |-> c, at |-> 0, part |-> "count", n |-> h] \in Unit
  BY DEF Unit, Parts
<1>2. <<[of |-> c, at |-> 0, part |-> "count", n |-> h]>> \in Seq(Unit)
  BY <1>1
<1>3. (IF h > 0 THEN h ELSE 0) \in Nat
  OBVIOUS
<1>4. FieldUnits(c, IF h > 0 THEN h ELSE 0) \in Seq(Unit)
  BY <1>3, FieldUnitsTyped
<1> QED
  BY <1>2, <1>4, ConcatProperties DEF QueryUnits

LEMMA TextUnitTyped == \A c \in Calls, n \in Nat : <<TextUnit(c, n)>> \in Seq(Unit)
  BY DEF TextUnit, Unit, Parts

LEMMA AnswerTyped ==
    ASSUME TypeOK, NEW s, NEW c \in Calls, NEW units \in Seq(Unit), Answer(s, c, units)
    PROVE  outbox' \in [Sockets -> Seq(Unit)] /\ answered' \in [Calls -> Nat]
<1>1. outbox \in [Sockets -> Seq(Unit)] /\ answered \in [Calls -> Nat]
  BY DEF TypeOK
<1>2. CASE UNCHANGED <<outbox, answered>>
  BY <1>1, <1>2
<1>3. CASE /\ outbox' = [outbox EXCEPT ![s] = @ \o units]
           /\ answered' = [answered EXCEPT ![c] = @ + Len(units)]
  <2>1. Len(units) \in Nat
    BY LenProperties
  <2>2. \A q \in Seq(Unit) : q \o units \in Seq(Unit)
    BY ConcatProperties
  <2>3. outbox' \in [Sockets -> Seq(Unit)]
    BY <1>1, <1>3, <2>2
  <2>4. answered' \in [Calls -> Nat]
    BY <1>1, <1>3, <2>1
  <2> QED
    BY <2>3, <2>4
<1> QED
  BY <1>2, <1>3 DEF Answer

-----------------------------------------------------------------------------
(* Every action keeps TypeOK. *)

ClientTyped ==
    /\ CallTyped
    /\ connected \in BOOLEAN
    /\ opened \in 0 .. MaxSockets
    /\ writer \in 0 .. opened
    /\ link \in [Sockets -> Links]
    /\ frag \in [Calls -> Nat]
    /\ parse \in [Calls -> Parse]
    /\ got \in [Calls -> Seq(Unit)]

ServerTyped ==
    /\ inbox \in [Sockets -> Seq(Fragment)]
    /\ outbox \in [Sockets -> Seq(Unit)]
    /\ status \in DOMAIN Allowed
    /\ owed \in [Sockets -> Seq(Calls)]
    /\ ran \in [Calls -> Nat]
    /\ answered \in [Calls -> Nat]
    /\ clean \subseteq Calls
    /\ faults \in 0 .. MaxFaults

LEMMA TypeParts == TypeOK <=> ClientTyped /\ ServerTyped
  BY DEF TypeOK, ClientTyped, ServerTyped, CallTyped, Links, Parse

LEMMA TypePartsNext == TypeOK' <=> ClientTyped' /\ ServerTyped'
  BY DEF TypeOK, ClientTyped, ServerTyped, CallTyped, Links, Parse

LEMMA Bounds == MaxSockets \in Nat /\ MaxFaults \in Nat /\ MaxHits \in Nat
  BY CallsAssumption DEF CallsAssumption

LEMMA FragmentsNat == \A c \in Calls : Fragments(c) \in Nat \ {0}
  BY CallsAssumption DEF CallsAssumption, Fragments

LEMMA InitTyped == Init => TypeOK
<1> SUFFICES ASSUME Init PROVE TypeOK
  OBVIOUS
<1>1. \A T : << >> \in Seq(T)
  OBVIOUS
<1>2. NoParse \in Parse
  BY DEF NoParse, Parse
<1>3. "idle" \in Places /\ "none" \in Outcomes /\ "new" \in Links
  BY DEF Places, Outcomes, Links
<1>4. {"UNINITIALIZED", "READY"} \subseteq DOMAIN Allowed
  BY DEF Allowed
<1>5. ClientTyped
  <2>1. CallTyped
    <3>1. 0 \in 0 .. opened
      BY DEF Init
    <3>2. mine \in [Calls -> 0 .. opened]
      BY <3>1 DEF Init, None
    <3>3. pc \in [Calls -> Places]
      BY <1>3 DEF Init
    <3>4. outcome \in [Calls -> Outcomes]
      BY <1>3 DEF Init
    <3> QED
      BY <3>2, <3>3, <3>4 DEF CallTyped
  <2>2. opened \in 0 .. MaxSockets /\ writer \in 0 .. opened
    BY Bounds DEF Init, None
  <2>7. connected \in BOOLEAN
    BY DEF Init
  <2>3. link \in [Sockets -> Links] /\ frag \in [Calls -> Nat]
    BY <1>3 DEF Init
  <2>4. parse \in [Calls -> Parse]
    BY <1>2 DEF Init
  <2>5. << >> \in Seq(Unit)
    BY <1>1
  <2>6. got \in [Calls -> Seq(Unit)]
    BY <2>5 DEF Init
  <2> QED
    BY <2>1, <2>2, <2>3, <2>4, <2>6, <2>7 DEF ClientTyped
<1>6. ServerTyped
  BY <1>1, <1>4, Bounds DEF Init, ServerTyped
<1> QED
  BY <1>5, <1>6, TypeParts

LEMMA StartTyped == ASSUME TypeOK, NEW c \in Calls, Start(c) PROVE TypeOK'
<1>1. ClientTyped /\ ServerTyped
  BY TypeParts
<1>2. Queries[c] \in Nat
  BY CallsAssumption DEF CallsAssumption
<1>3. parse' \in [Calls -> Parse]
  BY <1>1, <1>2 DEF Start, ClientTyped, Parse
<1>4. opened' = opened /\ opened \in Nat /\ writer \in 0 .. opened' /\ link \in [Sockets -> Links]
      /\ frag \in [Calls -> Nat]
  BY <1>1, Bounds DEF Start, ClientTyped, conn
<1>5. CallTyped' /\ link' \in [Sockets -> Links] /\ frag' \in [Calls -> Nat]
  <2>1. CASE Begin(c, writer, link)
    BY <1>4, <2>1, BeginTyped
  <2>2. CASE Await(c, "connecting", None) /\ UNCHANGED <<link, frag>>
    <3>1. "connecting" \in Places /\ None \in 0 .. opened'
      BY <1>4 DEF Places, None
    <3>2. CallTyped'
      BY <1>4, <2>2, <3>1, AwaitTyped
    <3> QED
      BY <1>4, <2>2, <3>2
  <2> QED
    BY <2>1, <2>2 DEF Start
<1>6. ClientTyped'
  BY <1>1, <1>3, <1>5 DEF Start, ClientTyped, conn
<1>7. clean' \subseteq Calls
  BY <1>1 DEF Start, ServerTyped
<1>8. ServerTyped'
  BY <1>1, <1>7 DEF Start, ServerTyped, server
<1> QED
  BY <1>6, <1>8, TypePartsNext

LEMMA OpenedTyped == ASSUME TypeOK, NEW c \in Calls, Opened(c) PROVE TypeOK'
<1>1. ClientTyped /\ ServerTyped
  BY TypeParts
<1>2. /\ opened' = opened + 1 /\ opened \in Nat /\ opened' \in 0 .. MaxSockets
      /\ opened <= opened' /\ opened + 1 \in 1 .. opened' /\ opened + 1 \in 0 .. opened'
      /\ opened' \in Nat
  BY <1>1, Bounds DEF Opened, ClientTyped
<1>3. DEFINE lk == [link EXCEPT ![opened + 1] = "up"]
<1>4. lk \in [Sockets -> Links]
  BY <1>1 DEF ClientTyped, Links
<1>5. frag[c] \in Nat
  BY <1>1 DEF ClientTyped
<1>6. CallTyped' /\ link' \in [Sockets -> Links] /\ frag' \in [Calls -> Nat]
  <2>1. CASE Begin(c, opened + 1, lk)
    BY <1>2, <1>4, <2>1, BeginTyped
  <2>2. CASE write(c, frag[c], opened + 1, lk, "redraining")
    <3>1. "redraining" \in Places
      BY DEF Places
    <3> QED
      BY <1>2, <1>4, <1>5, <2>2, <3>1, writeTyped
  <2> QED
    BY <2>1, <2>2 DEF Opened
<1>7. ClientTyped'
  BY <1>1, <1>2, <1>6 DEF Opened, ClientTyped
<1>8. ServerTyped'
  BY <1>1 DEF Opened, ServerTyped, server
<1> QED
  BY <1>7, <1>8, TypePartsNext

LEMMA RefusedTyped == ASSUME TypeOK, NEW c \in Calls, Refused(c) PROVE TypeOK'
<1>1. ClientTyped /\ ServerTyped
  BY TypeParts
<1>2. opened' = opened /\ opened \in Nat
  BY <1>1, Bounds DEF Refused, ClientTyped, conn
<1>3. /\ "PeriplusConnectionError" \in Outcomes
      /\ "ConnectionError" \in Outcomes
      /\ "ConnectionResetError" \in Outcomes
  BY DEF Outcomes
<1>4. CallTyped'
  <2>1. PICK r \in Outcomes : Return(c, r)
    BY <1>3 DEF Refused
  <2> QED
    BY <1>2, <2>1, ReturnTyped
<1>5. link' \in [Sockets -> Links]
  BY <1>1, ShutTyped DEF Refused, ClientTyped
<1>6. ClientTyped'
  BY <1>1, <1>4, <1>5 DEF Refused, ClientTyped, conn
<1>7. clean' \subseteq Calls /\ faults' \in 0 .. MaxFaults
  BY <1>1, Bounds DEF Refused, ServerTyped
<1>8. ServerTyped'
  BY <1>1, <1>7 DEF Refused, ServerTyped, server
<1> QED
  BY <1>6, <1>8, TypePartsNext

LEMMA DrainedTyped == ASSUME TypeOK, NEW c \in Calls, Drained(c) PROVE TypeOK'
<1>1. ClientTyped /\ ServerTyped
  BY TypeParts
<1>2. /\ opened' = opened /\ opened \in Nat /\ writer' = writer /\ writer \in 0 .. opened'
      /\ frag[c] + 1 \in Nat /\ link \in [Sockets -> Links] /\ frag \in [Calls -> Nat]
      /\ connected \in BOOLEAN
  BY <1>1, Bounds DEF Drained, ClientTyped, conn
<1>3. CallTyped' /\ link' \in [Sockets -> Links] /\ frag' \in [Calls -> Nat] /\ connected' \in BOOLEAN
  <2>1. CASE send(c, frag[c] + 1, writer, link) /\ UNCHANGED conn
    BY <1>2, <2>1, sendTyped DEF conn
  <2>2. CASE close(c, <<>>) /\ UNCHANGED frag
    BY <1>2, <2>2, closeTyped
  <2>3. CASE receive(c) /\ UNCHANGED <<connected, link, frag>>
    BY <1>2, <2>3, receiveTyped
  <2> QED
    BY <2>1, <2>2, <2>3 DEF Drained
<1>4. inbox' \in [Sockets -> Seq(Fragment)]
  <2>1. [call |-> c, n |-> frag[c]] \in Fragment
    BY <1>1 DEF ClientTyped, Fragment
  <2>2. \A q \in Seq(Fragment) : Append(q, [call |-> c, n |-> frag[c]]) \in Seq(Fragment)
    BY <2>1, AppendProperties
  <2> QED
    BY <1>1, <2>2 DEF Drained, ServerTyped
<1>5. ClientTyped'
  BY <1>1, <1>2, <1>3 DEF Drained, ClientTyped
<1>6. ServerTyped'
  BY <1>1, <1>4 DEF Drained, ServerTyped, server
<1> QED
  BY <1>5, <1>6, TypePartsNext

LEMMA RecloseTyped == ASSUME TypeOK, NEW c \in Calls, Reclose(c) PROVE TypeOK'
<1>1. ClientTyped /\ ServerTyped
  BY TypeParts
<1>2. opened' = opened /\ opened \in Nat /\ writer \in 0 .. opened' /\ None \in 0 .. opened'
  BY <1>1, Bounds DEF Reclose, ClientTyped, None
<1>3. "reopening" \in Places /\ "reclosing" \in Places
  BY DEF Places
<1>4. CallTyped'
  BY <1>2, <1>3, AwaitTyped DEF Reclose
<1>5. link' \in [Sockets -> Links]
  <2>1. link \in [Sockets -> Links]
    BY <1>1 DEF ClientTyped
  <2>2. link' = link \/ link' = [link EXCEPT ![writer] = Shut(@)]
    BY DEF Reclose
  <2> QED
    BY <2>1, <2>2, ShutTyped
<1>6. ClientTyped'
  BY <1>1, <1>4, <1>5 DEF Reclose, ClientTyped
<1>7. ServerTyped'
  BY <1>1 DEF Reclose, ServerTyped, server
<1> QED
  BY <1>6, <1>7, TypePartsNext

LEMMA FailsTyped ==
    ASSUME TypeOK, NEW c \in Calls, RedrainFails(c) \/ ReadFails(c)
    PROVE  TypeOK'
<1>1. ClientTyped /\ ServerTyped
  BY TypeParts
<1>2. Return(c, "ConnectionResetError") /\ UNCHANGED <<conn, net, frag, parse, got, server, clean, faults>>
  BY DEF RedrainFails, ReadFails
<1>3. opened' = opened /\ opened \in Nat /\ "ConnectionResetError" \in Outcomes
  BY <1>1, <1>2, Bounds DEF ClientTyped, conn, Outcomes
<1>4. CallTyped'
  BY <1>2, <1>3, ReturnTyped
<1>5. ClientTyped'
  BY <1>1, <1>2, <1>4 DEF ClientTyped, conn, net
<1>6. ServerTyped'
  BY <1>1, <1>2 DEF ServerTyped, net, server
<1> QED
  BY <1>5, <1>6, TypePartsNext

LEMMA WaitClosedTyped == ASSUME TypeOK, NEW c \in Calls, WaitClosed(c) PROVE TypeOK'
<1>1. ClientTyped /\ ServerTyped
  BY TypeParts
<1>2. opened' = opened /\ opened \in Nat /\ None \in 0 .. opened'
  BY <1>1, Bounds DEF WaitClosed, ClientTyped, None
<1>3. "reopening" \in Places /\ "ConnectionResetError" \in Outcomes
  BY DEF Places, Outcomes
<1>4. CallTyped'
  <2>1. CASE Return(c, "ConnectionResetError")
    BY <1>2, <1>3, <2>1, ReturnTyped
  <2>2. CASE Await(c, "reopening", None)
    BY <1>2, <1>3, <2>2, AwaitTyped
  <2>3. ASSUME NEW r \in Results(c, got[c]), Return(c, r)
        PROVE  CallTyped'
    <3>1. r \in Outcomes
      BY <2>3, ResultsTyped
    <3> QED
      BY <1>2, <2>3, <3>1, ReturnTyped
  <2> QED
    BY <2>1, <2>2, <2>3 DEF WaitClosed
<1>5. ClientTyped'
  BY <1>1, <1>2, <1>4 DEF WaitClosed, ClientTyped, net
<1>6. ServerTyped'
  BY <1>1 DEF WaitClosed, ServerTyped, net, server
<1> QED
  BY <1>5, <1>6, TypePartsNext

(* Numbers and lengths a search reads are naturals, but for a count.        *)
LEMMA NumbersTyped ==
    ASSUME NEW units \in Seq(Unit), Len(units) > 0
    PROVE  /\ Numbers(units) \subseteq Int
           /\ Len(units) # 1 => Numbers(units) \subseteq Nat
<1>1. units[1] \in Unit
  BY LenProperties
<1>2. units[1].n \in Int /\ (units[1].part = "low" => units[1].n \in Nat)
  BY <1>1 DEF Unit
<1> QED
  BY <1>2 DEF Numbers, Garbage

LEMMA ParsedTyped ==
    ASSUME NEW p \in Parse, p # NoParse, NEW units \in Seq(Unit), Len(units) > 0,
           Len(units) <= Asked(p), p.need > 0 \/ Len(units) = Asked(p)
    PROVE  Parsed(p, units) \subseteq Parse
<1>1. p.queries \in Nat /\ p.fields \in Nat /\ p.need \in Nat /\ Len(units) \in Nat
  BY LenProperties DEF Parse
<1>2. CASE p.need > 0
  <2>1. p.need - Len(units) \in Nat
    BY <1>1, <1>2 DEF Asked
  <2>2. PICK m : m = p.need - Len(units)
    OBVIOUS
  <2>3. m \in Nat
    BY <2>1, <2>2
  <2>4. [p EXCEPT !.need = m] \in Parse
    BY <1>1, <2>3 DEF Parse
  <2> QED
    BY <1>2, <2>2, <2>4 DEF Parsed
<1>3. CASE ~(p.need > 0) /\ p.fields > 0
  <2>0. p.need = 0 /\ Asked(p) = 2
    BY <1>1, <1>3 DEF Asked
  <2>1. Len(units) = 2 /\ p.fields - 1 \in Nat
    BY <1>1, <1>3, <2>0
  <2>6. Len(units) # 1
    BY <2>1
  <2>2. Numbers(units) \subseteq Nat
    BY <2>6, NumbersTyped
  <2>3. PICK f : f = p.fields - 1
    OBVIOUS
  <2>4. f \in Nat
    BY <2>1, <2>3
  <2>5. \A v \in Nat : [p EXCEPT !.fields = f, !.need = v] \in Parse
    BY <1>1, <2>4 DEF Parse
  <2> QED
    BY <1>3, <2>2, <2>3, <2>5 DEF Parsed
<1>4. CASE ~(p.need > 0) /\ ~(p.fields > 0)
  <2>1. Numbers(units) \subseteq Int
    BY NumbersTyped
  <2>2. \A v \in Int : (IF v > 0 THEN Fields * v ELSE 0) \in Nat
    BY DEF Fields
  <2>3. p.queries # 0
    BY <1>1, <1>4 DEF Parse, NoParse
  <2>4. p.queries - 1 \in Nat
    BY <1>1, <2>3
  <2>5. \A v \in Numbers(units) :
          [p EXCEPT !.queries = p.queries - 1, !.fields = IF v > 0 THEN Fields * v ELSE 0] \in Parse
    <3> SUFFICES ASSUME NEW v \in Numbers(units)
                 PROVE  [p EXCEPT !.queries = p.queries - 1,
                                  !.fields = IF v > 0 THEN Fields * v ELSE 0] \in Parse
      OBVIOUS
    <3>1. PICK f : f = IF v > 0 THEN Fields * v ELSE 0
      OBVIOUS
    <3>2. f \in Nat
      BY <2>1, <2>2, <3>1
    <3>3. [p EXCEPT !.queries = p.queries - 1, !.fields = f] \in Parse
      BY <1>1, <2>4, <3>2 DEF Parse
    <3> QED
      BY <3>1, <3>3
  <2> QED
    BY <1>4, <2>5 DEF Parsed
<1> QED
  BY <1>2, <1>3, <1>4

LEMMA ArrivesTyped ==
    ASSUME TypeOK, NEW c \in Calls, NEW n \in Nat, Arrives(c, n)
    PROVE  /\ outbox' \in [Sockets -> Seq(Unit)]
           /\ mine[c] \in Sockets =>
                /\ SubSeq(outbox[mine[c]], 1, n) \in Seq(Unit)
                /\ Len(SubSeq(outbox[mine[c]], 1, n)) = n
<1>1. outbox \in [Sockets -> Seq(Unit)]
  BY DEF TypeOK
<1>2. CASE mine[c] \notin Sockets
  <2>1. outbox' = outbox
    BY <1>1, <1>2 DEF Arrives
  <2> QED
    BY <1>1, <1>2, <2>1
<1>3. CASE mine[c] \in Sockets
  <2>1. outbox[mine[c]] \in Seq(Unit) /\ n \in 0 .. Len(outbox[mine[c]])
    BY <1>1, <1>3, LenProperties DEF Arrives
  <2>2. SubSeq(outbox[mine[c]], n + 1, Len(outbox[mine[c]])) \in Seq(Unit)
    BY <2>1, DropTyped
  <2>3. outbox' \in [Sockets -> Seq(Unit)]
    BY <1>1, <2>2 DEF Arrives
  <2>4. /\ SubSeq(outbox[mine[c]], 1, n) \in Seq(Unit)
        /\ Len(SubSeq(outbox[mine[c]], 1, n)) = n
    BY <2>1, TakeTyped
  <2> QED
    BY <2>3, <2>4
<1> QED
  BY <1>2, <1>3

-----------------------------------------------------------------------------
(* Where a step takes its call: to one of the places, and to "reading" only *)
(* with a socket.                                                           *)
Moves(c, places) ==
    \E p \in places : \E s :
        /\ pc' = [pc EXCEPT ![c] = p]
        /\ mine' = [mine EXCEPT ![c] = s]
        /\ p = "reading" => s # None

LEMMA MovesMore ==
    ASSUME NEW c, NEW places, NEW more, places \subseteq more, Moves(c, places)
    PROVE  Moves(c, more)
  BY DEF Moves

LEMMA AwaitMoves ==
    ASSUME NEW c, NEW place, NEW s, Await(c, place, s), place # "reading" \/ s # None
    PROVE  Moves(c, {place})
  BY DEF Await, Moves

LEMMA ReturnMoves == ASSUME NEW c, NEW r, Return(c, r) PROVE Moves(c, {"done"})
  BY DEF Return, Moves

LEMMA writeMoves ==
    ASSUME NEW c, NEW i, NEW s, NEW lk, NEW place, place # "reading", write(c, i, s, lk, place)
    PROVE  Moves(c, {place, "broken"})
  BY DEF write, Await, Moves

LEMMA sendMoves ==
    ASSUME NEW c, NEW i, NEW s, NEW lk, send(c, i, s, lk)
    PROVE  Moves(c, {"done", "draining", "broken"})
  BY DEF send, write, Await, Return, Moves

LEMMA BeginMoves ==
    ASSUME NEW c, NEW s, NEW lk, Begin(c, s, lk)
    PROVE  Moves(c, {"done", "draining", "broken"})
  BY sendMoves DEF Begin, Return, Moves

LEMMA receiveMoves ==
    ASSUME NEW c, receive(c)
    PROVE  Moves(c, {"done", "reading"})
  BY DEF receive, Await, Return, Moves

LEMMA closeMoves ==
    ASSUME NEW c, NEW units, close(c, units)
    PROVE  Moves(c, {"done", "closing"})
  BY DEF close, Await, Return, Moves

Sending == {"done", "draining", "broken"}
After == {"reading", "closing", "done"}

LEMMA StartMoves ==
    ASSUME NEW c, Start(c)
    PROVE  Moves(c, {"connecting"} \cup Sending) /\ UNCHANGED <<inbox, ran>> /\ pc[c] \notin After
<1>1. CASE Begin(c, writer, link)
  BY <1>1, BeginMoves, MovesMore DEF Start, server, Sending, After
<1>2. CASE Await(c, "connecting", None)
  BY <1>2 DEF Start, Await, Moves, server, After
<1> QED
  BY <1>1, <1>2 DEF Start

LEMMA OpenedMoves ==
    ASSUME NEW c, Opened(c)
    PROVE  Moves(c, {"redraining"} \cup Sending) /\ UNCHANGED <<inbox, ran>> /\ pc[c] \notin After
<1>1. UNCHANGED <<inbox, ran>> /\ pc[c] \notin After
  BY DEF Opened, server, After
<1>2. ASSUME NEW lk, Begin(c, opened + 1, lk) PROVE Moves(c, {"redraining"} \cup Sending)
  BY <1>2, BeginMoves, MovesMore DEF Sending
<1>3. ASSUME NEW lk, write(c, frag[c], opened + 1, lk, "redraining")
      PROVE  Moves(c, {"redraining"} \cup Sending)
  <2>1. Moves(c, {"redraining", "broken"})
    BY <1>3, writeMoves
  <2>2. {"redraining", "broken"} \subseteq {"redraining"} \cup Sending
    BY DEF Sending
  <2> QED
    BY <2>1, <2>2, MovesMore
<1> QED
  BY <1>1, <1>2, <1>3 DEF Opened

LEMMA RefusedMoves ==
    ASSUME NEW c, Refused(c)
    PROVE  Moves(c, {"done"}) /\ UNCHANGED <<inbox, ran, parse>> /\ pc[c] \notin After
<1>1. PICK r : Return(c, r)
  BY DEF Refused
<1>2. Moves(c, {"done"})
  BY <1>1, ReturnMoves
<1> QED
  BY <1>2 DEF Refused, server, After

LEMMA DrainedMoves ==
    ASSUME NEW c, Drained(c)
    PROVE  /\ \/ frag[c] < Fragments(c) /\ Moves(c, Sending)
              \/ /\ frag[c] = Fragments(c)
                 /\ \/ Moves(c, {"done", "closing"})
                    \/ Moves(c, {"done", "reading"}) /\ (Op[c] = "SEARCH" => parse[c] # NoParse)
           /\ UNCHANGED <<ran, parse>>
           /\ pc[c] \notin After
<1>1. UNCHANGED <<ran, parse>> /\ pc[c] \notin After
  BY DEF Drained, server, After
<1>2. CASE frag[c] < Fragments(c) /\ send(c, frag[c] + 1, writer, link)
  BY <1>1, <1>2, sendMoves DEF Sending
<1>3. CASE frag[c] = Fragments(c) /\ Op[c] = "SEARCH" /\ parse[c] = NoParse /\ close(c, <<>>)
  BY <1>1, <1>3, closeMoves
<1>4. CASE frag[c] = Fragments(c) /\ ~(Op[c] = "SEARCH" /\ parse[c] = NoParse) /\ receive(c)
  BY <1>1, <1>4, receiveMoves
<1> QED
  BY <1>2, <1>3, <1>4 DEF Drained

LEMMA RecloseMoves ==
    ASSUME NEW c, Reclose(c)
    PROVE  Moves(c, {"reopening", "reclosing"}) /\ UNCHANGED <<inbox, ran, parse>> /\ pc[c] \notin After
  BY DEF Reclose, Await, Moves, server, After

LEMMA FailsMoves ==
    ASSUME NEW c, RedrainFails(c) \/ ReadFails(c)
    PROVE  Moves(c, {"done"}) /\ UNCHANGED <<inbox, ran, parse>>
  BY ReturnMoves DEF RedrainFails, ReadFails, server, net

LEMMA WaitClosedMoves ==
    ASSUME NEW c, WaitClosed(c)
    PROVE  /\ \/ pc[c] = "closing" /\ Moves(c, {"done"})
              \/ pc[c] = "reclosing" /\ Moves(c, {"done", "reopening"})
           /\ UNCHANGED <<inbox, ran, parse>>
<1>1. UNCHANGED <<inbox, ran, parse>>
  BY DEF WaitClosed, server, net
<1>2. pc[c] = "closing" \/ pc[c] = "reclosing"
  BY DEF WaitClosed
<1>3. ASSUME NEW r, Return(c, r) PROVE Moves(c, {"done"}) /\ Moves(c, {"done", "reopening"})
  BY <1>3 DEF Return, Moves
<1>4. CASE pc[c] = "reclosing" /\ Await(c, "reopening", None)
  <2>1. Moves(c, {"done", "reopening"})
    BY <1>4 DEF Await, Moves
  <2> QED
    BY <1>1, <1>4, <2>1
<1> QED
  BY <1>1, <1>2, <1>3, <1>4 DEF WaitClosed

LEMMA ReadTextMoves ==
    ASSUME NEW c, NEW n, ReadText(c, n)
    PROVE  Moves(c, {"done", "closing"}) /\ UNCHANGED <<inbox, ran, parse>> /\ pc[c] = "reading"
  BY closeMoves DEF ReadText, Arrives, server

(* A read of a search either raises, or has parsed what it read.            *)
LEMMA ReadRecordsMoves ==
    ASSUME NEW c, NEW n, ReadRecords(c, n)
    PROVE  /\ \/ Moves(c, {"done"}) /\ UNCHANGED parse
              \/ \E q \in Parsed(parse[c], SubSeq(outbox[mine[c]], 1, n)) :
                    /\ parse' = [parse EXCEPT ![c] = q]
                    /\ \/ q = NoParse /\ Moves(c, {"done", "closing"})
                       \/ q # NoParse /\ Moves(c, {"done", "reading"})
           /\ UNCHANGED <<inbox, ran>>
           /\ pc[c] = "reading"
<1> DEFINE units == SubSeq(outbox[mine[c]], 1, n)
<1>1. UNCHANGED <<inbox, ran>> /\ pc[c] = "reading"
  BY DEF ReadRecords, Arrives, server
<1>2. ASSUME NEW r, Return(c, r), UNCHANGED parse
      PROVE  Moves(c, {"done"}) /\ UNCHANGED parse
  BY <1>2, ReturnMoves
<1>3. ASSUME NEW q \in Parsed(parse[c], units), parse' = [parse EXCEPT ![c] = q],
             q = NoParse, close(c, units)
      PROVE  Moves(c, {"done", "closing"})
  BY <1>3, closeMoves
<1>4. ASSUME NEW q \in Parsed(parse[c], units), parse' = [parse EXCEPT ![c] = q],
             q # NoParse, receive(c)
      PROVE  Moves(c, {"done", "reading"})
  BY <1>4, receiveMoves
<1> HIDE DEF units
<1>5. \/ \E r : Return(c, r) /\ UNCHANGED parse
      \/ \E q \in Parsed(parse[c], units) :
           /\ parse' = [parse EXCEPT ![c] = q]
           /\ \/ q = NoParse /\ close(c, units)
              \/ q # NoParse /\ receive(c)
  BY DEF ReadRecords, units
<1>6. \/ Moves(c, {"done"}) /\ UNCHANGED parse
      \/ \E q \in Parsed(parse[c], units) :
           /\ parse' = [parse EXCEPT ![c] = q]
           /\ \/ q = NoParse /\ Moves(c, {"done", "closing"})
              \/ q # NoParse /\ Moves(c, {"done", "reading"})
  BY <1>2, <1>3, <1>4, <1>5
<1> QED
  BY <1>1, <1>6 DEF units

-----------------------------------------------------------------------------
(* The rest of type correctness *)

(* A call that waits for data waits for some socket's, and knows what of.   *)
Reading ==
    \A c \in Calls : pc[c] = "reading" =>
        mine[c] # None /\ (Op[c] = "SEARCH" => parse[c] # NoParse)

LEMMA ReadingKept ==
    ASSUME TypeOK, Reading, NEW c \in Calls, NEW places, Moves(c, places),
           NEW p, parse' = [parse EXCEPT ![c] = p],
           "reading" \in places /\ Op[c] = "SEARCH" => p # NoParse
    PROVE  Reading'
<1>1. /\ pc \in [Calls -> Places]
      /\ mine \in [Calls -> 0 .. opened]
      /\ parse \in [Calls -> Parse]
  BY DEF TypeOK, Parse
<1>2. PICK q \in places : \E s :
        /\ pc' = [pc EXCEPT ![c] = q]
        /\ mine' = [mine EXCEPT ![c] = s]
        /\ q = "reading" => s # None
  BY DEF Moves
<1>3. SUFFICES ASSUME NEW d \in Calls, pc'[d] = "reading"
               PROVE  mine'[d] # None /\ (Op[d] = "SEARCH" => parse'[d] # NoParse)
  BY DEF Reading
<1>4. CASE d = c
  BY <1>1, <1>2, <1>3, <1>4
<1>5. CASE d # c
  BY <1>1, <1>2, <1>3, <1>5 DEF Reading
<1> QED
  BY <1>4, <1>5

LEMMA ReadingSame ==
    ASSUME TypeOK, Reading, NEW c \in Calls, NEW places, Moves(c, places),
           UNCHANGED parse,
           "reading" \in places /\ Op[c] = "SEARCH" => parse[c] # NoParse
    PROVE  Reading'
<1>1. parse \in [Calls -> Parse]
  BY DEF TypeOK, Parse
<1>2. parse' = [parse EXCEPT ![c] = parse[c]]
  BY <1>1
<1> QED
  BY <1>2, ReadingKept

LEMMA ReadingSocket ==
    ASSUME TypeOK, Reading, NEW c \in Calls, pc[c] = "reading"
    PROVE  mine[c] \in Sockets
<1>1. mine[c] \in 0 .. opened /\ opened \in 0 .. MaxSockets /\ mine[c] # None
  BY DEF TypeOK, Reading
<1> QED
  BY <1>1, Bounds DEF Sockets, None

LEMMA BufferedNat ==
    ASSUME TypeOK, Reading, NEW c \in Calls, pc[c] = "reading", NEW n \in 0 .. Buffered(c)
    PROVE  n \in Nat
<1>1. mine[c] \in Sockets /\ mine[c] # None
  BY ReadingSocket DEF Reading
<1>2. Buffered(c) \in Nat
  BY <1>1, LenProperties DEF Buffered, TypeOK
<1> QED
  BY <1>2

LEMMA ReadTextTyped ==
    ASSUME TypeOK, Reading, NEW c \in Calls, NEW n \in Nat, ReadText(c, n)
    PROVE  TypeOK'
<1> DEFINE units == SubSeq(outbox[mine[c]], 1, n)
<1>1. ClientTyped /\ ServerTyped
  BY TypeParts
<1>2. Arrives(c, n) /\ mine[c] \in Sockets
  BY ReadingSocket DEF ReadText, Arrives
<1>3. units \in Seq(Unit) /\ outbox' \in [Sockets -> Seq(Unit)]
  BY <1>2, ArrivesTyped
<1>4. close(c, units) /\ opened' = opened
  BY DEF ReadText
<1> HIDE DEF units
<1>5. CallTyped' /\ link' \in [Sockets -> Links] /\ connected' \in BOOLEAN
  BY <1>4, closeTyped
<1>6. got' \in [Calls -> Seq(Unit)]
  BY <1>1, <1>3 DEF ReadText, ClientTyped, units
<1>7. ClientTyped'
  BY <1>1, <1>5, <1>6 DEF ReadText, ClientTyped
<1>8. ServerTyped'
  BY <1>1, <1>3 DEF ReadText, ServerTyped, server
<1> QED
  BY <1>7, <1>8, TypePartsNext

LEMMA ReadRecordsTyped ==
    ASSUME TypeOK, Reading, NEW c \in Calls, NEW n \in Nat, ReadRecords(c, n)
    PROVE  TypeOK'
<1> DEFINE units == SubSeq(outbox[mine[c]], 1, n)
<1>1. ClientTyped /\ ServerTyped
  BY TypeParts
<1>2. Arrives(c, n) /\ mine[c] \in Sockets
  BY ReadingSocket DEF ReadRecords, Arrives
<1>3. units \in Seq(Unit) /\ Len(units) = n /\ outbox' \in [Sockets -> Seq(Unit)]
  BY <1>2, ArrivesTyped
<1>4. parse[c] \in Parse /\ parse[c] # NoParse /\ parse \in [Calls -> Parse]
  BY <1>1, <1>2 DEF ClientTyped, Reading, ReadRecords, Arrives
<1>5. opened' = opened /\ opened \in Nat /\ link \in [Sockets -> Links] /\ connected \in BOOLEAN
  BY <1>1, Bounds DEF ReadRecords, ClientTyped
<1>6. n <= Asked(parse[c])
  BY DEF ReadRecords
<1>7. got' = [got EXCEPT ![c] = got[c] \o units]
  BY DEF ReadRecords
<1>8. got' \in [Calls -> Seq(Unit)]
  <2>1. got[c] \o units \in Seq(Unit)
    BY <1>1, <1>3, ConcatProperties DEF ClientTyped
  <2> QED
    BY <1>1, <1>7, <2>1 DEF ClientTyped
<1>9. \/ \E r \in {"struct.error", "RuntimeError", "UnicodeDecodeError"} :
            Return(c, r) /\ UNCHANGED <<parse, connected, link>>
      \/ /\ n > 0 /\ (parse[c].need > 0 \/ n = Asked(parse[c]))
         /\ \E q \in Parsed(parse[c], units) :
              /\ parse' = [parse EXCEPT ![c] = q]
              /\ \/ close(c, units)
                 \/ receive(c) /\ UNCHANGED <<connected, link>>
  BY DEF ReadRecords
<1> HIDE DEF units
<1>10. CallTyped' /\ link' \in [Sockets -> Links] /\ connected' \in BOOLEAN
  <2>1. ASSUME NEW r \in {"struct.error", "RuntimeError", "UnicodeDecodeError"}, Return(c, r),
               UNCHANGED <<connected, link>>
        PROVE  CallTyped' /\ link' \in [Sockets -> Links] /\ connected' \in BOOLEAN
    <3>1. r \in Outcomes
      BY DEF Outcomes
    <3>2. CallTyped'
      BY <1>5, <2>1, <3>1, ReturnTyped
    <3> QED
      BY <1>5, <2>1, <3>2
  <2>2. CASE close(c, units)
    BY <1>5, <2>2, closeTyped
  <2>3. CASE receive(c) /\ UNCHANGED <<connected, link>>
    <3>1. CallTyped'
      BY <1>5, <2>3, receiveTyped
    <3> QED
      BY <1>5, <2>3, <3>1
  <2> QED
    BY <1>9, <2>1, <2>2, <2>3
<1>11. parse' \in [Calls -> Parse]
  <2>1. CASE UNCHANGED parse
    BY <1>4, <2>1
  <2>2. CASE n > 0 /\ (parse[c].need > 0 \/ n = Asked(parse[c]))
    <3>1. Parsed(parse[c], units) \subseteq Parse
      BY <1>3, <1>4, <1>6, <2>2, ParsedTyped
    <3> QED
      BY <1>4, <1>9, <3>1
  <2> QED
    BY <1>9, <2>1, <2>2
<1>12. ClientTyped'
  BY <1>1, <1>8, <1>10, <1>11 DEF ReadRecords, ClientTyped
<1>13. ServerTyped'
  BY <1>1, <1>3 DEF ReadRecords, ServerTyped, server
<1> QED
  BY <1>12, <1>13, TypePartsNext

-----------------------------------------------------------------------------
(* The server and the network write what ClientTyped leaves alone, but for  *)
(* the links.                                                               *)
LEMMA OutsideTyped ==
    ASSUME TypeOK, UNCHANGED conn, UNCHANGED call, link' \in [Sockets -> Links], ServerTyped'
    PROVE  TypeOK'
<1>1. ClientTyped
  BY TypeParts
<1>2. ClientTyped'
  BY <1>1 DEF ClientTyped, CallTyped, conn, call
<1> QED
  BY <1>2, TypePartsNext

LEMMA EndTyped ==
    ASSUME TypeOK, End
    PROVE  /\ status' \in DOMAIN Allowed
           /\ link' \in [Sockets -> Links]
           /\ inbox' \in [Sockets -> Seq(Fragment)]
           /\ owed' \in [Sockets -> Seq(Calls)]
<1>1. link \in [Sockets -> Links]
  BY TypeParts DEF ClientTyped
<1>2. status' \in DOMAIN Allowed
  BY DEF End, Allowed
<1>3. PICK l \in {"fin", "reset"} :
        link' = [s \in Sockets |-> IF link[s] = "up" THEN l
                                   ELSE IF link[s] = "closed" THEN "dead" ELSE link[s]]
  BY DEF End
<1>4. link' \in [Sockets -> Links]
  BY <1>1, <1>3 DEF Links
<1>5. \A T : << >> \in Seq(T)
  OBVIOUS
<1>6. inbox' \in [Sockets -> Seq(Fragment)] /\ owed' \in [Sockets -> Seq(Calls)]
  BY <1>5 DEF End
<1> QED
  BY <1>2, <1>4, <1>6

(* A command's bytes leave the connection, its status and answer follow.    *)
LEMMA ExecuteTyped ==
    ASSUME TypeOK, NEW s \in Sockets, NEW c \in Calls, NEW n \in 0 .. Len(inbox[s]), Execute(s, c, n)
    PROVE  /\ status' \in DOMAIN Allowed
           /\ inbox' \in [Sockets -> Seq(Fragment)]
           /\ owed' \in [Sockets -> Seq(Calls)]
           /\ outbox' \in [Sockets -> Seq(Unit)]
           /\ answered' \in [Calls -> Nat]
<1>1. ServerTyped
  BY TypeParts
<1>2. status' \in DOMAIN Allowed
  BY DEF Execute, Allowed
<1>3. inbox' \in [Sockets -> Seq(Fragment)]
  <2>1. inbox[s] \in Seq(Fragment)
    BY <1>1 DEF ServerTyped
  <2>2. SubSeq(inbox[s], n + 1, Len(inbox[s])) \in Seq(Fragment)
    BY <2>1, DropTyped
  <2> QED
    BY <1>1, <2>2 DEF Execute, ServerTyped
<1>4. CASE Op[c] = "SEARCH"
  <2>1. Queries[c] \in Nat
    BY CallsAssumption DEF CallsAssumption
  <2>2. [i \in 1 .. Queries[c] |-> c] \in Seq(Calls)
    BY <2>1, SeqDef
  <2> QED
    BY <1>1, <1>2, <1>3, <1>4, <2>2 DEF Execute, ServerTyped
<1>5. CASE Op[c] # "SEARCH"
  <2>1. PICK n2 \in {0, 1} : Answer(s, c, <<TextUnit(c, n2)>>)
    BY <1>5 DEF Execute
  <2>2. <<TextUnit(c, n2)>> \in Seq(Unit)
    BY <2>1, TextUnitTyped
  <2>3. outbox' \in [Sockets -> Seq(Unit)] /\ answered' \in [Calls -> Nat]
    BY <2>1, <2>2, AnswerTyped
  <2> QED
    BY <1>1, <1>2, <1>3, <1>5, <2>3 DEF Execute, ServerTyped
<1> QED
  BY <1>4, <1>5

LEMMA HeadTyped ==
    ASSUME NEW T, NEW q \in Seq(T), q # << >>
    PROVE  Head(q) \in T /\ Head(q) = q[1] /\ Tail(q) \in Seq(T) /\ Len(q) \in Nat \ {0}
  BY HeadTailProperties, LenProperties, EmptySeq

LEMMA RunCommandTyped ==
    ASSUME TypeOK, NEW s \in Sockets, RunCommand(s)
    PROVE  /\ TypeOK'
           /\ UNCHANGED call
           /\ \E c \in Calls : /\ Whole(s, c)
                               /\ inbox' = [inbox EXCEPT ![s] =
                                      SubSeq(inbox[s], Fragments(c) + 1, Len(inbox[s]))]
                               /\ ran' = [ran EXCEPT ![c] = ran[c] + 1]
<1>1. ServerTyped /\ ClientTyped
  BY TypeParts
<1> DEFINE c == Head(inbox[s]).call
<1>2. inbox[s] \in Seq(Fragment) /\ inbox[s] # << >>
  BY <1>1 DEF ServerTyped, RunCommand
<1>3. c \in Calls
  <2>1. Head(inbox[s]) \in Fragment
    BY <1>2, HeadTyped
  <2> QED
    BY <2>1 DEF Fragment
<1>4. Whole(s, c) /\ Execute(s, c, Fragments(c)) /\ ran' = [ran EXCEPT ![c] = ran[c] + 1]
  BY DEF RunCommand
<1> HIDE DEF c
<1>5. Fragments(c) \in 0 .. Len(inbox[s])
  BY <1>2, <1>3, <1>4, FragmentsNat, HeadTyped DEF Whole
<1>6. /\ status' \in DOMAIN Allowed
      /\ inbox' \in [Sockets -> Seq(Fragment)]
      /\ owed' \in [Sockets -> Seq(Calls)]
      /\ outbox' \in [Sockets -> Seq(Unit)]
      /\ answered' \in [Calls -> Nat]
  BY <1>3, <1>4, <1>5, ExecuteTyped
<1>7. ran' \in [Calls -> Nat]
  BY <1>1, <1>3, <1>4 DEF ServerTyped
<1>8. UNCHANGED <<conn, link, call, clean, faults>>
  BY DEF RunCommand
<1>9. ServerTyped'
  BY <1>1, <1>6, <1>7, <1>8 DEF ServerTyped
<1>10. TypeOK'
  BY <1>1, <1>8, <1>9, OutsideTyped DEF ClientTyped
<1> QED
  BY <1>3, <1>4, <1>8, <1>10 DEF Execute

(* What the server reads as garbage it drops, or it ends. *)
Dropped(s) ==
    \/ inbox' = [t \in Sockets |-> << >>]
    \/ \E n \in 0 .. Len(inbox[s]) : inbox' = [inbox EXCEPT ![s] = SubSeq(inbox[s], n + 1, Len(inbox[s]))]

LEMMA RunGarbledTyped ==
    ASSUME TypeOK, NEW s \in Sockets, RunGarbled(s)
    PROVE  TypeOK' /\ UNCHANGED <<call, ran>> /\ Dropped(s)
<1>1. ServerTyped /\ ClientTyped
  BY TypeParts
<1> DEFINE c == Head(inbox[s]).call
<1>2. inbox[s] \in Seq(Fragment) /\ inbox[s] # << >>
  BY <1>1 DEF ServerTyped, RunGarbled
<1>3. Head(inbox[s]) \in Fragment /\ Len(inbox[s]) \in Nat
  BY <1>2, HeadTyped
<1>4. c \in Calls
  BY <1>3 DEF Fragment
<1>5. \/ End /\ UNCHANGED <<outbox, answered>>
      \/ \E i \in 2 .. Len(inbox[s]), n \in Int :
            n \in i .. Len(inbox[s]) /\ Execute(s, c, n) /\ UNCHANGED link
  BY DEF RunGarbled
<1> HIDE DEF c
<1>6. UNCHANGED <<conn, call, ran, clean, faults>>
  BY DEF RunGarbled
<1>7. CASE End /\ UNCHANGED <<outbox, answered>>
  <2>1. ServerTyped' /\ link' \in [Sockets -> Links]
    BY <1>1, <1>6, <1>7, EndTyped DEF ServerTyped
  <2>2. TypeOK'
    BY <1>6, <2>1, OutsideTyped
  <2> QED
    BY <1>6, <1>7, <2>2 DEF End, Dropped
<1>8. ASSUME NEW i \in 2 .. Len(inbox[s]), NEW n \in i .. Len(inbox[s]), Execute(s, c, n), UNCHANGED link
      PROVE  TypeOK' /\ UNCHANGED <<call, ran>> /\ Dropped(s)
  <2>1. n \in 0 .. Len(inbox[s])
    BY <1>3
  <2>2. /\ status' \in DOMAIN Allowed
        /\ inbox' \in [Sockets -> Seq(Fragment)]
        /\ owed' \in [Sockets -> Seq(Calls)]
        /\ outbox' \in [Sockets -> Seq(Unit)]
        /\ answered' \in [Calls -> Nat]
    BY <1>4, <1>8, <2>1, ExecuteTyped
  <2>3. ServerTyped'
    BY <1>1, <1>6, <2>2 DEF ServerTyped
  <2>4. TypeOK'
    BY <1>1, <1>6, <1>8, <2>3, OutsideTyped DEF ClientTyped
  <2>5. Dropped(s)
    BY <1>8, <2>1 DEF Execute, Dropped
  <2> QED
    BY <1>6, <2>4, <2>5
<1> QED
  BY <1>5, <1>7, <1>8

LEMMA RejectTyped ==
    ASSUME TypeOK, NEW s, Reject(s)
    PROVE  TypeOK' /\ UNCHANGED <<call, ran>> /\ Dropped(s)
<1>1. ServerTyped
  BY TypeParts
<1>2. End /\ UNCHANGED <<conn, outbox, call, ran, answered, clean, faults>>
  BY DEF Reject
<1>3. ServerTyped' /\ link' \in [Sockets -> Links]
  BY <1>1, <1>2, EndTyped DEF ServerTyped
<1>4. TypeOK'
  BY <1>2, <1>3, OutsideTyped
<1> QED
  BY <1>2, <1>4 DEF End, Dropped

LEMMA AnswerQueryTyped ==
    ASSUME TypeOK, NEW s \in Sockets, NEW n \in Int, AnswerQuery(s, n)
    PROVE  TypeOK' /\ UNCHANGED <<call, ran, inbox>>
<1>1. ServerTyped /\ ClientTyped
  BY TypeParts
<1>2. owed[s] \in Seq(Calls) /\ owed[s] # << >>
  BY <1>1 DEF ServerTyped, AnswerQuery
<1>3. Head(owed[s]) \in Calls /\ Tail(owed[s]) \in Seq(Calls)
  BY <1>2, HeadTyped
<1>4. QueryUnits(Head(owed[s]), n) \in Seq(Unit)
  BY <1>3, QueryUnitsTyped
<1>5. outbox' \in [Sockets -> Seq(Unit)] /\ answered' \in [Calls -> Nat]
  BY <1>3, <1>4, AnswerTyped DEF AnswerQuery
<1>6. owed' \in [Sockets -> Seq(Calls)]
  BY <1>1, <1>3 DEF AnswerQuery, ServerTyped
<1>7. UNCHANGED <<conn, link, inbox, call, status, ran, clean, faults>>
  BY DEF AnswerQuery
<1>8. ServerTyped'
  BY <1>1, <1>5, <1>6, <1>7 DEF ServerTyped
<1>9. TypeOK'
  BY <1>1, <1>7, <1>8, OutsideTyped DEF ClientTyped
<1> QED
  BY <1>7, <1>9

LEMMA FaultTyped == ASSUME TypeOK, Fault PROVE faults' \in 0 .. MaxFaults /\ clean' \subseteq Calls
<1>1. faults \in 0 .. MaxFaults /\ MaxFaults \in Nat
  BY Bounds DEF TypeOK
<1> QED
  BY <1>1 DEF Fault

LEMMA CutTyped ==
    ASSUME TypeOK, NEW s \in Sockets, Cut(s)
    PROVE  TypeOK' /\ UNCHANGED <<call, ran>> /\ (UNCHANGED inbox \/ inbox' = [inbox EXCEPT ![s] = << >>])
<1>1. ServerTyped /\ ClientTyped
  BY TypeParts
<1>2. UNCHANGED inbox \/ inbox' = [inbox EXCEPT ![s] = << >>]
  BY DEF Cut
<1>3. << >> \in Seq(Fragment)
  OBVIOUS
<1>4. inbox' \in [Sockets -> Seq(Fragment)]
  BY <1>1, <1>2, <1>3 DEF ServerTyped
<1>5. link' \in [Sockets -> Links]
  BY <1>1 DEF Cut, ClientTyped, Links
<1>6. UNCHANGED <<conn, outbox, call, server>> /\ Fault
  BY DEF Cut
<1>7. ServerTyped'
  BY <1>1, <1>4, <1>6, FaultTyped DEF ServerTyped, server
<1>8. TypeOK'
  BY <1>5, <1>6, <1>7, OutsideTyped
<1> QED
  BY <1>2, <1>6, <1>8 DEF server

LEMMA CrashTyped ==
    ASSUME TypeOK, Crash
    PROVE  TypeOK' /\ UNCHANGED <<call, ran>> /\ inbox' = [t \in Sockets |-> << >>]
<1>1. ServerTyped
  BY TypeParts
<1>2. End /\ Fault /\ UNCHANGED <<conn, call, ran, answered>>
  BY DEF Crash
<1>3. PICK n \in 0 .. 2 :
        outbox' = [s \in Sockets |-> IF link[s] = "up" /\ n < Len(outbox[s])
                                     THEN SubSeq(outbox[s], 1, n) ELSE outbox[s]]
  BY DEF Crash
<1>4. ASSUME NEW s \in Sockets, n < Len(outbox[s])
      PROVE  SubSeq(outbox[s], 1, n) \in Seq(Unit)
  <2>1. outbox[s] \in Seq(Unit) /\ n \in 0 .. Len(outbox[s])
    BY <1>1, <1>3, <1>4, LenProperties DEF ServerTyped
  <2> QED
    BY <2>1, TakeTyped
<1>5. outbox' \in [Sockets -> Seq(Unit)]
  BY <1>1, <1>3, <1>4 DEF ServerTyped
<1>6. ServerTyped' /\ link' \in [Sockets -> Links]
  BY <1>1, <1>2, <1>5, EndTyped, FaultTyped DEF ServerTyped
<1>7. TypeOK'
  BY <1>2, <1>6, OutsideTyped
<1> QED
  BY <1>2, <1>7 DEF End

LEMMA RestartTyped == ASSUME TypeOK, Restart PROVE TypeOK' /\ UNCHANGED <<call, ran, inbox>>
<1>1. ServerTyped /\ ClientTyped
  BY TypeParts
<1>2. UNCHANGED <<conn, net, call, owed, ran, answered, clean, faults>> /\ status' \in DOMAIN Allowed
  BY DEF Restart, Allowed
<1>3. ServerTyped'
  BY <1>1, <1>2 DEF ServerTyped, net
<1>4. TypeOK'
  BY <1>1, <1>2, <1>3, OutsideTyped DEF ClientTyped, net
<1> QED
  BY <1>2, <1>4 DEF net

LEMMA CollectTyped ==
    ASSUME TypeOK, NEW s, Collect(s)
    PROVE  TypeOK' /\ UNCHANGED <<call, ran, inbox>>
<1>1. ServerTyped /\ ClientTyped
  BY TypeParts
<1>2. UNCHANGED <<conn, inbox, outbox, call, server, clean, faults>>
  BY DEF Collect
<1>3. ServerTyped'
  BY <1>1, <1>2 DEF ServerTyped, server
<1>4. link' \in [Sockets -> Links]
  BY <1>1, ShutTyped DEF Collect, ClientTyped
<1>5. TypeOK'
  BY <1>2, <1>3, <1>4, OutsideTyped
<1> QED
  BY <1>2, <1>5 DEF server

-----------------------------------------------------------------------------
(* Outside of the client, bytes only leave an inbox at its front. *)
Shrinks ==
    \A s \in Sockets : \E n \in 0 .. Len(inbox[s]) :
        /\ Len(inbox'[s]) = Len(inbox[s]) - n
        /\ \A i \in 1 .. Len(inbox[s]) - n : inbox'[s][i] = inbox[s][i + n]

(* A command that has arrived whole leaves it, and has run. *)
Runs(s, c) ==
    /\ Whole(s, c)
    /\ inbox' = [inbox EXCEPT ![s] = SubSeq(inbox[s], Fragments(c) + 1, Len(inbox[s]))]
    /\ ran' = [ran EXCEPT ![c] = ran[c] + 1]

LEMMA InboxTyped == ASSUME TypeOK, NEW s \in Sockets PROVE inbox[s] \in Seq(Fragment) /\ Len(inbox[s]) \in Nat
  BY LenProperties DEF TypeOK

LEMMA SameShrinks == ASSUME TypeOK, UNCHANGED inbox PROVE Shrinks
<1> SUFFICES ASSUME NEW s \in Sockets
             PROVE  \E n \in 0 .. Len(inbox[s]) :
                        /\ Len(inbox'[s]) = Len(inbox[s]) - n
                        /\ \A i \in 1 .. Len(inbox[s]) - n : inbox'[s][i] = inbox[s][i + n]
  BY DEF Shrinks
<1> WITNESS 0 \in 0 .. Len(inbox[s])
<1> QED
  BY InboxTyped

LEMMA EmptyShrinks ==
    ASSUME TypeOK, NEW S \in SUBSET Sockets,
           inbox' = [t \in Sockets |-> IF t \in S THEN << >> ELSE inbox[t]]
    PROVE  Shrinks
<1> SUFFICES ASSUME NEW s \in Sockets
             PROVE  \E n \in 0 .. Len(inbox[s]) :
                        /\ Len(inbox'[s]) = Len(inbox[s]) - n
                        /\ \A i \in 1 .. Len(inbox[s]) - n : inbox'[s][i] = inbox[s][i + n]
  BY DEF Shrinks
<1>1. Len(inbox[s]) \in Nat
  BY InboxTyped
<1>2. CASE s \in S
  <2> WITNESS Len(inbox[s]) \in 0 .. Len(inbox[s])
  <2> QED
    BY <1>1, <1>2
<1>3. CASE s \notin S
  <2> WITNESS 0 \in 0 .. Len(inbox[s])
  <2> QED
    BY <1>1, <1>3
<1> QED
  BY <1>2, <1>3

LEMMA SuffixShrinks ==
    ASSUME TypeOK, NEW s \in Sockets, NEW n \in 0 .. Len(inbox[s]),
           inbox' = [inbox EXCEPT ![s] = SubSeq(inbox[s], n + 1, Len(inbox[s]))]
    PROVE  /\ Shrinks
           /\ Len(inbox'[s]) = Len(inbox[s]) - n
           /\ \A i \in 1 .. Len(inbox[s]) - n : inbox'[s][i] = inbox[s][i + n]
<1>1. inbox \in [Sockets -> Seq(Fragment)]
  BY DEF TypeOK
<1>2. /\ Len(inbox'[s]) = Len(inbox[s]) - n
      /\ \A i \in 1 .. Len(inbox[s]) - n : inbox'[s][i] = inbox[s][i + n]
  BY <1>1, DropTyped
<1>3. ASSUME NEW t \in Sockets
      PROVE  \E k \in 0 .. Len(inbox[t]) :
                /\ Len(inbox'[t]) = Len(inbox[t]) - k
                /\ \A i \in 1 .. Len(inbox[t]) - k : inbox'[t][i] = inbox[t][i + k]
  <2>1. Len(inbox[t]) \in Nat
    BY InboxTyped
  <2>2. CASE t = s
    BY <1>2, <2>2
  <2>3. CASE t # s
    <3> WITNESS 0 \in 0 .. Len(inbox[t])
    <3> QED
      BY <1>1, <2>1, <2>3
  <2> QED
    BY <2>2, <2>3
<1> QED
  BY <1>2, <1>3 DEF Shrinks

LEMMA DroppedShrinks == ASSUME TypeOK, NEW s \in Sockets, Dropped(s) PROVE Shrinks
<1>1. CASE inbox' = [t \in Sockets |-> << >>]
  <2>1. inbox' = [t \in Sockets |-> IF t \in Sockets THEN << >> ELSE inbox[t]]
    BY <1>1
  <2> QED
    BY <2>1, EmptyShrinks
<1>2. ASSUME NEW n \in 0 .. Len(inbox[s]),
             inbox' = [inbox EXCEPT ![s] = SubSeq(inbox[s], n + 1, Len(inbox[s]))]
      PROVE  Shrinks
  BY <1>2, SuffixShrinks
<1> QED
  BY <1>1, <1>2 DEF Dropped

(* Every step of the server, the network and the collector. *)
LEMMA WorldSteps ==
    ASSUME TypeOK, World
    PROVE  /\ TypeOK'
           /\ UNCHANGED call
           /\ \/ UNCHANGED ran /\ Shrinks
              \/ \E s \in Sockets, c \in Calls : Runs(s, c)
<1>1. ASSUME NEW s \in Sockets, RunCommand(s)
      PROVE  TypeOK' /\ UNCHANGED call /\ \E c \in Calls : Runs(s, c)
  BY <1>1, RunCommandTyped DEF Runs
<1>2. ASSUME NEW s \in Sockets, RunGarbled(s)
      PROVE  TypeOK' /\ UNCHANGED <<call, ran>> /\ Shrinks
  BY <1>2, RunGarbledTyped, DroppedShrinks
<1>3. ASSUME NEW s \in Sockets, Reject(s)
      PROVE  TypeOK' /\ UNCHANGED <<call, ran>> /\ Shrinks
  BY <1>3, RejectTyped, DroppedShrinks
<1>4. ASSUME NEW s \in Sockets, NEW n \in Int, AnswerQuery(s, n)
      PROVE  TypeOK' /\ UNCHANGED <<call, ran>> /\ Shrinks
  BY <1>4, AnswerQueryTyped, SameShrinks
<1>5. ASSUME NEW s \in Sockets, Cut(s)
      PROVE  TypeOK' /\ UNCHANGED <<call, ran>> /\ Shrinks
  <2>1. TypeOK' /\ UNCHANGED <<call, ran>>
    BY <1>5, CutTyped
  <2>2. CASE inbox' = [inbox EXCEPT ![s] = << >>]
    <3>1. inbox' = [t \in Sockets |-> IF t \in {s} THEN << >> ELSE inbox[t]]
      BY <2>2 DEF TypeOK
    <3> QED
      BY <2>1, <3>1, EmptyShrinks
  <2>3. CASE UNCHANGED inbox
    BY <2>1, <2>3, SameShrinks
  <2> QED
    BY <1>5, <2>2, <2>3, CutTyped
<1>6. ASSUME NEW s \in Sockets, Collect(s)
      PROVE  TypeOK' /\ UNCHANGED <<call, ran>> /\ Shrinks
  BY <1>6, CollectTyped, SameShrinks
<1>7. ASSUME Crash
      PROVE  TypeOK' /\ UNCHANGED <<call, ran>> /\ Shrinks
  <2>1. TypeOK' /\ UNCHANGED <<call, ran>> /\ inbox' = [t \in Sockets |-> << >>]
    BY <1>7, CrashTyped
  <2>2. inbox' = [t \in Sockets |-> IF t \in Sockets THEN << >> ELSE inbox[t]]
    BY <2>1
  <2> QED
    BY <2>1, <2>2, EmptyShrinks
<1>8. ASSUME Restart
      PROVE  TypeOK' /\ UNCHANGED <<call, ran>> /\ Shrinks
  BY <1>8, RestartTyped, SameShrinks
<1>9. \A n \in -1 .. MaxHits : n \in Int
  BY Bounds
<1> QED
  BY <1>1, <1>2, <1>3, <1>4, <1>5, <1>6, <1>7, <1>8, <1>9 DEF World, ServerStep

-----------------------------------------------------------------------------
(* Every step of a call keeps the types, and what is known of readers. *)
LEMMA CallSteps ==
    ASSUME TypeOK, Reading, NEW c \in Calls,
           Start(c) \/ Continue(c) \/ \E n \in 0 .. Buffered(c) : ReadRecords(c, n)
    PROVE  TypeOK' /\ Reading'
<1>1. CASE Start(c)
  <2>1. Moves(c, {"connecting"} \cup Sending) /\ "reading" \notin {"connecting"} \cup Sending
    BY <1>1, StartMoves DEF Sending
  <2>2. PICK p : parse' = [parse EXCEPT ![c] = p]
    BY <1>1 DEF Start
  <2>3. Reading'
    BY <2>1, <2>2, ReadingKept
  <2> QED
    BY <1>1, <2>3, StartTyped
<1>2. CASE Opened(c)
  <2>1. Moves(c, {"redraining"} \cup Sending) /\ "reading" \notin {"redraining"} \cup Sending
    BY <1>2, OpenedMoves DEF Sending
  <2>2. Reading'
    BY <1>2, <2>1, ReadingSame DEF Opened
  <2> QED
    BY <1>2, <2>2, OpenedTyped
<1>3. CASE Refused(c)
  <2>1. Reading'
    BY <1>3, RefusedMoves, ReadingSame
  <2> QED
    BY <1>3, <2>1, RefusedTyped
<1>4. CASE Drained(c)
  <2>1. CASE Moves(c, Sending)
    BY <1>4, <2>1, DrainedMoves, ReadingSame, DrainedTyped DEF Sending
  <2>2. CASE Moves(c, {"done", "closing"})
    BY <1>4, <2>2, DrainedMoves, ReadingSame, DrainedTyped
  <2>3. CASE Moves(c, {"done", "reading"}) /\ (Op[c] = "SEARCH" => parse[c] # NoParse)
    BY <1>4, <2>3, DrainedMoves, ReadingSame, DrainedTyped
  <2> QED
    BY <1>4, <2>1, <2>2, <2>3, DrainedMoves
<1>5. CASE Reclose(c)
  <2>1. Reading'
    BY <1>5, RecloseMoves, ReadingSame
  <2> QED
    BY <1>5, <2>1, RecloseTyped
<1>6. CASE RedrainFails(c) \/ ReadFails(c)
  <2>1. Reading'
    BY <1>6, FailsMoves, ReadingSame
  <2> QED
    BY <1>6, <2>1, FailsTyped
<1>7. CASE WaitClosed(c)
  <2>1. Moves(c, {"done"}) \/ Moves(c, {"done", "reopening"})
    BY <1>7, WaitClosedMoves
  <2>2. Reading'
    BY <1>7, <2>1, WaitClosedMoves, ReadingSame
  <2> QED
    BY <1>7, <2>2, WaitClosedTyped
<1>8. ASSUME NEW n \in 0 .. Buffered(c), ReadText(c, n)
      PROVE  TypeOK' /\ Reading'
  <2>1. pc[c] = "reading"
    BY <1>8, ReadTextMoves
  <2>2. n \in Nat
    BY <2>1, BufferedNat
  <2>3. Reading'
    BY <1>8, ReadTextMoves, ReadingSame
  <2> QED
    BY <1>8, <2>2, <2>3, ReadTextTyped
<1>9. ASSUME NEW n \in 0 .. Buffered(c), ReadRecords(c, n)
      PROVE  TypeOK' /\ Reading'
  <2>1. pc[c] = "reading"
    BY <1>9, ReadRecordsMoves
  <2>2. n \in Nat
    BY <2>1, BufferedNat
  <2>3. TypeOK'
    BY <1>9, <2>2, ReadRecordsTyped
  <2>4. CASE Moves(c, {"done"}) /\ UNCHANGED parse
    BY <2>3, <2>4, ReadingSame
  <2>5. ASSUME NEW q, parse' = [parse EXCEPT ![c] = q], q = NoParse, Moves(c, {"done", "closing"})
        PROVE  Reading'
    <3>1. "reading" \notin {"done", "closing"}
      OBVIOUS
    <3> QED
      BY <2>5, <3>1, ReadingKept
  <2>6. ASSUME NEW q, parse' = [parse EXCEPT ![c] = q], q # NoParse, Moves(c, {"done", "reading"})
        PROVE  Reading'
    BY <2>6, ReadingKept
  <2> QED
    BY <1>9, <2>3, <2>4, <2>5, <2>6, ReadRecordsMoves
<1> QED
  BY <1>1, <1>2, <1>3, <1>4, <1>5, <1>6, <1>7, <1>8, <1>9 DEF Continue

(* Members, locals, streams and the server keep their types: what a search  *)
(* parses never goes below zero, whatever the server has sent it.           *)
THEOREM ClientTypeCorrect == Spec => []TypeOK
<1>1. Init => TypeOK /\ Reading
  <2> SUFFICES ASSUME Init PROVE TypeOK /\ Reading
    OBVIOUS
  <2>1. \A c \in Calls : pc[c] = "idle"
    BY DEF Init
  <2> QED
    BY <2>1, InitTyped DEF Reading
<1>2. TypeOK /\ Reading /\ [Next]_vars => TypeOK' /\ Reading'
  <2> SUFFICES ASSUME TypeOK, Reading, [Next]_vars PROVE TypeOK' /\ Reading'
    OBVIOUS
  <2>1. CASE World
    BY <2>1, WorldSteps DEF Reading, call
  <2>2. ASSUME NEW c \in Calls,
               Start(c) \/ Continue(c) \/ \E n \in 0 .. Buffered(c) : ReadRecords(c, n)
        PROVE  TypeOK' /\ Reading'
    BY <2>2, CallSteps
  <2>3. CASE UNCHANGED vars
    BY <2>3 DEF TypeOK, Reading, vars, conn, net, call, server
  <2> QED
    BY <2>1, <2>2, <2>3 DEF Next
<1> QED
  BY <1>1, <1>2, PTL DEF Spec

-----------------------------------------------------------------------------
(* A command runs at most once.  It runs when its last fragment leaves the  *)
(* inbox behind all the others, and send() hands that fragment over once:   *)
(* from then on the call only reads, closes, or is over.                    *)
Last(c) == [call |-> c, n |-> Fragments(c)]

Once ==
    /\ \A s \in Sockets, c \in Calls : \A i \in 1 .. Len(inbox[s]) :
          inbox[s][i] = Last(c) => pc[c] \in After /\ ran[c] = 0
    /\ \A s, t \in Sockets, c \in Calls : \A i \in 1 .. Len(inbox[s]), j \in 1 .. Len(inbox[t]) :
          inbox[s][i] = Last(c) /\ inbox[t][j] = Last(c) => s = t /\ i = j
    /\ \A c \in Calls : ran[c] \in {0, 1} /\ (ran[c] = 1 => pc[c] \in After)

LEMMA InitOnce == Init => Once
<1> SUFFICES ASSUME Init PROVE Once
  OBVIOUS
<1>1. \A s \in Sockets : Len(inbox[s]) = 0
  BY DEF Init
<1>2. \A c \in Calls : ran[c] = 0
  BY DEF Init
<1> QED
  BY <1>1, <1>2 DEF Once

(* What was in one place stays in one place. *)
LEMMA ShrinksUnique ==
    ASSUME TypeOK, Once, Shrinks, NEW s \in Sockets, NEW t \in Sockets, NEW c \in Calls,
           NEW i \in 1 .. Len(inbox'[s]), NEW j \in 1 .. Len(inbox'[t]),
           inbox'[s][i] = Last(c), inbox'[t][j] = Last(c)
    PROVE  s = t /\ i = j
<1>0. \A u \in Sockets : Len(inbox[u]) \in Nat
  BY InboxTyped
<1>1. PICK n \in 0 .. Len(inbox[s]) :
        /\ Len(inbox'[s]) = Len(inbox[s]) - n
        /\ \A k \in 1 .. Len(inbox[s]) - n : inbox'[s][k] = inbox[s][k + n]
  BY DEF Shrinks
<1>2. PICK m \in 0 .. Len(inbox[t]) :
        /\ Len(inbox'[t]) = Len(inbox[t]) - m
        /\ \A k \in 1 .. Len(inbox[t]) - m : inbox'[t][k] = inbox[t][k + m]
  BY DEF Shrinks
<1>3. i + n \in 1 .. Len(inbox[s]) /\ inbox[s][i + n] = Last(c)
  BY <1>0, <1>1
<1>4. j + m \in 1 .. Len(inbox[t]) /\ inbox[t][j + m] = Last(c)
  BY <1>0, <1>2
<1>5. s = t /\ i + n = j + m
  BY <1>3, <1>4 DEF Once
<1>6. n = m
  BY <1>0, <1>1, <1>2, <1>5
<1> QED
  BY <1>0, <1>1, <1>2, <1>5, <1>6

LEMMA ShrinksOnce ==
    ASSUME TypeOK, Once, Shrinks, UNCHANGED ran,
           \A c \in Calls : pc[c] \in After => pc'[c] \in After
    PROVE  Once'
<1>1. \A s \in Sockets : Len(inbox[s]) \in Nat
  BY InboxTyped
<1>2. ASSUME NEW s \in Sockets, NEW c \in Calls, NEW i \in 1 .. Len(inbox'[s]),
             inbox'[s][i] = Last(c)
      PROVE  pc'[c] \in After /\ ran'[c] = 0
  <2>1. PICK n \in 0 .. Len(inbox[s]) :
          /\ Len(inbox'[s]) = Len(inbox[s]) - n
          /\ \A k \in 1 .. Len(inbox[s]) - n : inbox'[s][k] = inbox[s][k + n]
    BY DEF Shrinks
  <2>2. i + n \in 1 .. Len(inbox[s]) /\ inbox[s][i + n] = Last(c)
    BY <1>1, <1>2, <2>1
  <2> QED
    BY <2>2 DEF Once
<1>3. \A c \in Calls : ran'[c] \in {0, 1} /\ (ran'[c] = 1 => pc'[c] \in After)
  BY DEF Once
<1> QED
  BY <1>2, <1>3, ShrinksUnique DEF Once, Last, Fragments

LEMMA RunsOnce ==
    ASSUME TypeOK, Once, NEW s \in Sockets, NEW c \in Calls, Runs(s, c), UNCHANGED pc
    PROVE  Once'
<1>1. /\ \A t \in Sockets : Len(inbox[t]) \in Nat
      /\ Fragments(c) \in Nat \ {0}
      /\ inbox \in [Sockets -> Seq(Fragment)]
      /\ ran \in [Calls -> Nat]
  BY InboxTyped, FragmentsNat DEF TypeOK
<1>2. Fragments(c) \in 1 .. Len(inbox[s]) /\ inbox[s][Fragments(c)] = Last(c)
  BY <1>1 DEF Runs, Whole, Last
<1>3. pc[c] \in After /\ ran[c] = 0
  BY <1>2 DEF Once
<1>4. /\ Len(inbox'[s]) = Len(inbox[s]) - Fragments(c)
      /\ \A k \in 1 .. Len(inbox[s]) - Fragments(c) : inbox'[s][k] = inbox[s][k + Fragments(c)]
      /\ Shrinks
  <2>1. Fragments(c) \in 0 .. Len(inbox[s])
    BY <1>1, <1>2
  <2> QED
    BY <2>1, SuffixShrinks DEF Runs
<1>5. \A t \in Sockets : t # s => inbox'[t] = inbox[t]
  BY <1>1 DEF Runs
<1>6. ASSUME NEW t \in Sockets, NEW d \in Calls, NEW i \in 1 .. Len(inbox'[t]),
             inbox'[t][i] = Last(d)
      PROVE  d # c /\ pc[d] \in After /\ ran[d] = 0
  <2>1. CASE t = s
    <3>1. i + Fragments(c) \in 1 .. Len(inbox[s]) /\ inbox[s][i + Fragments(c)] = Last(d)
      BY <1>1, <1>4, <1>6, <2>1
    <3>2. i + Fragments(c) # Fragments(c)
      BY <1>1, <1>4, <2>1
    <3> QED
      BY <1>2, <3>1, <3>2 DEF Once
  <2>2. CASE t # s
    <3>1. i \in 1 .. Len(inbox[t]) /\ inbox[t][i] = Last(d)
      BY <1>5, <1>6, <2>2
    <3> QED
      BY <1>2, <2>2, <3>1 DEF Once
  <2> QED
    BY <2>1, <2>2
<1>7. \A d \in Calls : ran'[d] = IF d = c THEN 1 ELSE ran[d]
  BY <1>1, <1>3 DEF Runs
<1>8. \A t \in Sockets, d \in Calls : \A i \in 1 .. Len(inbox'[t]) :
        inbox'[t][i] = Last(d) => pc'[d] \in After /\ ran'[d] = 0
  BY <1>6, <1>7
<1>9. \A d \in Calls : ran'[d] \in {0, 1} /\ (ran'[d] = 1 => pc'[d] \in After)
  BY <1>3, <1>7 DEF Once, Runs
<1> QED
  BY <1>4, <1>8, <1>9, ShrinksUnique DEF Once, Last, Fragments

LEMMA MovesKeep ==
    ASSUME TypeOK, NEW c \in Calls, NEW places, Moves(c, places),
           pc[c] \in After => places \subseteq After
    PROVE  \A d \in Calls : pc[d] \in After => pc'[d] \in After
  BY DEF Moves, TypeOK

LEMMA KeepsOnce ==
    ASSUME TypeOK, Once, UNCHANGED <<inbox, ran>>,
           \A d \in Calls : pc[d] \in After => pc'[d] \in After
    PROVE  Once'
  BY SameShrinks, ShrinksOnce

(* The one step that hands fragments over. *)
LEMMA DrainedOnce == ASSUME TypeOK, Once, NEW c \in Calls, Drained(c) PROVE Once'
<1> DEFINE f == [call |-> c, n |-> frag[c]]
<1>1. /\ \A s \in Sockets : inbox[s] \in Seq(Fragment) /\ Len(inbox[s]) \in Nat
      /\ inbox \in [Sockets -> Seq(Fragment)]
      /\ frag[c] \in Nat /\ Fragments(c) \in Nat
  BY InboxTyped, FragmentsNat DEF TypeOK
<1>2. UNCHANGED ran /\ pc[c] \notin After /\ ran[c] = 0
  BY DrainedMoves DEF Once
<1>3. \A d \in Calls : pc[d] \in After => pc'[d] \in After
  BY <1>2, DrainedMoves, MovesKeep
<1>4. \A d \in Calls : f = Last(d) => d = c /\ frag[c] = Fragments(c)
  BY DEF Last
<1>5. frag[c] = Fragments(c) => pc'[c] \in After
  <2>1. CASE frag[c] < Fragments(c)
    BY <1>1, <2>1
  <2>2. CASE Moves(c, {"done", "closing"}) \/ Moves(c, {"done", "reading"})
    BY <2>2 DEF Moves, After, TypeOK
  <2> QED
    BY <2>1, <2>2, DrainedMoves
<1>6. UNCHANGED inbox \/ \E s \in Sockets : inbox' = [inbox EXCEPT ![s] = Append(inbox[s], f)]
  BY <1>1 DEF Drained
<1>7. CASE UNCHANGED inbox
  BY <1>2, <1>3, <1>7, KeepsOnce
<1>8. ASSUME NEW s \in Sockets, inbox' = [inbox EXCEPT ![s] = Append(inbox[s], f)]
      PROVE  Once'
  <2>1. f \in Fragment
    BY <1>1 DEF Fragment
  <2> HIDE DEF f
  <2>2. /\ Len(inbox'[s]) = Len(inbox[s]) + 1
        /\ inbox'[s][Len(inbox[s]) + 1] = f
        /\ \A i \in 1 .. Len(inbox[s]) : inbox'[s][i] = inbox[s][i]
    BY <1>1, <1>8, <2>1, AppendProperties
  <2>3. \A t \in Sockets : t # s => inbox'[t] = inbox[t]
    BY <1>1, <1>8
  <2>4. \A t \in Sockets : \A i \in 1 .. Len(inbox'[t]) :
          \/ i \in 1 .. Len(inbox[t]) /\ inbox'[t][i] = inbox[t][i]
          \/ t = s /\ i = Len(inbox[s]) + 1 /\ inbox'[t][i] = f
    BY <1>1, <2>2, <2>3
  <2>5. \A t \in Sockets : \A i \in 1 .. Len(inbox[t]) : inbox[t][i] # Last(c)
    BY <1>2 DEF Once
  <2>6. ASSUME NEW t \in Sockets, NEW d \in Calls, NEW i \in 1 .. Len(inbox'[t]),
               inbox'[t][i] = Last(d)
        PROVE  pc'[d] \in After /\ ran'[d] = 0
    <3>1. CASE i \in 1 .. Len(inbox[t]) /\ inbox'[t][i] = inbox[t][i]
      <4>1. inbox[t][i] = Last(d)
        BY <2>6, <3>1
      <4>2. pc[d] \in After /\ ran[d] = 0
        BY <3>1, <4>1 DEF Once
      <4>3. pc'[d] \in After
        BY <1>3, <4>2
      <4> QED
        BY <1>2, <4>2, <4>3
    <3>2. CASE inbox'[t][i] = f
      BY <1>2, <1>4, <1>5, <2>6, <3>2
    <3> QED
      BY <2>4, <3>1, <3>2
  <2>7. ASSUME NEW t \in Sockets, NEW u \in Sockets, NEW d \in Calls,
               NEW i \in 1 .. Len(inbox'[t]), NEW j \in 1 .. Len(inbox'[u]),
               inbox'[t][i] = Last(d), inbox'[u][j] = Last(d)
        PROVE  t = u /\ i = j
    <3>1. CASE d = c
      BY <2>4, <2>5, <2>7, <3>1
    <3>2. CASE d # c
      <4>1. f # Last(d)
        BY <1>4, <3>2
      <4>2. /\ i \in 1 .. Len(inbox[t]) /\ inbox[t][i] = Last(d)
            /\ j \in 1 .. Len(inbox[u]) /\ inbox[u][j] = Last(d)
        BY <2>4, <2>7, <4>1
      <4> QED
        BY <4>2 DEF Once
    <3> QED
      BY <3>1, <3>2
  <2>8. \A d \in Calls : ran'[d] \in {0, 1} /\ (ran'[d] = 1 => pc'[d] \in After)
    BY <1>2, <1>3 DEF Once
  <2> QED
    BY <2>6, <2>7, <2>8 DEF Once, Last, Fragments
<1> QED
  BY <1>6, <1>7, <1>8

LEMMA CallsOnce ==
    ASSUME TypeOK, Once, NEW c \in Calls,
           Start(c) \/ Continue(c) \/ \E n \in 0 .. Buffered(c) : ReadRecords(c, n)
    PROVE  Once'
<1>1. CASE Start(c)
  BY <1>1, StartMoves, MovesKeep, KeepsOnce
<1>2. CASE Opened(c)
  BY <1>2, OpenedMoves, MovesKeep, KeepsOnce
<1>3. CASE Refused(c)
  BY <1>3, RefusedMoves, MovesKeep, KeepsOnce
<1>4. CASE Drained(c)
  BY <1>4, DrainedOnce
<1>5. CASE Reclose(c)
  BY <1>5, RecloseMoves, MovesKeep, KeepsOnce
<1>6. CASE RedrainFails(c) \/ ReadFails(c)
  <2>1. {"done"} \subseteq After
    BY DEF After
  <2> QED
    BY <1>6, <2>1, FailsMoves, MovesKeep, KeepsOnce
<1>7. CASE WaitClosed(c)
  <2>1. {"done"} \subseteq After /\ "reclosing" \notin After
    BY DEF After
  <2>2. \A d \in Calls : pc[d] \in After => pc'[d] \in After
    BY <1>7, <2>1, WaitClosedMoves, MovesKeep
  <2> QED
    BY <1>7, <2>2, WaitClosedMoves, KeepsOnce
<1>8. ASSUME NEW n, ReadText(c, n) PROVE Once'
  <2>1. {"done", "closing"} \subseteq After
    BY DEF After
  <2> QED
    BY <1>8, <2>1, ReadTextMoves, MovesKeep, KeepsOnce
<1>9. ASSUME NEW n, ReadRecords(c, n) PROVE Once'
  <2>1. {"done"} \subseteq After /\ {"done", "closing"} \subseteq After /\ {"done", "reading"} \subseteq After
    BY DEF After
  <2>2. UNCHANGED <<inbox, ran>>
    BY <1>9, ReadRecordsMoves
  <2>3. Moves(c, {"done"}) \/ Moves(c, {"done", "closing"}) \/ Moves(c, {"done", "reading"})
    BY <1>9, ReadRecordsMoves
  <2>4. \A d \in Calls : pc[d] \in After => pc'[d] \in After
    BY <2>1, <2>3, MovesKeep
  <2> QED
    BY <2>2, <2>4, KeepsOnce
<1> QED
  BY <1>1, <1>2, <1>3, <1>4, <1>5, <1>6, <1>7, <1>8, <1>9 DEF Continue

(* A call's command runs at most once, however calls share the connection   *)
(* and however often send() opens a new one and sends a fragment again.     *)
THEOREM RunsAtMostOnce == Spec => []AtMostOnce
<1>1. Init => Once
  BY InitOnce
<1>2. TypeOK /\ Once /\ [Next]_vars => Once'
  <2> SUFFICES ASSUME TypeOK, Once, [Next]_vars PROVE Once'
    OBVIOUS
  <2>1. CASE World
    <3>1. UNCHANGED pc
      BY <2>1, WorldSteps DEF call
    <3>2. CASE UNCHANGED ran /\ Shrinks
      BY <3>1, <3>2, ShrinksOnce
    <3>3. ASSUME NEW s \in Sockets, NEW c \in Calls, Runs(s, c) PROVE Once'
      BY <3>1, <3>3, RunsOnce
    <3> QED
      BY <2>1, <3>2, <3>3, WorldSteps
  <2>2. ASSUME NEW c \in Calls,
               Start(c) \/ Continue(c) \/ \E n \in 0 .. Buffered(c) : ReadRecords(c, n)
        PROVE  Once'
    BY <2>2, CallsOnce
  <2>3. CASE UNCHANGED vars
    <3>1. UNCHANGED <<inbox, ran, pc>>
      BY <2>3 DEF vars, net, server, call
    <3> QED
      BY <3>1, KeepsOnce
  <2> QED
    BY <2>1, <2>2, <2>3 DEF Next
<1>3. Once => AtMostOnce
  <2>1. \A r \in {0, 1} : r <= 1
    OBVIOUS
  <2>2. Once => \A c \in Calls : ran[c] \in {0, 1}
    BY DEF Once
  <2> QED
    BY <2>1, <2>2 DEF AtMostOnce
<1> QED
  BY <1>1, <1>2, <1>3, ClientTypeCorrect, PTL DEF Spec

-----------------------------------------------------------------------------
(* A confirmation answers one command.  Its command's first fragment is in  *)
(* at most one place before it, and its text in at most one place after:    *)
(* on a connection, or with the call that has read it.                      *)
First(c) == [call |-> c, n |-> 1]
Passed(c) == frag[c] > 1 \/ pc[c] \in After

Fresh == \A c \in Calls : pc[c] \in {"idle", "connecting"} => frag[c] = 0

Asking ==
    /\ \A s \in Sockets, c \in Calls : \A i \in 1 .. Len(inbox[s]) :
          inbox[s][i] = First(c) => Passed(c) /\ (Op[c] # "SEARCH" => answered[c] = 0)
    /\ \A s, t \in Sockets, c \in Calls : \A i \in 1 .. Len(inbox[s]), j \in 1 .. Len(inbox[t]) :
          inbox[s][i] = First(c) /\ inbox[t][j] = First(c) => s = t /\ i = j
    /\ \A c \in Calls : Op[c] # "SEARCH" => answered[c] \in {0, 1} /\ (answered[c] = 1 => Passed(c))
    /\ \A s \in Sockets : \A i \in 1 .. Len(owed[s]) : Op[owed[s][i]] = "SEARCH"

(* Where a text may be: what search has read it drops. *)
Shelves == ({"out"} \X Sockets) \cup ({"got"} \X {c \in Calls : Op[c] # "SEARCH"})
shelf == [p \in Shelves |-> IF p[1] = "out" THEN outbox[p[2]] ELSE got[p[2]]]

IsReplyText(u, number) == Op[u.of] # "SEARCH" /\ number[u.of] = 1 /\ u = TextUnit(u.of, u.n)

Texts ==
    /\ \A p \in Shelves : \A i \in 1 .. Len(shelf[p]) :
          shelf[p][i].part = "text" => IsReplyText(shelf[p][i], answered)
    /\ \A p, q \in Shelves : \A i \in 1 .. Len(shelf[p]), j \in 1 .. Len(shelf[q]) :
          shelf[p][i].part = "text" /\ shelf[q][j].part = "text" /\ shelf[p][i].of = shelf[q][j].of
              => p = q /\ i = j

Returned == \A c \in Confirmed : pc[c] = "done" /\ Len(got[c]) = 1 /\ Confirms(c, got[c][1])

(* The three, and that a call sends nothing before it has a connection, are *)
(* inductive.                                                               *)
Receipts == Fresh /\ Asking /\ Texts /\ Returned

LEMMA InitReceipts == Init => Receipts
<1> SUFFICES ASSUME Init PROVE Receipts
  OBVIOUS
<1>1. Fresh /\ Returned
  BY DEF Init, Fresh, Returned, Confirmed
<1>2. Asking
  BY DEF Init, Asking
<1>3. \A p \in Shelves : Len(shelf[p]) = 0
  BY DEF Init, Shelves, shelf
<1>4. Texts
  BY <1>3 DEF Texts
<1> QED
  BY <1>1, <1>2, <1>4 DEF Receipts

(* An inbox that only loses fragments at its front keeps Asking. *)
LEMMA ShrinksAsking ==
    ASSUME TypeOK, TypeOK', Asking, Shrinks, UNCHANGED <<frag, pc>>,
           \A c \in Calls : Op[c] # "SEARCH" =>
              \/ answered'[c] = answered[c]
              \/ /\ answered'[c] = 1 /\ Passed(c)
                 /\ \A t \in Sockets : \A i \in 1 .. Len(inbox'[t]) : inbox'[t][i] # First(c),
           \A s \in Sockets : \A i \in 1 .. Len(owed'[s]) : Op[owed'[s][i]] = "SEARCH"
    PROVE  Asking'
<1>0. \A u \in Sockets : Len(inbox[u]) \in Nat /\ Len(inbox'[u]) \in Nat
  BY LenProperties DEF TypeOK
<1>1. \A s \in Sockets : \E n \in Nat : \A i \in 1 .. Len(inbox'[s]) :
         i + n \in 1 .. Len(inbox[s]) /\ inbox'[s][i] = inbox[s][i + n]
  <2> SUFFICES ASSUME NEW s \in Sockets
               PROVE  \E n \in Nat : \A i \in 1 .. Len(inbox'[s]) :
                         i + n \in 1 .. Len(inbox[s]) /\ inbox'[s][i] = inbox[s][i + n]
    OBVIOUS
  <2>1. PICK n \in 0 .. Len(inbox[s]) :
          /\ Len(inbox'[s]) = Len(inbox[s]) - n
          /\ \A k \in 1 .. Len(inbox[s]) - n : inbox'[s][k] = inbox[s][k + n]
    BY DEF Shrinks
  <2>2. n \in Nat
    BY <1>0
  <2> WITNESS n \in Nat
  <2> QED
    BY <1>0, <2>1
<1>2. ASSUME NEW s \in Sockets, NEW c \in Calls, NEW i \in 1 .. Len(inbox'[s]), inbox'[s][i] = First(c)
      PROVE  Passed(c) /\ (Op[c] # "SEARCH" => answered[c] = 0)
  <2>1. PICK n \in Nat : \A k \in 1 .. Len(inbox'[s]) :
           k + n \in 1 .. Len(inbox[s]) /\ inbox'[s][k] = inbox[s][k + n]
    BY <1>1
  <2>2. i + n \in 1 .. Len(inbox[s]) /\ inbox[s][i + n] = First(c)
    BY <1>2, <2>1, Zenon
  <2>3. Passed(c) /\ (Op[c] # "SEARCH" => answered[c] = 0)
    BY <2>2, Zenon DEF Asking
  <2>4. CASE Op[c] = "SEARCH"
    BY <2>3, <2>4
  <2>5. CASE Op[c] # "SEARCH"
    BY <1>2, <2>3, <2>5
  <2> QED
    BY <2>4, <2>5
<1>3. ASSUME NEW s \in Sockets, NEW t \in Sockets, NEW c \in Calls,
             NEW i \in 1 .. Len(inbox'[s]), NEW j \in 1 .. Len(inbox'[t]),
             inbox'[s][i] = First(c), inbox'[t][j] = First(c)
      PROVE  s = t /\ i = j
  <2>1. PICK n \in Nat : \A k \in 1 .. Len(inbox'[s]) :
           k + n \in 1 .. Len(inbox[s]) /\ inbox'[s][k] = inbox[s][k + n]
    BY <1>1
  <2>2. PICK m \in Nat : \A k \in 1 .. Len(inbox'[t]) :
           k + m \in 1 .. Len(inbox[t]) /\ inbox'[t][k] = inbox[t][k + m]
    BY <1>1
  <2>0. /\ i + n \in 1 .. Len(inbox[s]) /\ inbox[s][i + n] = First(c)
        /\ j + m \in 1 .. Len(inbox[t]) /\ inbox[t][j + m] = First(c)
    BY <1>3, <2>1, <2>2
  <2>3. s = t /\ i + n = j + m
    BY <2>0 DEF Asking
  <2>4. i + m \in 1 .. Len(inbox[s]) /\ inbox[s][i + m] = First(c)
    BY <1>0, <1>3, <2>2, <2>3
  <2>5. i + n = i + m
    BY <2>0, <2>4 DEF Asking
  <2> QED
    BY <1>0, <2>3, <2>5
<1>4. \A c \in Calls : Passed(c) <=> Passed(c)'
  BY DEF Passed
<1>5. \A c \in Calls : Op[c] # "SEARCH" => answered'[c] \in {0, 1} /\ (answered'[c] = 1 => Passed(c))
  BY DEF Asking
<1>6. ASSUME NEW s \in Sockets, NEW c \in Calls, NEW i \in 1 .. Len(inbox'[s]), inbox'[s][i] = First(c),
             Op[c] # "SEARCH"
      PROVE  answered'[c] = 0
  BY <1>2, <1>6
<1>7. \A s \in Sockets, c \in Calls : \A i \in 1 .. Len(inbox'[s]) :
        inbox'[s][i] = First(c) => Passed(c)' /\ (Op[c] # "SEARCH" => answered'[c] = 0)
  BY <1>2, <1>4, <1>6
<1>8. \A c \in Calls : Op[c] # "SEARCH" => answered'[c] \in {0, 1} /\ (answered'[c] = 1 => Passed(c)')
  BY <1>4, <1>5
<1> QED
  BY <1>3, <1>7, <1>8 DEF Asking, First

(* Texts that leave an outbox at its front, or are lost at its end, or have *)
(* other units after them.                                                  *)
Faded(new, old) ==
    \E n \in Nat : \A i \in 1 .. Len(new) :
        new[i].part = "text" => i + n \in 1 .. Len(old) /\ new[i] = old[i + n]

Fades == \A p \in Shelves : Faded(shelf'[p], shelf[p])

ShelfTyped == \A p \in Shelves : shelf[p] \in Seq(Unit)

LEMMA ShelvesTyped == ASSUME TypeOK PROVE ShelfTyped
  BY DEF TypeOK, ShelfTyped, Shelves, shelf

LEMMA FadesTexts ==
    ASSUME Texts, Fades, \A c \in Calls : Op[c] # "SEARCH" => answered'[c] = answered[c],
           ShelfTyped, ShelfTyped'
    PROVE  Texts'
<1>0. \A p \in Shelves : Len(shelf[p]) \in Nat /\ Len(shelf'[p]) \in Nat
  BY LenProperties DEF ShelfTyped, Shelves
<1>1. ASSUME NEW p \in Shelves, NEW i \in 1 .. Len(shelf'[p]), shelf'[p][i].part = "text"
      PROVE  IsReplyText(shelf'[p][i], answered')
  <2>1. PICK n \in Nat : \A k \in 1 .. Len(shelf'[p]) :
           shelf'[p][k].part = "text" => k + n \in 1 .. Len(shelf[p]) /\ shelf'[p][k] = shelf[p][k + n]
    BY DEF Fades, Faded
  <2>2. PICK u : u = shelf[p][i + n]
    OBVIOUS
  <2>0. i + n \in 1 .. Len(shelf[p]) /\ u = shelf'[p][i]
    BY <1>1, <2>1, <2>2
  <2>3. IsReplyText(u, answered) /\ u = shelf'[p][i] /\ u.of \in Calls
    <3>1. u \in Unit
      BY <2>0, <2>2, ElementOfSeq DEF ShelfTyped
    <3> QED
      BY <1>1, <2>0, <2>2, <3>1 DEF Texts, Unit
  <2> QED
    BY <2>3 DEF IsReplyText
<1>2. ASSUME NEW p \in Shelves, NEW q \in Shelves, NEW i \in 1 .. Len(shelf'[p]), NEW j \in 1 .. Len(shelf'[q]),
             shelf'[p][i].part = "text", shelf'[q][j].part = "text", shelf'[p][i].of = shelf'[q][j].of
      PROVE  p = q /\ i = j
  <2>1. PICK n \in Nat : \A k \in 1 .. Len(shelf'[p]) :
           shelf'[p][k].part = "text" => k + n \in 1 .. Len(shelf[p]) /\ shelf'[p][k] = shelf[p][k + n]
    BY DEF Fades, Faded
  <2>2. PICK m \in Nat : \A k \in 1 .. Len(shelf'[q]) :
           shelf'[q][k].part = "text" => k + m \in 1 .. Len(shelf[q]) /\ shelf'[q][k] = shelf[q][k + m]
    BY DEF Fades, Faded
  <2>0. /\ i + n \in 1 .. Len(shelf[p]) /\ shelf[p][i + n] = shelf'[p][i]
        /\ j + m \in 1 .. Len(shelf[q]) /\ shelf[q][j + m] = shelf'[q][j]
    BY <1>2, <2>1, <2>2
  <2>3. p = q /\ i + n = j + m
    <3>1. PICK a, b : a = i + n /\ b = j + m
      OBVIOUS
    <3>2. /\ a \in 1 .. Len(shelf[p]) /\ shelf[p][a].part = "text"
          /\ b \in 1 .. Len(shelf[q]) /\ shelf[q][b].part = "text"
          /\ shelf[p][a].of = shelf[q][b].of
      BY <1>2, <2>0, <3>1
    <3> QED
      BY <3>1, <3>2 DEF Texts
  <2>4. i + m \in 1 .. Len(shelf[p]) /\ shelf'[p][i] = shelf[p][i + m]
    BY <1>0, <1>2, <2>2, <2>3
  <2>5. i + n = i + m
    <3>1. PICK a, b : a = i + n /\ b = i + m
      OBVIOUS
    <3>2. /\ a \in 1 .. Len(shelf[p]) /\ b \in 1 .. Len(shelf[p])
          /\ shelf[p][a].part = "text" /\ shelf[p][b].part = "text"
          /\ shelf[p][a].of = shelf[p][b].of
      BY <1>2, <2>0, <2>4, <3>1
    <3> QED
      BY <3>1, <3>2 DEF Texts
  <2> QED
    BY <1>0, <2>3, <2>5
<1> QED
  BY <1>1, <1>2 DEF Texts, IsReplyText, Shelves

(* Shelf by shelf *)
LEMMA ShelfOf ==
    /\ \A s \in Sockets : <<"out", s>> \in Shelves /\ shelf[<<"out", s>>] = outbox[s]
                             /\ shelf'[<<"out", s>>] = outbox'[s]
    /\ \A c \in Calls : Op[c] # "SEARCH" => <<"got", c>> \in Shelves /\ shelf[<<"got", c>>] = got[c]
                             /\ shelf'[<<"got", c>>] = got'[c]
    /\ \A p \in Shelves : \/ \E s \in Sockets : p = <<"out", s>>
                          \/ \E c \in Calls : Op[c] # "SEARCH" /\ p = <<"got", c>>
<1>1. \A s \in Sockets : <<"out", s>> \in Shelves /\ <<"out", s>>[1] = "out" /\ <<"out", s>>[2] = s
  BY DEF Shelves
<1>2. \A c \in Calls : Op[c] # "SEARCH" => <<"got", c>> \in Shelves
  BY DEF Shelves
<1>3. \A c : <<"got", c>>[1] # "out" /\ <<"got", c>>[2] = c
  OBVIOUS
<1>4. \A p \in Shelves : \/ \E s \in Sockets : p = <<"out", s>>
                         \/ \E c \in Calls : Op[c] # "SEARCH" /\ p = <<"got", c>>
  BY DEF Shelves
<1>5. \A p \in Shelves : /\ shelf[p] = IF p[1] = "out" THEN outbox[p[2]] ELSE got[p[2]]
                         /\ shelf'[p] = IF p[1] = "out" THEN outbox'[p[2]] ELSE got'[p[2]]
  BY DEF shelf, Shelves
<1> QED
  BY <1>1, <1>2, <1>3, <1>4, <1>5

LEMMA SameFaded == \A q \in Seq(Unit) : Faded(q, q)
<1> SUFFICES ASSUME NEW q \in Seq(Unit) PROVE Faded(q, q)
  OBVIOUS
<1>1. Len(q) \in Nat
  BY LenProperties
<1>2. \A i \in 1 .. Len(q) : i + 0 \in 1 .. Len(q) /\ q[i] = q[i + 0]
  BY <1>1
<1> QED
  BY <1>2 DEF Faded

LEMMA FadesParts ==
    ASSUME TypeOK,
           \A s \in Sockets : Faded(outbox'[s], outbox[s]),
           \A c \in Calls : Op[c] # "SEARCH" => got'[c] = got[c]
    PROVE  Fades
<1>1. \A c \in Calls : got[c] \in Seq(Unit)
  BY DEF TypeOK
<1>2. \A p \in Shelves : Faded(shelf'[p], shelf[p])
  BY <1>1, SameFaded, ShelfOf
<1> QED
  BY <1>2 DEF Fades

LEMMA SameFades == ASSUME TypeOK, UNCHANGED <<outbox, got>> PROVE Fades
  BY SameFaded, FadesParts DEF TypeOK

(* The reply to a search has no text in it. *)
LEMMA QueryUnitsNoText ==
    \A c \in Calls, h \in Int : \A i \in 1 .. Len(QueryUnits(c, h)) : QueryUnits(c, h)[i].part # "text"
<1> SUFFICES ASSUME NEW c \in Calls, NEW h \in Int, NEW i \in 1 .. Len(QueryUnits(c, h))
             PROVE  QueryUnits(c, h)[i].part # "text"
  OBVIOUS
<1> DEFINE k == IF h > 0 THEN h ELSE 0
           head == <<[of |-> c, at |-> 0, part |-> "count", n |-> h]>>
<1>1. k \in Nat /\ 3 * Fields * k \in Nat
  BY DEF Fields
<1>2. FieldUnits(c, k) \in Seq(Unit) /\ head \in Seq(Unit)
  <2>1. [of |-> c, at |-> 0, part |-> "count", n |-> h] \in Unit
    BY DEF Unit, Parts
  <2>2. head \in Seq(Unit)
    BY <2>1
  <2> HIDE DEF k
  <2> QED
    BY <1>1, <2>2, FieldUnitsTyped
<1>3. \A j \in 1 .. 3 * Fields * k : FieldUnits(c, k)[j].part # "text"
  <2>1. \A j \in 1 .. 3 * Fields * k : ((j - 1) % 3) + 1 \in 1 .. 3
    BY <1>1
  <2>2. \A m \in 1 .. 3 : <<"low", "high", "body">>[m] # "text"
    OBVIOUS
  <2>3. \A j \in 1 .. 3 * Fields * k :
           FieldUnits(c, k)[j].part = <<"low", "high", "body">>[((j - 1) % 3) + 1]
    BY DEF FieldUnits
  <2> QED
    BY <2>1, <2>2, <2>3
<1>4. Len(FieldUnits(c, k)) = 3 * Fields * k
  <2>1. Len([j \in 1 .. 3 * Fields * k |->
        [of |-> c, at |-> j, part |-> <<"low", "high", "body">>[((j - 1) % 3) + 1],
         n |-> IF j % 3 = 1 THEN 1 ELSE 0]]) = 3 * Fields * k
    BY <1>1
  <2> QED
    BY <2>1 DEF FieldUnits
<1>5. QueryUnits(c, h) = head \o FieldUnits(c, k)
  BY DEF QueryUnits
<1>6. Len(head) = 1 /\ head[1].part = "count"
  OBVIOUS
<1> HIDE DEF k, head
<1>10. PICK m \in Nat : m = 3 * Fields * k
  BY <1>1
<1>7. /\ Len(QueryUnits(c, h)) = 1 + m
      /\ \A j \in 1 .. 1 + m :
            QueryUnits(c, h)[j] = IF j <= 1 THEN head[j] ELSE FieldUnits(c, k)[j - 1]
  <2>1. /\ Len(head \o FieldUnits(c, k)) = Len(head) + Len(FieldUnits(c, k))
        /\ \A j \in 1 .. Len(head) + Len(FieldUnits(c, k)) :
             (head \o FieldUnits(c, k))[j] = IF j <= Len(head) THEN head[j]
                                             ELSE FieldUnits(c, k)[j - Len(head)]
    BY <1>2, ConcatProperties
  <2> QED
    BY <1>4, <1>5, <1>6, <1>10, <2>1
<1>8. CASE i = 1
  BY <1>6, <1>7, <1>8, <1>10
<1>9. CASE i # 1
  <2>1. i - 1 \in 1 .. m /\ QueryUnits(c, h)[i] = FieldUnits(c, k)[i - 1]
    BY <1>7, <1>9, <1>10
  <2> QED
    BY <1>3, <1>10, <2>1
<1> QED
  BY <1>8, <1>9

LEMMA AnswerQueryFades ==
    ASSUME TypeOK, TypeOK', NEW s \in Sockets, NEW n \in Int, AnswerQuery(s, n)
    PROVE  Fades
<1>1. Head(owed[s]) \in Calls
  BY HeadTyped DEF TypeOK, AnswerQuery
<1> DEFINE units == QueryUnits(Head(owed[s]), n)
<1>2. units \in Seq(Unit) /\ \A i \in 1 .. Len(units) : units[i].part # "text"
  BY <1>1, QueryUnitsTyped, QueryUnitsNoText
<1>3. UNCHANGED got
  BY DEF AnswerQuery, call
<1>4. Answer(s, Head(owed[s]), units)
  BY DEF AnswerQuery
<1> HIDE DEF units
<1>5. ASSUME NEW t \in Sockets
      PROVE  Faded(outbox'[t], outbox[t])
  <2>1. outbox[t] \in Seq(Unit) /\ Len(outbox[t]) \in Nat /\ Len(units) \in Nat /\ Len(outbox'[t]) \in Nat
    BY <1>2, LenProperties DEF TypeOK
  <2>2. outbox'[t] = outbox[t] \/ outbox'[t] = outbox[t] \o units
    <3>1. outbox \in [Sockets -> Seq(Unit)]
      BY DEF TypeOK
    <3>2. UNCHANGED outbox \/ outbox' = [outbox EXCEPT ![s] = outbox[s] \o units]
      BY <1>4 DEF Answer
    <3> QED
      BY <3>1, <3>2
  <2>3. CASE outbox'[t] = outbox[t]
    BY <2>1, <2>3, SameFaded
  <2>4. CASE outbox'[t] = outbox[t] \o units
    <3>1. /\ Len(outbox'[t]) = Len(outbox[t]) + Len(units)
          /\ \A i \in 1 .. Len(outbox[t]) + Len(units) :
               outbox'[t][i] = IF i <= Len(outbox[t]) THEN outbox[t][i] ELSE units[i - Len(outbox[t])]
      BY <1>2, <2>1, <2>4, ConcatProperties
    <3> SUFFICES ASSUME NEW i \in 1 .. Len(outbox'[t]), outbox'[t][i].part = "text"
                 PROVE  i + 0 \in 1 .. Len(outbox[t]) /\ outbox'[t][i] = outbox[t][i + 0]
      BY DEF Faded
    <3>2. CASE i <= Len(outbox[t])
      BY <2>1, <3>1, <3>2
    <3>3. CASE ~(i <= Len(outbox[t]))
      <4>1. i - Len(outbox[t]) \in 1 .. Len(units) /\ outbox'[t][i] = units[i - Len(outbox[t])]
        BY <2>1, <3>1, <3>3
      <4> QED
        BY <1>2, <4>1
    <3> QED
      BY <3>2, <3>3
  <2> QED
    BY <2>2, <2>3, <2>4
<1> QED
  BY <1>3, <1>5, FadesParts

LEMMA CrashFades == ASSUME TypeOK, Crash PROVE Fades
<1>1. PICK n \in 0 .. 2 :
        outbox' = [s \in Sockets |-> IF link[s] = "up" /\ n < Len(outbox[s])
                                     THEN SubSeq(outbox[s], 1, n) ELSE outbox[s]]
  BY DEF Crash
<1>2. UNCHANGED got
  BY DEF Crash, call
<1>3. ASSUME NEW t \in Sockets
      PROVE  Faded(outbox'[t], outbox[t])
  <2>1. outbox[t] \in Seq(Unit) /\ Len(outbox[t]) \in Nat
    BY LenProperties DEF TypeOK
  <2>2. CASE outbox'[t] = outbox[t]
    BY <2>1, <2>2, SameFaded
  <2>3. CASE n < Len(outbox[t]) /\ outbox'[t] = SubSeq(outbox[t], 1, n)
    <3>1. n \in 0 .. Len(outbox[t])
      BY <1>1, <2>1, <2>3
    <3>2. Len(outbox'[t]) = n /\ \A i \in 1 .. n : outbox'[t][i] = outbox[t][i]
      BY <2>1, <2>3, <3>1, TakeTyped
    <3>3. \A i \in 1 .. n : i + 0 \in 1 .. Len(outbox[t]) /\ outbox'[t][i] = outbox[t][i + 0]
      BY <2>1, <3>1, <3>2
    <3> QED
      BY <3>2, <3>3 DEF Faded
  <2> QED
    BY <1>1, <2>2, <2>3
<1> QED
  BY <1>2, <1>3, FadesParts

(* A step of the server or the network that confirms no command. *)
LEMMA FadingReceipts ==
    ASSUME TypeOK, TypeOK', Receipts, Shrinks, Fades, UNCHANGED call,
           \A c \in Calls : Op[c] # "SEARCH" => answered'[c] = answered[c],
           \A s \in Sockets : \A i \in 1 .. Len(owed'[s]) : Op[owed'[s][i]] = "SEARCH"
    PROVE  Receipts'
<1>1. Fresh' /\ Returned'
  BY DEF Receipts, Fresh, Returned, Confirmed, Confirms, call
<1>2. Asking'
  BY ShrinksAsking DEF Receipts, call
<1>3. ShelfTyped /\ ShelfTyped'
  <2>1. \A p \in Shelves : shelf'[p] \in Seq(Unit)
    <3>1. outbox' \in [Sockets -> Seq(Unit)] /\ got' \in [Calls -> Seq(Unit)]
      BY DEF TypeOK
    <3> QED
      BY <3>1, ShelfOf
  <2> QED
    BY <2>1, ShelvesTyped DEF ShelfTyped, Shelves
<1>4. Texts'
  BY <1>3, FadesTexts DEF Receipts
<1> QED
  BY <1>1, <1>2, <1>4 DEF Receipts

(* A first fragment is consumed, and its command confirmed, in one step. *)
LEMMA ExecuteInbox ==
    ASSUME TypeOK, TypeOK', Asking, NEW s \in Sockets, NEW c \in Calls, NEW n \in 1 .. Len(inbox[s]),
           inbox[s][1] = First(c), Execute(s, c, n)
    PROVE  /\ Shrinks
           /\ \A t \in Sockets : \A i \in 1 .. Len(inbox'[t]) : inbox'[t][i] # First(c)
<1>0. inbox \in [Sockets -> Seq(Fragment)]
  BY DEF TypeOK
<1>1. inbox \in [Sockets -> Seq(Fragment)] /\ Len(inbox[s]) \in Nat /\ n \in 0 .. Len(inbox[s])
  BY <1>0, LenProperties
<1>2. inbox' = [inbox EXCEPT ![s] = SubSeq(inbox[s], n + 1, Len(inbox[s]))]
  BY DEF Execute
<1>3. /\ Shrinks
      /\ Len(inbox'[s]) = Len(inbox[s]) - n
      /\ \A i \in 1 .. Len(inbox[s]) - n : inbox'[s][i] = inbox[s][i + n]
  BY <1>1, <1>2, SuffixShrinks
<1>4. ASSUME NEW t \in Sockets, NEW i \in 1 .. Len(inbox'[t]), inbox'[t][i] = First(c)
      PROVE  FALSE
  <2>1. 1 \in 1 .. Len(inbox[s])
    BY <1>1
  <2>2. CASE t = s
    <3>1. i + n \in 1 .. Len(inbox[s]) /\ inbox[s][i + n] = First(c) /\ i + n # 1
      BY <1>1, <1>3, <1>4, <2>2
    <3> QED
      BY <2>1, <3>1 DEF Asking
  <2>3. CASE t # s
    <3>1. i \in 1 .. Len(inbox[t]) /\ inbox[t][i] = First(c)
      BY <1>1, <1>2, <1>4, <2>3
    <3> QED
      BY <2>1, <2>3, <3>1 DEF Asking
  <2> QED
    BY <2>2, <2>3
<1> QED
  BY <1>3, <1>4

LEMMA AnswerTexts ==
    ASSUME TypeOK, TypeOK', Texts, NEW s \in Sockets, NEW c \in Calls, Op[c] # "SEARCH",
           answered[c] = 0, NEW k \in {0, 1}, Answer(s, c, <<TextUnit(c, k)>>), UNCHANGED got
    PROVE  /\ Texts'
           /\ \A d \in Calls : answered'[d] = answered[d] \/ (d = c /\ answered'[d] = 1)
<1> DEFINE u == TextUnit(c, k)
<1>1. /\ outbox \in [Sockets -> Seq(Unit)]
      /\ got \in [Calls -> Seq(Unit)]
      /\ answered \in [Calls -> Nat]
  BY DEF TypeOK
<1>2. u.of = c /\ u.part = "text" /\ u = TextUnit(u.of, u.n) /\ <<u>> \in Seq(Unit) /\ Len(<<u>>) = 1
  BY TextUnitTyped DEF TextUnit
<1>3. CASE UNCHANGED <<outbox, answered>>
  <2>1. ShelfTyped /\ ShelfTyped'
    BY <1>1, <1>3, ShelvesTyped, ShelfOf DEF ShelfTyped, Shelves
  <2> QED
    BY <1>3, <2>1, SameFades, FadesTexts
<1>4. CASE /\ outbox' = [outbox EXCEPT ![s] = @ \o <<u>>]
           /\ answered' = [answered EXCEPT ![c] = @ + Len(<<u>>)]
  <2>1. answered' = [answered EXCEPT ![c] = 1]
    BY <1>1, <1>2, <1>4
  <2>2. /\ outbox'[s] = outbox[s] \o <<u>>
        /\ \A t \in Sockets : t # s => outbox'[t] = outbox[t]
    BY <1>1, <1>4
  <2> HIDE DEF u
  <2>3. PICK m \in Nat : m = Len(outbox[s])
    BY <1>1, LenProperties
  <2>4. /\ Len(outbox'[s]) = m + 1
        /\ \A i \in 1 .. m : outbox'[s][i] = outbox[s][i]
        /\ outbox'[s][m + 1] = u
    <3>1. Len(<<u>>) = 1 /\ <<u>>[1] = u
      OBVIOUS
    <3>2. /\ Len(outbox[s] \o <<u>>) = Len(outbox[s]) + Len(<<u>>)
          /\ \A i \in 1 .. Len(outbox[s]) + Len(<<u>>) :
               (outbox[s] \o <<u>>)[i] = IF i <= Len(outbox[s]) THEN outbox[s][i]
                                         ELSE <<u>>[i - Len(outbox[s])]
      BY <1>1, <1>2, ConcatProperties
    <3> QED
      BY <2>2, <2>3, <3>1, <3>2
  <2>5. ASSUME NEW p \in Shelves, NEW i \in 1 .. Len(shelf'[p])
        PROVE  \/ i \in 1 .. Len(shelf[p]) /\ shelf'[p][i] = shelf[p][i]
               \/ p = <<"out", s>> /\ i = m + 1 /\ shelf'[p][i] = u
    <3>1. CASE p = <<"out", s>>
      <4>1. shelf[p] = outbox[s] /\ shelf'[p] = outbox'[s]
        BY <3>1, ShelfOf, Zenon
      <4>2. i \in 1 .. m + 1
        BY <2>4, <2>5, <4>1
      <4> QED
        BY <2>3, <2>4, <3>1, <4>1, <4>2
    <3>2. CASE p # <<"out", s>>
      <4>1. shelf'[p] = shelf[p]
        BY <2>2, <3>2, ShelfOf
      <4> QED
        BY <2>5, <4>1
    <3> QED
      BY <3>1, <3>2
  <2>6. ASSUME NEW p \in Shelves, NEW i \in 1 .. Len(shelf[p]), shelf[p][i].part = "text"
        PROVE  shelf[p][i].of # c /\ shelf[p][i].of \in Calls /\ IsReplyText(shelf[p][i], answered)
    <3>0. shelf[p] \in Seq(Unit)
      BY ShelvesTyped DEF ShelfTyped
    <3>1. shelf[p][i] \in Unit
      BY <3>0, ElementOfSeq
    <3> QED
      BY <2>6, <3>1 DEF Texts, IsReplyText, Unit
  <2>7. ASSUME NEW p \in Shelves, NEW i \in 1 .. Len(shelf'[p]), shelf'[p][i].part = "text"
        PROVE  IsReplyText(shelf'[p][i], answered')
    <3>1. CASE i \in 1 .. Len(shelf[p]) /\ shelf'[p][i] = shelf[p][i]
      <4>1. PICK v : v = shelf[p][i]
        OBVIOUS
      <4>2. v.of # c /\ v.of \in Calls /\ IsReplyText(v, answered)
        BY <2>6, <2>7, <3>1, <4>1
      <4> QED
        BY <1>1, <2>1, <3>1, <4>1, <4>2 DEF IsReplyText
    <3>2. CASE shelf'[p][i] = u
      BY <1>1, <1>2, <2>1, <3>2 DEF IsReplyText
    <3> QED
      BY <2>5, <3>1, <3>2
  <2>8. ASSUME NEW p \in Shelves, NEW q \in Shelves,
               NEW i \in 1 .. Len(shelf'[p]), NEW j \in 1 .. Len(shelf'[q]),
               shelf'[p][i].part = "text", shelf'[q][j].part = "text", shelf'[p][i].of = shelf'[q][j].of
        PROVE  p = q /\ i = j
    <3>1. CASE /\ i \in 1 .. Len(shelf[p]) /\ shelf'[p][i] = shelf[p][i]
               /\ j \in 1 .. Len(shelf[q]) /\ shelf'[q][j] = shelf[q][j]
      BY <2>8, <3>1 DEF Texts
    <3>2. CASE /\ i \in 1 .. Len(shelf[p]) /\ shelf'[p][i] = shelf[p][i]
               /\ shelf'[q][j] = u
      BY <1>2, <2>6, <2>8, <3>2
    <3>3. CASE /\ shelf'[p][i] = u
               /\ j \in 1 .. Len(shelf[q]) /\ shelf'[q][j] = shelf[q][j]
      BY <1>2, <2>6, <2>8, <3>3
    <3>4. CASE p = <<"out", s>> /\ i = m + 1 /\ q = <<"out", s>> /\ j = m + 1
      BY <3>4
    <3> QED
      BY <2>5, <3>1, <3>2, <3>3, <3>4
  <2>9. Texts'
    BY <2>7, <2>8 DEF Texts, IsReplyText, Shelves
  <2> QED
    BY <1>1, <2>1, <2>9
<1> QED
  BY <1>3, <1>4 DEF Answer

LEMMA ExecuteReceipts ==
    ASSUME TypeOK, TypeOK', Receipts, NEW s \in Sockets, NEW c \in Calls, NEW n \in 1 .. Len(inbox[s]),
           inbox[s][1] = First(c), Execute(s, c, n), UNCHANGED call
    PROVE  Receipts'
<1>1. Fresh' /\ Returned'
  BY DEF Receipts, Fresh, Returned, Confirmed, Confirms, call
<1>2. Asking /\ Texts
  BY DEF Receipts
<1>3. 1 \in 1 .. Len(inbox[s])
  <2>1. Len(inbox[s]) \in Nat
    BY InboxTyped
  <2> QED
    BY <2>1
<1>4. Passed(c) /\ (Op[c] # "SEARCH" => answered[c] = 0)
  BY <1>2, <1>3 DEF Asking
<1>5. Shrinks /\ \A t \in Sockets : \A i \in 1 .. Len(inbox'[t]) : inbox'[t][i] # First(c)
  BY <1>2, ExecuteInbox
<1>6. UNCHANGED <<frag, pc, got>>
  BY DEF call
<1>7. CASE Op[c] = "SEARCH"
  <2>1. UNCHANGED <<outbox, answered>> /\ owed' = [owed EXCEPT ![s] = [i \in 1 .. Queries[c] |-> c]]
    BY <1>7 DEF Execute
  <2>2. \A t \in Sockets : \A i \in 1 .. Len(owed'[t]) : Op[owed'[t][i]] = "SEARCH"
    <3>1. owed \in [Sockets -> Seq(Calls)] /\ Queries[c] \in Nat
      BY CallsAssumption DEF TypeOK, CallsAssumption
    <3>2. ASSUME NEW t \in Sockets, NEW i \in 1 .. Len(owed'[t])
          PROVE  Op[owed'[t][i]] = "SEARCH"
      <4>1. CASE t = s
        BY <1>7, <2>1, <3>1, <3>2, <4>1
      <4>2. CASE t # s
        BY <1>2, <2>1, <3>1, <3>2, <4>2 DEF Asking
      <4> QED
        BY <4>1, <4>2
    <3> QED
      BY <3>2
  <2>3. Fades
    BY <1>6, <2>1, SameFades
  <2> QED
    BY <1>5, <2>1, <2>2, <2>3, FadingReceipts
<1>8. CASE Op[c] # "SEARCH"
  <2>1. PICK k \in {0, 1} : Answer(s, c, <<TextUnit(c, k)>>)
    BY <1>8 DEF Execute
  <2>2. UNCHANGED owed
    BY <1>8 DEF Execute
  <2>3. Texts' /\ \A d \in Calls : answered'[d] = answered[d] \/ (d = c /\ answered'[d] = 1)
    BY <1>2, <1>4, <1>6, <1>8, <2>1, AnswerTexts
  <2>4. \A d \in Calls : Op[d] # "SEARCH" =>
              \/ answered'[d] = answered[d]
              \/ /\ answered'[d] = 1 /\ Passed(d)
                 /\ \A t \in Sockets : \A i \in 1 .. Len(inbox'[t]) : inbox'[t][i] # First(d)
    BY <1>4, <1>5, <2>3
  <2>5. \A t \in Sockets : \A i \in 1 .. Len(owed'[t]) : Op[owed'[t][i]] = "SEARCH"
    BY <1>2, <2>2 DEF Asking
  <2>6. Asking'
    BY <1>2, <1>5, <1>6, <2>4, <2>5, ShrinksAsking
  <2> QED
    BY <1>1, <2>3, <2>6 DEF Receipts
<1> QED
  BY <1>7, <1>8

(* The server ends: nothing is confirmed, and no reply is under way. *)
LEMMA EndReceipts ==
    ASSUME TypeOK, TypeOK', Receipts, Shrinks, Fades, End, UNCHANGED <<call, answered>>
    PROVE  Receipts'
<1>1. \A s \in Sockets : Len(owed'[s]) = 0
  BY DEF End
<1> QED
  BY <1>1, FadingReceipts

LEMMA SameOwed ==
    ASSUME TypeOK, TypeOK', Receipts, Shrinks, Fades, UNCHANGED <<call, answered, owed>>
    PROVE  Receipts'
<1>1. \A s \in Sockets : \A i \in 1 .. Len(owed'[s]) : Op[owed'[s][i]] = "SEARCH"
  BY DEF Receipts, Asking
<1> QED
  BY <1>1, FadingReceipts

LEMMA RunCommandReceipts ==
    ASSUME TypeOK, TypeOK', Receipts, NEW s \in Sockets, RunCommand(s)
    PROVE  Receipts'
<1> DEFINE c == Head(inbox[s]).call
<1>1. inbox[s] \in Seq(Fragment) /\ inbox[s] # << >> /\ Len(inbox[s]) \in Nat
  BY InboxTyped DEF RunCommand
<1>2. c \in Calls
  <2>1. Head(inbox[s]) \in Fragment
    BY <1>1, HeadTyped
  <2> QED
    BY <2>1 DEF Fragment
<1>3. Whole(s, c) /\ Execute(s, c, Fragments(c)) /\ UNCHANGED call
  BY DEF RunCommand
<1> HIDE DEF c
<1>4. Fragments(c) \in 1 .. Len(inbox[s]) /\ inbox[s][1] = First(c)
  BY <1>1, <1>2, <1>3, FragmentsNat DEF Whole, First
<1> QED
  BY <1>2, <1>3, <1>4, ExecuteReceipts

LEMMA RunGarbledReceipts ==
    ASSUME TypeOK, TypeOK', Receipts, NEW s \in Sockets, RunGarbled(s)
    PROVE  Receipts'
<1> DEFINE f == Head(inbox[s])
<1>1. inbox[s] \in Seq(Fragment) /\ inbox[s] # << >> /\ Len(inbox[s]) \in Nat
  BY InboxTyped DEF RunGarbled
<1>2. f \in Fragment /\ f = inbox[s][1]
  BY <1>1, HeadTyped
<1>3. f.call \in Calls /\ inbox[s][1] = First(f.call)
  BY <1>2 DEF Fragment, First, RunGarbled
<1>4. UNCHANGED call
  BY DEF RunGarbled
<1>5. \/ End /\ UNCHANGED <<outbox, answered>>
      \/ \E i \in 2 .. Len(inbox[s]) : \E n \in i .. Len(inbox[s]) : Execute(s, f.call, n)
  BY DEF RunGarbled
<1> HIDE DEF f
<1>6. CASE End /\ UNCHANGED <<outbox, answered>>
  <2>1. Shrinks
    BY RunGarbledTyped, DroppedShrinks
  <2>2. Fades
    BY <1>4, <1>6, SameFades DEF call
  <2> QED
    BY <1>4, <1>6, <2>1, <2>2, EndReceipts
<1>7. ASSUME NEW i \in 2 .. Len(inbox[s]), NEW n \in i .. Len(inbox[s]), Execute(s, f.call, n)
      PROVE  Receipts'
  <2>1. n \in 1 .. Len(inbox[s])
    BY <1>1
  <2> QED
    BY <1>3, <1>4, <1>7, <2>1, ExecuteReceipts
<1> QED
  BY <1>5, <1>6, <1>7

LEMMA AnswerQueryReceipts ==
    ASSUME TypeOK, TypeOK', Receipts, NEW s \in Sockets, NEW n \in Int, AnswerQuery(s, n)
    PROVE  Receipts'
<1>1. /\ owed \in [Sockets -> Seq(Calls)]
      /\ answered \in [Calls -> Nat]
      /\ owed[s] # << >>
      /\ owed' = [owed EXCEPT ![s] = Tail(owed[s])]
      /\ UNCHANGED <<inbox, call>>
  BY DEF TypeOK, AnswerQuery
<1>2. \A t \in Sockets : owed[t] \in Seq(Calls) /\ \A i \in 1 .. Len(owed[t]) : Op[owed[t][i]] = "SEARCH"
  BY <1>1 DEF Receipts, Asking
<1>3. /\ Len(owed[s]) \in Nat /\ Len(owed[s]) # 0
      /\ Head(owed[s]) = owed[s][1]
      /\ Len(Tail(owed[s])) = Len(owed[s]) - 1
      /\ \A i \in 1 .. Len(Tail(owed[s])) : Tail(owed[s])[i] = owed[s][i + 1]
  BY <1>1, <1>2, HeadTailProperties, LenProperties, EmptySeq
<1>4. Head(owed[s]) \in Calls /\ Op[Head(owed[s])] = "SEARCH"
  <2>1. Head(owed[s]) \in Calls
    BY <1>1, <1>2, HeadTyped
  <2> QED
    BY <1>2, <1>3, <2>1
<1>5. \A c \in Calls : Op[c] # "SEARCH" => answered'[c] = answered[c]
  <2>1. \/ UNCHANGED answered
        \/ \E k : answered' = [answered EXCEPT ![Head(owed[s])] = k]
    BY DEF AnswerQuery, Answer
  <2> QED
    BY <1>1, <1>4, <2>1
<1>6. ASSUME NEW t \in Sockets, NEW i \in 1 .. Len(owed'[t])
      PROVE  Op[owed'[t][i]] = "SEARCH"
  <2>1. CASE t = s
    <3>1. i + 1 \in 1 .. Len(owed[s]) /\ owed'[s][i] = owed[s][i + 1]
      BY <1>1, <1>3, <2>1
    <3> QED
      BY <1>2, <2>1, <3>1
  <2>2. CASE t # s
    BY <1>1, <1>2, <2>2
  <2> QED
    BY <2>1, <2>2
<1>7. Shrinks
  BY <1>1, SameShrinks
<1>8. Fades
  BY AnswerQueryFades
<1> QED
  BY <1>1, <1>5, <1>6, <1>7, <1>8, FadingReceipts

LEMMA WorldReceipts ==
    ASSUME TypeOK, TypeOK', Receipts, World
    PROVE  Receipts'
<1>1. ASSUME NEW s \in Sockets, Reject(s) PROVE Receipts'
  <2>1. End /\ UNCHANGED <<outbox, call, answered>>
    BY <1>1 DEF Reject
  <2>2. Shrinks
    BY <1>1, RejectTyped, DroppedShrinks
  <2>3. Fades
    BY <2>1, SameFades DEF call
  <2> QED
    BY <2>1, <2>2, <2>3, EndReceipts
<1>2. ASSUME NEW s \in Sockets, Cut(s) PROVE Receipts'
  <2>1. UNCHANGED <<outbox, call, answered, owed>>
    BY <1>2 DEF Cut, server
  <2>2. CASE inbox' = [inbox EXCEPT ![s] = << >>]
    <3>1. inbox' = [t \in Sockets |-> IF t \in {s} THEN << >> ELSE inbox[t]]
      BY <2>2 DEF TypeOK
    <3> QED
      BY <2>1, <3>1, EmptyShrinks, SameFades, SameOwed DEF call
  <2>3. CASE UNCHANGED inbox
    BY <2>1, <2>3, SameShrinks, SameFades, SameOwed DEF call
  <2> QED
    BY <1>2, <2>2, <2>3, CutTyped
<1>3. ASSUME NEW s \in Sockets, Collect(s) PROVE Receipts'
  <2>1. UNCHANGED <<inbox, outbox, call, answered, owed>>
    BY <1>3 DEF Collect, server
  <2> QED
    BY <2>1, SameShrinks, SameFades, SameOwed DEF call
<1>4. ASSUME Crash PROVE Receipts'
  <2>1. inbox' = [t \in Sockets |-> << >>]
    BY <1>4, CrashTyped
  <2>2. inbox' = [t \in Sockets |-> IF t \in Sockets THEN << >> ELSE inbox[t]]
    BY <2>1
  <2>3. Shrinks
    BY <2>2, EmptyShrinks
  <2>4. Fades
    BY <1>4, CrashFades
  <2>5. End /\ UNCHANGED <<call, answered>>
    BY <1>4 DEF Crash
  <2> QED
    BY <2>3, <2>4, <2>5, EndReceipts
<1>5. ASSUME Restart PROVE Receipts'
  <2>1. UNCHANGED <<inbox, outbox, call, answered, owed>>
    BY <1>5 DEF Restart, net
  <2> QED
    BY <2>1, SameShrinks, SameFades, SameOwed DEF call
<1>6. \A n \in -1 .. MaxHits : n \in Int
  BY Bounds
<1> QED
  BY <1>1, <1>2, <1>3, <1>4, <1>5, <1>6, RunCommandReceipts, RunGarbledReceipts, AnswerQueryReceipts
     DEF World, ServerStep

(* What a step of a call does to the fragment it is at, and to its result.  *)
Advances(c) ==
    \/ UNCHANGED frag
    \/ \E i \in Nat : frag' = [frag EXCEPT ![c] = i] /\ i >= frag[c]

Replies(c) ==
    \/ UNCHANGED outcome
    \/ \E r : /\ Return(c, r)
              /\ r = "ok" /\ Op[c] # "SEARCH" => Len(got'[c]) = 1 /\ Confirms(c, got'[c][1])

LEMMA RaisesReplies == ASSUME NEW c, NEW r, r # "ok", Return(c, r) PROVE Replies(c)
  BY DEF Replies

LEMMA sendReplies ==
    ASSUME TypeOK, NEW c \in Calls, NEW i \in Nat, NEW s, NEW lk, i >= frag[c], send(c, i, s, lk)
    PROVE  Advances(c) /\ Replies(c)
<1>1. CASE (Return(c, "ConnectionError") \/ Return(c, "UnicodeEncodeError")) /\ UNCHANGED frag
  BY <1>1, RaisesReplies DEF Advances
<1>2. CASE write(c, i, s, lk, "draining")
  BY <1>2 DEF write, Await, Advances, Replies
<1> QED
  BY <1>1, <1>2 DEF send

LEMMA BeginReplies ==
    ASSUME TypeOK, NEW c \in Calls, NEW s, NEW lk, frag[c] = 0, Begin(c, s, lk)
    PROVE  Advances(c) /\ Replies(c)
<1>1. CASE Return(c, "AssertionError") /\ UNCHANGED frag
  BY <1>1, RaisesReplies DEF Advances
<1>2. CASE send(c, 1, s, lk)
  BY <1>2, sendReplies
<1> QED
  BY <1>1, <1>2 DEF Begin

LEMMA receiveReplies == ASSUME NEW c, receive(c) PROVE Replies(c)
<1>1. CASE Return(c, "ConnectionError") \/ Return(c, "RuntimeError")
  BY <1>1, RaisesReplies
<1>2. CASE Await(c, "reading", writer)
  BY <1>2 DEF Await, Replies
<1> QED
  BY <1>1, <1>2 DEF receive

LEMMA ResultsConfirm ==
    ASSUME NEW c, NEW units, "ok" \in Results(c, units), Op[c] # "SEARCH"
    PROVE  Len(units) = 1 /\ Confirms(c, units[1])
  BY DEF Results

LEMMA closeReplies ==
    ASSUME NEW c, NEW units, close(c, units), Op[c] # "SEARCH" => got'[c] = units
    PROVE  Replies(c)
<1>1. CASE \E r \in Results(c, units) : Return(c, r)
  BY <1>1, ResultsConfirm DEF Replies
<1>2. CASE Await(c, "closing", writer)
  BY <1>2 DEF Await, Replies
<1> QED
  BY <1>1, <1>2 DEF close

LEMMA StepReplies ==
    ASSUME TypeOK, Fresh, NEW c \in Calls,
           Start(c) \/ Continue(c) \/ \E n \in 0 .. Buffered(c) : ReadRecords(c, n)
    PROVE  Advances(c) /\ Replies(c) /\ pc[c] # "done" /\ UNCHANGED <<owed, answered>>
<1>0. frag \in [Calls -> Nat]
  BY DEF TypeOK
<1>1. CASE Start(c)
  <2>1. pc[c] = "idle" /\ frag[c] = 0 /\ UNCHANGED <<owed, answered>>
    BY <1>1 DEF Start, Fresh, server
  <2>2. CASE Begin(c, writer, link)
    BY <2>1, <2>2, BeginReplies
  <2>3. CASE Await(c, "connecting", None) /\ UNCHANGED frag
    BY <2>1, <2>3 DEF Await, Advances, Replies
  <2> QED
    BY <1>1, <2>1, <2>2, <2>3 DEF Start
<1>2. CASE Opened(c)
  <2>1. pc[c] \in {"connecting", "reopening"} /\ UNCHANGED <<owed, answered>>
    BY <1>2 DEF Opened, server
  <2> DEFINE lk == [link EXCEPT ![opened + 1] = "up"]
  <2>2. CASE pc[c] = "connecting" /\ Begin(c, opened + 1, lk)
    BY <2>1, <2>2, BeginReplies DEF Fresh
  <2>3. CASE write(c, frag[c], opened + 1, lk, "redraining")
    BY <1>0, <2>1, <2>3 DEF write, Await, Advances, Replies
  <2> QED
    BY <1>2, <2>1, <2>2, <2>3 DEF Opened
<1>3. CASE Refused(c)
  <2>1. PICK r \in {"PeriplusConnectionError", "ConnectionResetError", "ConnectionError"} : Return(c, r)
    BY <1>3 DEF Refused
  <2>2. r # "ok"
    OBVIOUS
  <2> QED
    BY <1>3, <2>1, <2>2, RaisesReplies DEF Refused, server, Advances
<1>4. CASE Drained(c)
  <2>1. pc[c] \in {"draining", "redraining"} /\ UNCHANGED <<owed, answered>>
    BY <1>4 DEF Drained, server
  <2>2. CASE send(c, frag[c] + 1, writer, link)
    <3>1. frag[c] + 1 \in Nat /\ frag[c] + 1 >= frag[c]
      BY <1>0
    <3> QED
      BY <2>1, <2>2, <3>1, sendReplies
  <2>3. CASE Op[c] = "SEARCH" /\ close(c, <<>>) /\ UNCHANGED frag
    BY <2>1, <2>3, closeReplies DEF Advances
  <2>4. CASE receive(c) /\ UNCHANGED frag
    BY <2>1, <2>4, receiveReplies DEF Advances
  <2> QED
    BY <1>4, <2>2, <2>3, <2>4 DEF Drained
<1>5. CASE Reclose(c)
  BY <1>5 DEF Reclose, Await, server, Advances, Replies
<1>6. CASE RedrainFails(c) \/ ReadFails(c)
  BY <1>6, RaisesReplies DEF RedrainFails, ReadFails, server, Advances
<1>7. CASE WaitClosed(c)
  <2>1. UNCHANGED <<frag, got, owed, answered>> /\ pc[c] # "done"
    BY <1>7 DEF WaitClosed, server
  <2>2. CASE Return(c, "ConnectionResetError")
    BY <2>1, <2>2, RaisesReplies DEF Advances
  <2>3. CASE Await(c, "reopening", None)
    BY <2>1, <2>3 DEF Await, Advances, Replies
  <2>4. CASE \E r \in Results(c, got[c]) : Return(c, r)
    BY <2>1, <2>4, ResultsConfirm DEF Advances, Replies
  <2> QED
    BY <1>7, <2>2, <2>3, <2>4 DEF WaitClosed
<1>8. ASSUME NEW n, ReadText(c, n)
      PROVE  Advances(c) /\ Replies(c) /\ pc[c] # "done" /\ UNCHANGED <<owed, answered>>
  <2>1. PICK units : got' = [got EXCEPT ![c] = units] /\ close(c, units)
    BY <1>8 DEF ReadText
  <2>2. got'[c] = units
    BY <2>1 DEF TypeOK
  <2> QED
    BY <1>8, <2>1, <2>2, closeReplies DEF ReadText, Arrives, server, Advances
<1>9. ASSUME NEW n, ReadRecords(c, n)
      PROVE  Advances(c) /\ Replies(c) /\ pc[c] # "done" /\ UNCHANGED <<owed, answered>>
  <2>1. Op[c] = "SEARCH" /\ pc[c] # "done" /\ UNCHANGED <<frag, owed, answered>>
    BY <1>9 DEF ReadRecords, Arrives, server
  <2>2. \/ \E r \in {"struct.error", "RuntimeError", "UnicodeDecodeError"} : Return(c, r)
        \/ \E units : close(c, units)
        \/ receive(c)
    BY <1>9 DEF ReadRecords
  <2>3. \A r \in {"struct.error", "RuntimeError", "UnicodeDecodeError"} : r # "ok"
    OBVIOUS
  <2>4. Replies(c)
    BY <2>1, <2>2, <2>3, RaisesReplies, closeReplies, receiveReplies
  <2> QED
    BY <2>1, <2>4 DEF Advances
<1> QED
  BY <1>1, <1>2, <1>3, <1>4, <1>5, <1>6, <1>7, <1>8, <1>9 DEF Continue

(* Where the step takes the call. *)
LEMMA StepMoves ==
    ASSUME NEW c \in Calls,
           Start(c) \/ Continue(c) \/ \E n \in 0 .. Buffered(c) : ReadRecords(c, n)
    PROVE  \E places \in SUBSET Places :
              /\ Moves(c, places)
              /\ "idle" \notin places
              /\ "connecting" \in places => pc[c] = "idle" /\ (Moves(c, Sending) \/ UNCHANGED frag)
              /\ pc[c] \in After => places \subseteq After
<1>1. CASE Start(c)
  <2>1. Moves(c, Sending) \/ UNCHANGED frag
    BY <1>1, BeginMoves DEF Start, Sending
  <2>2. Moves(c, {"connecting"} \cup Sending) /\ pc[c] = "idle"
    BY <1>1, StartMoves DEF Start
  <2> QED
    BY <2>1, <2>2 DEF Sending, Places, After
<1>2. CASE Opened(c)
  BY <1>2, OpenedMoves DEF Sending, Places
<1>3. CASE Refused(c)
  BY <1>3, RefusedMoves DEF Places
<1>4. CASE Drained(c)
  <2>1. pc[c] \notin After
    BY <1>4, DrainedMoves
  <2>2. CASE Moves(c, Sending)
    BY <2>1, <2>2 DEF Sending, Places
  <2>3. CASE Moves(c, {"done", "closing"})
    BY <2>1, <2>3 DEF Places
  <2>4. CASE Moves(c, {"done", "reading"})
    BY <2>1, <2>4 DEF Places
  <2> QED
    BY <1>4, <2>2, <2>3, <2>4, DrainedMoves
<1>5. CASE Reclose(c)
  BY <1>5, RecloseMoves DEF Places
<1>6. CASE RedrainFails(c) \/ ReadFails(c)
  BY <1>6, FailsMoves DEF Places, After
<1>7. CASE WaitClosed(c)
  <2>1. CASE Moves(c, {"done"})
    BY <2>1 DEF Places, After
  <2>2. CASE pc[c] = "reclosing" /\ Moves(c, {"done", "reopening"})
    BY <2>2 DEF Places, After
  <2> QED
    BY <1>7, <2>1, <2>2, WaitClosedMoves
<1>8. ASSUME NEW n, ReadText(c, n)
      PROVE  Moves(c, {"done", "closing"})
  BY <1>8, ReadTextMoves
<1>9. ASSUME NEW n, ReadRecords(c, n)
      PROVE  Moves(c, {"done"}) \/ Moves(c, {"done", "closing"}) \/ Moves(c, {"done", "reading"})
  BY <1>9, ReadRecordsMoves
<1>10. \A places \in {{"done"}, {"done", "closing"}, {"done", "reading"}} :
          places \in SUBSET Places /\ "idle" \notin places /\ "connecting" \notin places
          /\ places \subseteq After
  BY DEF Places, After
<1> QED
  BY <1>1, <1>2, <1>3, <1>4, <1>5, <1>6, <1>7, <1>8, <1>9, <1>10 DEF Continue

LEMMA StepPasses ==
    ASSUME TypeOK, Fresh, NEW c \in Calls,
           Start(c) \/ Continue(c) \/ \E n \in 0 .. Buffered(c) : ReadRecords(c, n)
    PROVE  Fresh' /\ \A d \in Calls : Passed(d) => Passed(d)'
<1>1. PICK places \in SUBSET Places :
          /\ Moves(c, places)
          /\ "idle" \notin places
          /\ "connecting" \in places => pc[c] = "idle" /\ (Moves(c, Sending) \/ UNCHANGED frag)
          /\ pc[c] \in After => places \subseteq After
  BY StepMoves
<1>2. pc \in [Calls -> Places] /\ frag \in [Calls -> Nat]
  BY DEF TypeOK
<1>3. Advances(c)
  BY StepReplies
<1>4. pc'[c] \in places /\ \A d \in Calls : d # c => pc'[d] = pc[d] /\ frag'[d] = frag[d]
  BY <1>1, <1>2, <1>3 DEF Moves, Advances
<1>5. frag'[c] \in Nat /\ frag'[c] >= frag[c]
  BY <1>2, <1>3 DEF Advances
<1>6. pc'[c] = "connecting" => frag'[c] = 0
  <2>1. pc'[c] = "connecting" => ~Moves(c, Sending)
    BY <1>2 DEF Moves, Sending
  <2> QED
    BY <1>1, <1>4, <2>1 DEF Fresh
<1>7. Fresh'
  BY <1>1, <1>4, <1>6 DEF Fresh
<1>8. ASSUME NEW d \in Calls, Passed(d) PROVE Passed(d)'
  <2>1. CASE d = c
    BY <1>1, <1>2, <1>4, <1>5, <1>8, <2>1 DEF Passed
  <2>2. CASE d # c
    BY <1>4, <1>8, <2>2 DEF Passed
  <2> QED
    BY <2>1, <2>2
<1> QED
  BY <1>7, <1>8

(* A step of a call returns True only for a confirmation it has read. *)
LEMMA StepReturned ==
    ASSUME TypeOK, Returned, NEW c \in Calls, pc[c] # "done", NEW places, Moves(c, places), Replies(c),
           \A d \in Calls : d # c => got'[d] = got[d]
    PROVE  Returned'
<1>1. pc \in [Calls -> Places] /\ outcome \in [Calls -> Outcomes]
  BY DEF TypeOK
<1>2. \A d \in Calls : d # c => pc'[d] = pc[d] /\ outcome'[d] = outcome[d]
  BY <1>1 DEF Moves, Replies, Return
<1>3. SUFFICES ASSUME NEW d \in Calls, outcome'[d] = "ok", Op[d] # "SEARCH"
               PROVE  pc'[d] = "done" /\ Len(got'[d]) = 1 /\ Confirms(d, got'[d][1])
  BY DEF Returned, Confirmed, Confirms
<1>4. CASE d # c
  BY <1>2, <1>3, <1>4 DEF Returned, Confirmed
<1>5. CASE d = c
  <2>1. ~UNCHANGED outcome
    BY <1>3, <1>5 DEF Returned, Confirmed
  <2> QED
    BY <1>1, <1>3, <1>5, <2>1 DEF Replies, Return
<1> QED
  BY <1>4, <1>5

(* Of the steps of a call only Drained hands a fragment to the server. *)
LEMMA DrainedAsking ==
    ASSUME TypeOK, TypeOK', Fresh, Asking, NEW c \in Calls, Drained(c)
    PROVE  Asking'
<1> DEFINE f == [call |-> c, n |-> frag[c]]
<1>1. /\ \A s \in Sockets : inbox[s] \in Seq(Fragment) /\ Len(inbox[s]) \in Nat /\ Len(inbox'[s]) \in Nat
      /\ inbox \in [Sockets -> Seq(Fragment)]
      /\ frag \in [Calls -> Nat] /\ frag[c] \in Nat /\ Fragments(c) \in Nat \ {0}
      /\ pc \in [Calls -> Places]
  BY FragmentsNat, LenProperties DEF TypeOK
<1>2. Continue(c)
  BY DEF Continue
<1>3. (\A d \in Calls : Passed(d) => Passed(d)') /\ UNCHANGED <<owed, answered>>
  BY <1>2, StepPasses, StepReplies
<1>4. pc[c] \notin After
  BY DrainedMoves
<1>5. \A d \in Calls : f = First(d) => d = c /\ frag[c] = 1 /\ ~Passed(c)
  BY <1>4 DEF First, Passed
<1>6. frag[c] = 1 => Passed(c)'
  <2>1. CASE frag[c] < Fragments(c) /\ send(c, frag[c] + 1, writer, link)
    <3>1. CASE frag' = [frag EXCEPT ![c] = frag[c] + 1]
      BY <1>1, <3>1 DEF Passed
    <3>2. CASE pc' = [pc EXCEPT ![c] = "done"]
      BY <1>1, <3>2 DEF Passed, After
    <3> QED
      BY <2>1, <3>1, <3>2 DEF send, write, Return
  <2>2. CASE Moves(c, {"done", "closing"}) \/ Moves(c, {"done", "reading"})
    BY <1>1, <2>2 DEF Moves, Passed, After
  <2> QED
    BY <2>1, <2>2, closeMoves, receiveMoves DEF Drained
<1>7. UNCHANGED inbox \/ \E s \in Sockets : inbox' = [inbox EXCEPT ![s] = Append(inbox[s], f)]
  BY <1>1 DEF Drained
<1>8. f \in Fragment
  BY <1>1 DEF Fragment
<1> HIDE DEF f
<1>9. /\ \A d \in Calls : Op[d] # "SEARCH" => answered'[d] \in {0, 1} /\ (answered'[d] = 1 => Passed(d)')
      /\ \A s \in Sockets : \A i \in 1 .. Len(owed'[s]) : Op[owed'[s][i]] = "SEARCH"
  BY <1>3 DEF Asking
<1>10. CASE UNCHANGED inbox
  BY <1>3, <1>9, <1>10 DEF Asking, First
<1>11. ASSUME NEW s \in Sockets, inbox' = [inbox EXCEPT ![s] = Append(inbox[s], f)]
       PROVE  Asking'
  <2>1. /\ Len(inbox'[s]) = Len(inbox[s]) + 1
        /\ inbox'[s][Len(inbox[s]) + 1] = f
        /\ \A i \in 1 .. Len(inbox[s]) : inbox'[s][i] = inbox[s][i]
    BY <1>1, <1>8, <1>11, AppendProperties
  <2>2. \A t \in Sockets : t # s => inbox'[t] = inbox[t]
    BY <1>1, <1>11
  <2>3. \A t \in Sockets : \A i \in 1 .. Len(inbox'[t]) :
          \/ i \in 1 .. Len(inbox[t]) /\ inbox'[t][i] = inbox[t][i]
          \/ t = s /\ i = Len(inbox[s]) + 1 /\ inbox'[t][i] = f
    BY <1>1, <2>1, <2>2
  <2>4. ASSUME NEW t \in Sockets, NEW d \in Calls, NEW i \in 1 .. Len(inbox'[t]), inbox'[t][i] = First(d)
        PROVE  Passed(d)' /\ (Op[d] # "SEARCH" => answered'[d] = 0)
    <3>1. CASE i \in 1 .. Len(inbox[t]) /\ inbox'[t][i] = inbox[t][i]
      <4>1. inbox[t][i] = First(d)
        BY <2>4, <3>1
      <4>2. Passed(d) /\ (Op[d] # "SEARCH" => answered[d] = 0)
        BY <3>1, <4>1 DEF Asking
      <4> QED
        BY <1>3, <4>2
    <3>2. CASE inbox'[t][i] = f
      BY <1>3, <1>5, <1>6, <2>4, <3>2 DEF Asking
    <3> QED
      BY <2>3, <3>1, <3>2
  <2>5. ASSUME NEW t \in Sockets, NEW u \in Sockets, NEW d \in Calls,
               NEW i \in 1 .. Len(inbox'[t]), NEW j \in 1 .. Len(inbox'[u]),
               inbox'[t][i] = First(d), inbox'[u][j] = First(d)
        PROVE  t = u /\ i = j
    <3>1. CASE f = First(d)
      <4>1. d = c /\ ~Passed(c)
        BY <1>5, <3>1
      <4>2. \A v \in Sockets : \A k \in 1 .. Len(inbox[v]) : inbox[v][k] # First(d)
        BY <4>1 DEF Asking
      <4>3. t = s /\ i = Len(inbox[s]) + 1
        BY <2>3, <2>5, <4>2, Zenon
      <4>4. u = s /\ j = Len(inbox[s]) + 1
        BY <2>3, <2>5, <4>2, Zenon
      <4> QED
        BY <4>3, <4>4
    <3>2. CASE f # First(d)
      <4>1. /\ i \in 1 .. Len(inbox[t]) /\ inbox[t][i] = First(d)
            /\ j \in 1 .. Len(inbox[u]) /\ inbox[u][j] = First(d)
        BY <2>3, <2>5, <3>2
      <4> QED
        BY <4>1 DEF Asking
    <3> QED
      BY <3>1, <3>2
  <2> QED
    BY <1>9, <2>4, <2>5 DEF Asking, First
<1> QED
  BY <1>7, <1>10, <1>11

LEMMA StepAsking ==
    ASSUME TypeOK, TypeOK', Fresh, Asking, NEW c \in Calls,
           Start(c) \/ Continue(c) \/ \E n \in 0 .. Buffered(c) : ReadRecords(c, n)
    PROVE  Asking'
<1>1. CASE Drained(c)
  BY <1>1, DrainedAsking
<1>2. CASE UNCHANGED inbox
  <2>1. (\A d \in Calls : Passed(d) => Passed(d)') /\ UNCHANGED <<owed, answered>>
    BY StepPasses, StepReplies
  <2> QED
    BY <1>2, <2>1 DEF Asking, First
<1> QED
  BY <1>1, <1>2, StartMoves, OpenedMoves, RefusedMoves, RecloseMoves, FailsMoves, WaitClosedMoves,
     ReadTextMoves, ReadRecordsMoves DEF Continue

(* A read takes units off an outbox, and a call other than a search keeps   *)
(* them.                                                                    *)
LEMMA ReadTextTexts ==
    ASSUME TypeOK, TypeOK', Reading, Texts, NEW c \in Calls, NEW n \in Nat, ReadText(c, n), UNCHANGED answered
    PROVE  Texts'
<1> DEFINE s == mine[c]
           old == outbox[s]
<1>1. /\ s \in Sockets /\ Op[c] # "SEARCH" /\ n \in Nat /\ n <= Len(old)
      /\ outbox' = [outbox EXCEPT ![s] = SubSeq(old, n + 1, Len(old))]
      /\ got' = [got EXCEPT ![c] = SubSeq(old, 1, n)]
  BY ReadingSocket DEF ReadText, Arrives
<1>2. outbox \in [Sockets -> Seq(Unit)] /\ got \in [Calls -> Seq(Unit)]
  BY DEF TypeOK
<1>3. old \in Seq(Unit) /\ Len(old) \in Nat /\ n \in 0 .. Len(old)
  BY <1>1, <1>2, LenProperties
<1>4. /\ \A t \in Sockets : t # s => outbox'[t] = outbox[t]
      /\ \A d \in Calls : d # c => got'[d] = got[d]
  BY <1>1, <1>2
<1>5. /\ Len(outbox'[s]) = Len(old) - n
      /\ \A i \in 1 .. Len(old) - n : outbox'[s][i] = old[i + n]
      /\ Len(got'[c]) = n
      /\ \A i \in 1 .. n : got'[c][i] = old[i]
  BY <1>1, <1>2, <1>3, DropTyped, TakeTyped
<1> HIDE DEF s, old
(* Where a unit was before. *)
<1>6. ASSUME NEW p \in Shelves, NEW i \in 1 .. Len(shelf'[p])
      PROVE  \/ /\ p # <<"out", s>> /\ p # <<"got", c>>
                /\ i \in 1 .. Len(shelf[p]) /\ shelf'[p][i] = shelf[p][i]
             \/ /\ p = <<"out", s>> /\ i \in Nat /\ i > 0
                /\ i + n \in 1 .. Len(old) /\ shelf'[p][i] = old[i + n]
             \/ /\ p = <<"got", c>> /\ i \in Nat /\ i <= n
                /\ i \in 1 .. Len(old) /\ shelf'[p][i] = old[i]
  <2>1. CASE p = <<"out", s>>
    <3>1. shelf'[p] = outbox'[s]
      BY <1>1, <2>1, ShelfOf
    <3> QED
      BY <1>3, <1>5, <1>6, <2>1, <3>1
  <2>2. CASE p = <<"got", c>>
    <3>1. shelf'[p] = got'[c]
      BY <1>1, <2>2, ShelfOf
    <3> QED
      BY <1>3, <1>5, <1>6, <2>2, <3>1
  <2>3. CASE p # <<"out", s>> /\ p # <<"got", c>>
    <3>1. shelf'[p] = shelf[p]
      BY <1>4, <2>3, ShelfOf
    <3> QED
      BY <1>6, <2>3, <3>1
  <2> QED
    BY <2>1, <2>2, <2>3
<1>7. <<"out", s>> \in Shelves /\ shelf[<<"out", s>>] = old
  BY <1>1, ShelfOf DEF old
<1>8. ASSUME NEW p \in Shelves, NEW i \in 1 .. Len(shelf'[p])
      PROVE  \E q \in Shelves : \E k \in 1 .. Len(shelf[q]) :
                /\ shelf'[p][i] = shelf[q][k]
                /\ \/ p # <<"out", s>> /\ p # <<"got", c>> /\ q = p /\ k = i
                   \/ p = <<"out", s>> /\ q = <<"out", s>> /\ i \in Nat /\ i > 0 /\ k = i + n
                   \/ p = <<"got", c>> /\ q = <<"out", s>> /\ i \in Nat /\ i <= n /\ k = i
  <2>1. CASE /\ p # <<"out", s>> /\ p # <<"got", c>>
             /\ i \in 1 .. Len(shelf[p]) /\ shelf'[p][i] = shelf[p][i]
    BY <2>1
  <2>2. CASE /\ p = <<"out", s>> /\ i \in Nat /\ i > 0
             /\ i + n \in 1 .. Len(old) /\ shelf'[p][i] = old[i + n]
    <3>1. PICK k : k = i + n
      OBVIOUS
    <3>2. k \in 1 .. Len(shelf[<<"out", s>>]) /\ shelf'[p][i] = shelf[<<"out", s>>][k]
      BY <1>7, <2>2, <3>1
    <3> QED
      BY <1>7, <2>2, <3>1, <3>2
  <2>3. CASE /\ p = <<"got", c>> /\ i \in Nat /\ i <= n
             /\ i \in 1 .. Len(old) /\ shelf'[p][i] = old[i]
    <3>1. <<"got", c>> # <<"out", s>>
      OBVIOUS
    <3> QED
      BY <1>7, <2>3, <3>1
  <2> QED
    BY <1>6, <2>1, <2>2, <2>3
<1>9. ASSUME NEW p \in Shelves, NEW i \in 1 .. Len(shelf'[p]), shelf'[p][i].part = "text"
      PROVE  IsReplyText(shelf'[p][i], answered')
  <2>1. PICK q \in Shelves : \E k \in 1 .. Len(shelf[q]) : shelf'[p][i] = shelf[q][k]
    BY <1>8
  <2>2. PICK k \in 1 .. Len(shelf[q]) : shelf'[p][i] = shelf[q][k]
    BY <2>1
  <2>3. IsReplyText(shelf[q][k], answered)
    BY <1>9, <2>2 DEF Texts
  <2> QED
    BY <2>2, <2>3
<1>10. ASSUME NEW p \in Shelves, NEW q \in Shelves,
              NEW i \in 1 .. Len(shelf'[p]), NEW j \in 1 .. Len(shelf'[q]),
              shelf'[p][i].part = "text", shelf'[q][j].part = "text", shelf'[p][i].of = shelf'[q][j].of
       PROVE  p = q /\ i = j
  <2>1. PICK a \in Shelves : \E k \in 1 .. Len(shelf[a]) :
                /\ shelf'[p][i] = shelf[a][k]
                /\ \/ p # <<"out", s>> /\ p # <<"got", c>> /\ a = p /\ k = i
                   \/ p = <<"out", s>> /\ a = <<"out", s>> /\ i \in Nat /\ i > 0 /\ k = i + n
                   \/ p = <<"got", c>> /\ a = <<"out", s>> /\ i \in Nat /\ i <= n /\ k = i
    BY <1>8
  <2>2. PICK k \in 1 .. Len(shelf[a]) :
                /\ shelf'[p][i] = shelf[a][k]
                /\ \/ p # <<"out", s>> /\ p # <<"got", c>> /\ a = p /\ k = i
                   \/ p = <<"out", s>> /\ a = <<"out", s>> /\ i \in Nat /\ i > 0 /\ k = i + n
                   \/ p = <<"got", c>> /\ a = <<"out", s>> /\ i \in Nat /\ i <= n /\ k = i
    BY <2>1
  <2>3. PICK b \in Shelves : \E m \in 1 .. Len(shelf[b]) :
                /\ shelf'[q][j] = shelf[b][m]
                /\ \/ q # <<"out", s>> /\ q # <<"got", c>> /\ b = q /\ m = j
                   \/ q = <<"out", s>> /\ b = <<"out", s>> /\ j \in Nat /\ j > 0 /\ m = j + n
                   \/ q = <<"got", c>> /\ b = <<"out", s>> /\ j \in Nat /\ j <= n /\ m = j
    BY <1>8
  <2>4. PICK m \in 1 .. Len(shelf[b]) :
                /\ shelf'[q][j] = shelf[b][m]
                /\ \/ q # <<"out", s>> /\ q # <<"got", c>> /\ b = q /\ m = j
                   \/ q = <<"out", s>> /\ b = <<"out", s>> /\ j \in Nat /\ j > 0 /\ m = j + n
                   \/ q = <<"got", c>> /\ b = <<"out", s>> /\ j \in Nat /\ j <= n /\ m = j
    BY <2>3
  <2>5. a = b /\ k = m
    BY <1>10, <2>2, <2>4 DEF Texts
  <2>6. n \in Nat /\ <<"out", s>> # <<"got", c>>
    OBVIOUS
  <2>7. CASE p # <<"out", s>> /\ p # <<"got", c>>
    BY <2>2, <2>4, <2>5, <2>7
  <2>8. CASE p = <<"out", s>>
    <3>1. a = <<"out", s>> /\ i \in Nat /\ i > 0 /\ k = i + n
      BY <2>2, <2>6, <2>8
    <3>2. CASE q = <<"out", s>>
      <4>1. j \in Nat /\ m = j + n
        BY <2>4, <2>6, <3>2
      <4>2. i + n = j + n
        BY <2>5, <3>1, <4>1
      <4>3. i = j
        BY <2>6, <3>1, <4>1, <4>2
      <4> QED
        BY <2>8, <3>2, <4>3
    <3>3. CASE q # <<"out", s>>
      <4>1. j \in Nat /\ j <= n /\ m = j
        BY <2>4, <2>5, <3>1, <3>3
      <4>2. i + n = j
        BY <2>5, <3>1, <4>1
      <4> QED
        BY <2>6, <3>1, <4>1, <4>2
    <3> QED
      BY <3>2, <3>3
  <2>9. CASE p = <<"got", c>>
    <3>1. a = <<"out", s>> /\ i \in Nat /\ i <= n /\ k = i
      BY <2>2, <2>6, <2>9
    <3>2. CASE q = <<"out", s>>
      <4>1. j \in Nat /\ j > 0 /\ m = j + n
        BY <2>4, <2>6, <3>2
      <4>2. i = j + n
        BY <2>5, <3>1, <4>1
      <4> QED
        BY <2>6, <3>1, <4>1, <4>2
    <3>3. CASE q # <<"out", s>>
      <4>1. j \in Nat /\ m = j /\ q = <<"got", c>>
        BY <2>4, <2>5, <3>1, <3>3
      <4> QED
        BY <2>5, <2>9, <3>1, <4>1
    <3> QED
      BY <3>2, <3>3
  <2> QED
    BY <2>7, <2>8, <2>9
<1> QED
  BY <1>9, <1>10 DEF Texts, IsReplyText, Shelves

LEMMA ReadRecordsFades ==
    ASSUME TypeOK, Reading, NEW c \in Calls, NEW n \in Nat, ReadRecords(c, n)
    PROVE  Fades
<1> DEFINE s == mine[c]
           old == outbox[s]
<1>1. /\ s \in Sockets /\ Op[c] = "SEARCH" /\ n <= Len(old)
      /\ outbox' = [outbox EXCEPT ![s] = SubSeq(old, n + 1, Len(old))]
      /\ got' = [got EXCEPT ![c] = @ \o SubSeq(old, 1, n)]
  BY ReadingSocket DEF ReadRecords, Arrives
<1>2. outbox \in [Sockets -> Seq(Unit)] /\ got \in [Calls -> Seq(Unit)]
  BY DEF TypeOK
<1>3. old \in Seq(Unit) /\ Len(old) \in Nat /\ n \in 0 .. Len(old)
  BY <1>1, <1>2, LenProperties
<1>4. \A d \in Calls : Op[d] # "SEARCH" => got'[d] = got[d]
  BY <1>1, <1>2
<1>5. /\ Len(outbox'[s]) = Len(old) - n
      /\ \A i \in 1 .. Len(old) - n : outbox'[s][i] = old[i + n]
  BY <1>1, <1>2, <1>3, DropTyped
<1>6. ASSUME NEW t \in Sockets PROVE Faded(outbox'[t], outbox[t])
  <2>1. CASE t = s
    <3>1. \A i \in 1 .. Len(outbox'[s]) : i + n \in 1 .. Len(old) /\ outbox'[s][i] = old[i + n]
      BY <1>3, <1>5
    <3> QED
      BY <2>1, <3>1 DEF Faded
  <2>2. CASE t # s
    <3>1. outbox'[t] = outbox[t]
      BY <1>1, <1>2, <2>2
    <3> QED
      BY <1>2, <3>1, SameFaded
  <2> QED
    BY <2>1, <2>2
<1> QED
  BY <1>4, <1>6, FadesParts

LEMMA StepReceipts ==
    ASSUME TypeOK, TypeOK', Reading, Receipts, NEW c \in Calls,
           Start(c) \/ Continue(c) \/ \E n \in 0 .. Buffered(c) : ReadRecords(c, n)
    PROVE  Receipts'
<1>0. Fresh /\ Asking /\ Texts /\ Returned
  BY DEF Receipts
<1>1. Fresh' /\ Asking'
  BY <1>0, StepPasses, StepAsking
<1>2. Replies(c) /\ pc[c] # "done" /\ UNCHANGED answered
  BY <1>0, StepReplies
<1>3. PICK places : Moves(c, places)
  BY StepMoves
<1>4. ShelfTyped /\ ShelfTyped'
  <2>1. \A p \in Shelves : shelf'[p] \in Seq(Unit)
    <3>1. outbox' \in [Sockets -> Seq(Unit)] /\ got' \in [Calls -> Seq(Unit)]
      BY DEF TypeOK
    <3> QED
      BY <3>1, ShelfOf
  <2> QED
    BY <2>1, ShelvesTyped DEF ShelfTyped, Shelves
<1>5. Texts' /\ \A d \in Calls : d # c => got'[d] = got[d]
  <2>1. CASE UNCHANGED <<outbox, got>>
    BY <1>0, <1>2, <1>4, <2>1, SameFades, FadesTexts
  <2>2. ASSUME NEW n \in 0 .. Buffered(c), ReadText(c, n)
        PROVE  Texts' /\ \A d \in Calls : d # c => got'[d] = got[d]
    <3>1. n \in Nat
      BY <2>2, BufferedNat DEF ReadText, Arrives
    <3>2. \A d \in Calls : d # c => got'[d] = got[d]
      BY <2>2 DEF ReadText, TypeOK
    <3> QED
      BY <1>0, <1>2, <2>2, <3>1, <3>2, ReadTextTexts
  <2>3. ASSUME NEW n \in 0 .. Buffered(c), ReadRecords(c, n)
        PROVE  Texts' /\ \A d \in Calls : d # c => got'[d] = got[d]
    <3>1. n \in Nat
      BY <2>3, BufferedNat DEF ReadRecords, Arrives
    <3>2. \A d \in Calls : d # c => got'[d] = got[d]
      BY <2>3 DEF ReadRecords, TypeOK
    <3>3. Fades
      BY <2>3, <3>1, ReadRecordsFades
    <3> QED
      BY <1>0, <1>2, <1>4, <3>2, <3>3, FadesTexts
  <2>4. \/ UNCHANGED <<outbox, got>>
        \/ \E n \in 0 .. Buffered(c) : ReadText(c, n) \/ ReadRecords(c, n)
    BY DEF Continue, Start, Opened, Refused, Drained, Reclose, RedrainFails, WaitClosed, ReadFails, net
  <2> QED
    BY <2>1, <2>2, <2>3, <2>4
<1>6. Returned'
  BY <1>0, <1>2, <1>3, <1>5, StepReturned
<1> QED
  BY <1>1, <1>5, <1>6 DEF Receipts

LEMMA ReceiptsConfirm == ASSUME TypeOK, Receipts PROVE ConfirmedByOne
<1>1. ASSUME NEW c \in Confirmed
      PROVE  /\ c \in Calls
             /\ <<"got", c>> \in Shelves /\ shelf[<<"got", c>>] = got[c]
             /\ Len(got[c]) = 1 /\ got[c] \in Seq(Unit) /\ got[c][1].part = "text"
             /\ Confirms(c, got[c][1]) /\ IsReplyText(got[c][1], answered)
  <2>1. /\ c \in Calls
        /\ <<"got", c>> \in Shelves /\ shelf[<<"got", c>>] = got[c]
        /\ Len(got[c]) = 1 /\ got[c] \in Seq(Unit) /\ Confirms(c, got[c][1])
    BY <1>1, ShelfOf DEF Receipts, Returned, Confirmed, TypeOK
  <2>2. 1 \in 1 .. Len(got[c]) /\ got[c][1].part = "text"
    BY <2>1 DEF Confirms
  <2> QED
    BY <2>1, <2>2 DEF Receipts, Texts
<1>2. ASSUME NEW c \in Confirmed
      PROVE  \E d \in Calls : Op[d] = Op[c] /\ answered[d] = 1 /\ got[c] = <<TextUnit(d, 1)>>
  <2>1. PICK u : u = got[c][1]
    OBVIOUS
  <2>0. got[c] \in Seq(Unit) /\ Len(got[c]) = 1
    BY <1>1
  <2>2. u \in Unit
    <3>1. 1 \in 1 .. Len(got[c])
      BY <2>0
    <3> QED
      BY <2>0, <2>1, <3>1, ElementOfSeq
  <2>3. u.of \in Calls
    BY <2>2 DEF Unit
  <2>4. Op[u.of] = Op[c] /\ u.n = 1 /\ answered[u.of] = 1 /\ u = TextUnit(u.of, 1)
    BY <1>1, <2>1 DEF Confirms, IsReplyText
  <2>5. got[c] = <<u>>
    <3>1. <<u>> \in Seq(Unit) /\ Len(<<u>>) = 1 /\ <<u>>[1] = u
      BY <2>2
    <3>2. \A i \in 1 .. Len(got[c]) : got[c][i] = <<u>>[i]
      BY <2>0, <2>1, <3>1
    <3> QED
      BY <2>0, <3>1, <3>2, SeqEqual
  <2> QED
    BY <2>3, <2>4, <2>5
<1>3. ASSUME NEW c \in Confirmed, NEW d \in Confirmed \ {c}, got[c] = got[d]
      PROVE  FALSE
  <2>1. /\ <<"got", c>> \in Shelves /\ shelf[<<"got", c>>] = got[c]
        /\ <<"got", d>> \in Shelves /\ shelf[<<"got", d>>] = got[d]
        /\ 1 \in 1 .. Len(got[c]) /\ 1 \in 1 .. Len(got[d])
        /\ got[c][1].part = "text" /\ got[d][1].part = "text"
    BY <1>1
  <2>2. <<"got", c>> = <<"got", d>>
    BY <1>3, <2>1 DEF Receipts, Texts
  <2> QED
    BY <2>2
<1> QED
  BY <1>2, <1>3 DEF ConfirmedByOne

(* Whatever coroutines do to each other's connection, whatever is lost and  *)
(* sent again: a call that returns True has read a confirmation of its      *)
(* command, which was sent, and which no other call returns True for.       *)
THEOREM ConfirmationsAreOwn == Spec => []ConfirmedByOne
<1>1. Init => TypeOK /\ Reading /\ Receipts
  <2> SUFFICES ASSUME Init PROVE TypeOK /\ Reading /\ Receipts
    OBVIOUS
  <2>1. \A c \in Calls : pc[c] = "idle"
    BY DEF Init
  <2> QED
    BY <2>1, InitTyped, InitReceipts DEF Reading
<1>2. TypeOK /\ Reading /\ Receipts /\ [Next]_vars => TypeOK' /\ Reading' /\ Receipts'
  <2> SUFFICES ASSUME TypeOK, Reading, Receipts, [Next]_vars PROVE TypeOK' /\ Reading' /\ Receipts'
    OBVIOUS
  <2>1. CASE World
    <3>1. TypeOK' /\ UNCHANGED call
      BY <2>1, WorldSteps
    <3> QED
      BY <2>1, <3>1, WorldReceipts DEF Reading, call
  <2>2. ASSUME NEW c \in Calls,
               Start(c) \/ Continue(c) \/ \E n \in 0 .. Buffered(c) : ReadRecords(c, n)
        PROVE  TypeOK' /\ Reading' /\ Receipts'
    <3>1. TypeOK' /\ Reading'
      BY <2>2, CallSteps
    <3> QED
      BY <2>2, <3>1, StepReceipts
  <2>3. CASE UNCHANGED vars
    <3>1. TypeOK' /\ Reading'
      BY <2>3 DEF TypeOK, Reading, vars, conn, net, call, server
    <3>2. UNCHANGED <<inbox, outbox, call, answered, owed>>
      BY <2>3 DEF vars, net, server
    <3>3. UNCHANGED <<outbox, got>>
      BY <3>2 DEF call
    <3> QED
      BY <3>1, <3>2, <3>3, SameShrinks, SameFades, SameOwed
  <2> QED
    BY <2>1, <2>2, <2>3 DEF Next
<1>3. TypeOK /\ Receipts => ConfirmedByOne
  BY ReceiptsConfirm
<1> QED
  BY <1>1, <1>2, <1>3, PTL DEF Spec
=============================================================================
