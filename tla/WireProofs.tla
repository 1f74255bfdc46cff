------------------------------ MODULE WireProofs ------------------------------
(***************************************************************************)
(* Theorems about Wire, for any calls, results and buffer sizes.  Three    *)
(* inductive invariants: Received, of the request and the session that     *)
(* reads it; Written, of the reply and the output buffer; and Reading, of  *)
(* the reply and the client that reads it.                                 *)
(***************************************************************************)
EXTENDS WireFacts, WireRefinement

-----------------------------------------------------------------------------
(* The session has what the client sent, in whatever segments *)

(* Where the session waits, what it has and what is on the wire are the     *)
(* rest of the message; where it has answered, nothing is left.             *)
Received ==
    /\ call \in Calls
    /\ phase \in {"line", "static", "dynamic", "reply", "done", "terminated"}
    /\ phase = "line" => wire = Message(call)
    /\ phase = "static" =>
          /\ input \in Seq(Byte) /\ wire \in Seq(Byte) /\ input \o wire = Rest(call)
          /\ Len(input) < static_size[call.command]
    /\ phase = "dynamic" =>
          /\ input \in Seq(Byte) /\ wire \in Seq(Byte) /\ input \o wire = Body(call)
          /\ args = Args(call) /\ Len(input) < Args(call).size + 2
    /\ phase \in {"reply", "done"} =>
          args = Args(call) /\ data = Dynamic(call) /\ input = <<>> /\ wire = <<>>

LEMMA CutTail ==
    ASSUME NEW s \in Seq(Byte), NEW t \in Seq(Byte), NEW n \in Nat, n <= Len(s)
    PROVE  /\ SubSeq(s, n + 1, Len(s)) \in Seq(Byte) /\ Len(SubSeq(s, n + 1, Len(s))) = Len(s) - n
           /\ SubSeq(s, n + 1, Len(s)) \o t = SubSeq(s \o t, n + 1, Len(s \o t))
<1> DEFINE q == SubSeq(s, n + 1, Len(s))
<1> DEFINE u == s \o t
<1> DEFINE r == SubSeq(u, n + 1, Len(u))
<1>1. Len(s) \in Nat /\ Len(t) \in Nat
  BY LenProperties
<1>2. q \in Seq(Byte) /\ Len(q) = Len(s) - n /\ \A i \in 1 .. Len(s) - n : q[i] = s[n + i]
  BY <1>1
<1>3. /\ u \in Seq(Byte) /\ Len(u) = Len(s) + Len(t)
      /\ \A i \in 1 .. Len(u) : u[i] = IF i <= Len(s) THEN s[i] ELSE t[i - Len(s)]
  BY <1>1, ConcatProperties
<1> HIDE DEF q, u
<1>4. r \in Seq(Byte) /\ Len(r) = Len(u) - n /\ \A i \in 1 .. Len(u) - n : r[i] = u[n + i]
  BY <1>1, <1>3
<1>5. /\ q \o t \in Seq(Byte) /\ Len(q \o t) = Len(u) - n
      /\ \A i \in 1 .. Len(u) - n : (q \o t)[i] = IF i <= Len(q) THEN q[i] ELSE t[i - Len(q)]
  <2>1. /\ q \o t \in Seq(Byte) /\ Len(q \o t) = Len(q) + Len(t)
        /\ \A i \in 1 .. Len(q) + Len(t) : (q \o t)[i] = IF i <= Len(q) THEN q[i] ELSE t[i - Len(q)]
    BY <1>2, ConcatProperties
  <2>2. Len(q) + Len(t) = Len(u) - n
    BY <1>1, <1>2, <1>3
  <2> QED
    BY <2>1, <2>2
<1>6. ASSUME NEW i \in 1 .. Len(u) - n PROVE (q \o t)[i] = r[i]
  <2>1. n + i \in 1 .. Len(u) /\ i \in Nat
    BY <1>1, <1>3
  <2>2. r[i] = IF n + i <= Len(s) THEN s[n + i] ELSE t[n + i - Len(s)]
    BY <1>3, <1>4, <2>1
  <2>3. CASE n + i <= Len(s)
    <3>1. i \in 1 .. Len(s) - n
      BY <1>1, <2>1, <2>3
    <3> QED
      BY <1>2, <1>5, <2>2, <2>3, <3>1
  <2>4. CASE ~(n + i <= Len(s))
    <3>1. ~(i <= Len(q)) /\ n + i - Len(s) = i - Len(q)
      BY <1>1, <1>2, <2>1, <2>4
    <3> QED
      BY <1>5, <2>2, <2>4, <3>1
  <2> QED
    BY <2>3, <2>4
<1> DEFINE v == q \o t
<1> HIDE DEF r, v
<1>7. v = r
  <2>1. v \in Seq(Byte) /\ Len(v) = Len(r) /\ Len(r) = Len(u) - n /\ \A i \in 1 .. Len(u) - n : v[i] = r[i]
    BY <1>4, <1>5, <1>6 DEF v
  <2>2. \A i \in 1 .. Len(v) : v[i] = r[i]
    BY <2>1
  <2> QED
    BY <1>4, <2>1, <2>2, SeqEqual
<1> QED
  BY <1>2, <1>7 DEF q, u, r, v

(* A read takes the first bytes of the wire after those at hand. *)
LEMMA TakeMore ==
    ASSUME NEW s \in Seq(Byte), NEW t \in Seq(Byte), NEW n \in Nat, n <= Len(t)
    PROVE  /\ s \o SubSeq(t, 1, n) \in Seq(Byte) /\ SubSeq(t, n + 1, Len(t)) \in Seq(Byte)
           /\ Len(s \o SubSeq(t, 1, n)) = Len(s) + n
           /\ (s \o SubSeq(t, 1, n)) \o SubSeq(t, n + 1, Len(t)) = s \o t
<1> DEFINE a == SubSeq(t, 1, n)
<1> DEFINE b == SubSeq(t, n + 1, Len(t))
<1>1. a \in Seq(Byte) /\ b \in Seq(Byte) /\ Len(a) = n
  BY LenProperties
<1>2. a \o b = t
  <2>1. 1 \in 1 .. Len(t) + 1 /\ n \in 1 - 1 .. Len(t) /\ Len(t) \in n .. Len(t)
    BY LenProperties
  <2>2. SubSeq(t, 1, n) \o SubSeq(t, n + 1, Len(t)) = SubSeq(t, 1, Len(t))
    BY <2>1, ConcatAdjacentSubSeq
  <2> QED
    BY <2>2, SubSeqFull
<1> HIDE DEF a, b
<1>3. (s \o a) \o b = s \o (a \o b)
  <2>1. Regroups(s, a, b)
    BY <1>1, Regroup, Zenon
  <2> QED
    BY <2>1 DEF Regroups
<1>4. s \o a \in Seq(Byte) /\ Len(s \o a) = Len(s) + n
  BY <1>1, ConcatProperties
<1> QED
  BY <1>1, <1>2, <1>3, <1>4 DEF a, b

LEMMA StaticSizes ==
    ASSUME NEW command \in Commands
    PROVE  /\ static_size[command] \in Nat /\ StaticLength(command) \in Nat
           /\ static_size[command] <= StaticLength(command)
           /\ static_size[command] < StaticLength(command) => command = "ADD"
<1>1. /\ static_size["INITIALIZE"] = 34 /\ static_size["TRAIN"] = 9 /\ static_size["ADD"] = 9
      /\ static_size["LOAD"] = 17 /\ static_size["SEARCH"] = 34 /\ static_size["EVICT"] = 17
  BY DEF static_size
<1> QED
  BY <1>1, OffsetTable DEF Commands

LEMMA MessageRest ==
    ASSUME NEW p \in Calls
    PROVE  /\ p.command \in Commands /\ Whole(p) /\ StaticLength(p.command) \in Nat /\ Args(p).size \in Nat
           /\ Message(p) \in Seq(Byte) /\ Rest(p) \in Seq(Byte) /\ Body(p) \in Seq(Byte)
           /\ Len(Message(p)) > 0
           /\ Len(Rest(p)) = StaticLength(p.command) + Args(p).size + 2
           /\ Len(Body(p)) = Args(p).size + 2
           /\ Body(p) = SubSeq(Rest(p), StaticLength(p.command) + 1, Len(Rest(p)))
<1> DEFINE m == Message(p)
<1> DEFINE k == StaticLength(p.command)
<1> DEFINE size == Args(p).size
<1>1. p.command \in Commands /\ Whole(p) /\ k \in Nat
  BY CommandsUnderstood, StaticSizes DEF Understood
<1>2. m \in Seq(Byte) /\ size \in Nat /\ Len(m) = k + 1 + size + 2
  BY <1>1 DEF Whole
<1>3. Rest(p) = SubSeq(m, 2, Len(m)) /\ Body(p) = SubSeq(m, k + 2, Len(m))
  BY DEF Rest, Body
<1> HIDE DEF m, k, size
<1>4. /\ Rest(p) \in Seq(Byte) /\ Len(Rest(p)) = k + size + 2
      /\ \A i \in 1 .. k + size + 2 : Rest(p)[i] = m[i + 1]
  BY <1>1, <1>2, <1>3
<1>5. /\ Body(p) \in Seq(Byte) /\ Len(Body(p)) = size + 2
      /\ \A i \in 1 .. size + 2 : Body(p)[i] = m[k + i + 1]
  BY <1>1, <1>2, <1>3
<1> DEFINE r == Rest(p)
<1> DEFINE b == SubSeq(r, k + 1, Len(r))
<1>6. b \in Seq(Byte) /\ Len(b) = size + 2 /\ \A i \in 1 .. size + 2 : b[i] = m[k + i + 1]
  <2>1. r \in Seq(Byte) /\ Len(r) = k + size + 2 /\ \A i \in 1 .. k + size + 2 : r[i] = m[i + 1]
    BY <1>4
  <2> HIDE DEF r
  <2>2. b \in Seq(Byte) /\ Len(b) = size + 2 /\ \A i \in 1 .. size + 2 : b[i] = r[k + i]
    BY <1>1, <1>2, <2>1
  <2>3. \A i \in 1 .. size + 2 : k + i \in 1 .. k + size + 2 /\ k + i + 1 = (k + i) + 1
    BY <1>1, <1>2
  <2> HIDE DEF b
  <2> QED
    BY <2>1, <2>2, <2>3
<1>7. Body(p) = b
  <2> HIDE DEF b
  <2>1. \A i \in 1 .. Len(b) : Body(p)[i] = b[i]
    BY <1>5, <1>6
  <2> QED
    BY <1>5, <1>6, <2>1, SeqEqual
<1>8. Len(m) > 0
  BY <1>1, <1>2
<1>9. /\ m \in Seq(Byte) /\ Rest(p) \in Seq(Byte) /\ Body(p) \in Seq(Byte)
      /\ Len(Rest(p)) = k + size + 2 /\ Len(Body(p)) = size + 2
  BY <1>2, <1>4, <1>5
<1>10. Body(p) = SubSeq(Rest(p), k + 1, Len(Rest(p)))
  BY <1>7
<1>11. p.command \in Commands /\ Whole(p) /\ k \in Nat /\ size \in Nat
  BY <1>1, <1>2
<1> QED
  BY <1>8, <1>9, <1>10, <1>11 DEF m, k, size

LEMMA DynamicReceived ==
    ASSUME call \in Calls, call' = call, NEW s \in Seq(Byte), wire' \in Seq(Byte), s \o wire' = Body(call),
           args' = Args(call), read_dynamic_args(Args(call), s)
    PROVE  Received'
<1> DEFINE n == Args(call).size + 2
<1>1. Args(call).size \in Nat /\ Len(Body(call)) = n
  BY MessageRest
<1>2. /\ Args(call)' = Args(call) /\ Body(call)' = Body(call) /\ Dynamic(call)' = Dynamic(call)
      /\ call' \in Calls
  OBVIOUS
<1>3. CASE Len(s) >= n
  <2>1. Len(s) + Len(wire') = n /\ Len(s) \in Nat /\ Len(wire') \in Nat
    <3>1. Len(s \o wire') = Len(s) + Len(wire')
      BY ConcatProperties
    <3> QED
      BY <1>1, <3>1, LenProperties
  <2>2. Len(wire') = 0 /\ Len(s) = n
    BY <1>1, <1>3, <2>1
  <2>3. wire' = <<>>
    BY <2>2, EmptySeq
  <2>4. s = Body(call)
    <3>1. s \o <<>> = s
      BY ConcatEmptySeq
    <3> QED
      BY <2>3, <3>1
  <2>5. input' = <<>>
    <3>1. input' = SubSeq(s, n + 1, Len(s))
      BY <1>3 DEF read_dynamic_args
    <3> QED
      BY <1>1, <2>2, <3>1, SubSeqEmpty
  <2>6. phase' = "reply" /\ data' = DynamicArgs(call.command, Args(call), s)
    BY <1>3 DEF read_dynamic_args, process_args
  <2>7. data' = Dynamic(call)
    BY <2>4, <2>6 DEF Dynamic
  <2> QED
    BY <1>2, <2>3, <2>5, <2>6, <2>7 DEF Received
<1>4. CASE ~(Len(s) >= n)
  <2>1. input' = s /\ phase' = "dynamic"
    BY <1>4 DEF read_dynamic_args
  <2>2. Len(s) < n
    BY <1>1, <1>4, LenProperties
  <2> QED
    BY <1>2, <2>1, <2>2 DEF Received
<1> QED
  BY <1>3, <1>4

LEMMA StaticReceived ==
    ASSUME call \in Calls, call' = call, NEW s \in Seq(Byte), wire' \in Seq(Byte), s \o wire' = Rest(call),
           deserialize_static(s)
    PROVE  Received'
<1> DEFINE n == StaticLength(call.command)
<1> DEFINE u == SubSeq(s, n + 1, Len(s))
<1>1. /\ call.command \in Commands /\ n \in Nat /\ Rest(call) \in Seq(Byte)
      /\ Body(call) = SubSeq(Rest(call), n + 1, Len(Rest(call)))
  BY MessageRest
<1>2. CASE Len(s) >= n
  <2>1. args' = StaticArgs(call.command, s)
    BY <1>2 DEF deserialize_static
  <2>2. StaticArgs(call.command, s \o wire') = StaticArgs(call.command, s)
    BY <1>1, <1>2, StaticOfPrefix
  <2>3. args' = Args(call)
    BY <2>1, <2>2 DEF Args
  <2>4. read_dynamic_args(Args(call), u)
    BY <1>2, <2>3 DEF deserialize_static
  <2>5. u \in Seq(Byte) /\ u \o wire' = Body(call)
    <3>1. n <= Len(s)
      BY <1>1, <1>2, LenProperties
    <3> HIDE DEF n
    <3>2. u \in Seq(Byte) /\ u \o wire' = SubSeq(s \o wire', n + 1, Len(s \o wire'))
      BY <1>1, <3>1, CutTail
    <3> QED
      BY <1>1, <3>2 DEF n
  <2> HIDE DEF u
  <2> QED
    BY <2>3, <2>4, <2>5, DynamicReceived
<1>3. CASE ~(Len(s) >= n)
  <2>1. phase' = "terminated"
    BY <1>3 DEF deserialize_static, Terminate
  <2> QED
    BY <2>1 DEF Received
<1> QED
  BY <1>2, <1>3

LEMMA ReadLineReceived ==
    ASSUME Received, NEW more \in 0 .. Len(wire) - 1, ReadLine(more)
    PROVE  Received'
<1> DEFINE m == Message(call)
<1> DEFINE s == SubSeq(m, 2, more + 1)
<1>1. phase = "line" /\ wire = m /\ call \in Calls /\ call' = call
  BY DEF Received, ReadLine
<1>2. /\ m \in Seq(Byte) /\ Rest(call) \in Seq(Byte) /\ call.command \in Commands
      /\ Rest(call) = SubSeq(m, 2, Len(m))
  BY <1>1, MessageRest DEF Rest
<1>3. more \in 0 .. Len(m) - 1 /\ wire' = SubSeq(m, more + 2, Len(m))
  BY <1>1 DEF ReadLine
<1>4. IF Len(s) >= static_size[call.command]
      THEN deserialize_static(s)
      ELSE input' = s /\ phase' = "static"
  BY <1>1 DEF ReadLine
<1> HIDE DEF m
<1>5. s \in Seq(Byte) /\ wire' \in Seq(Byte) /\ s \o wire' = Rest(call)
  <2>1. Len(m) \in Nat
    BY <1>2, LenProperties
  <2>2. s \in Seq(Byte) /\ wire' \in Seq(Byte)
    BY <1>2, <1>3, <2>1
  <2>3. 2 \in 1 .. Len(m) + 1 /\ more + 1 \in 2 - 1 .. Len(m) /\ Len(m) \in more + 1 .. Len(m) /\ more + 1 + 1 = more + 2
    BY <1>3, <2>1
  <2>4. SubSeq(m, 2, more + 1) \o SubSeq(m, more + 1 + 1, Len(m)) = SubSeq(m, 2, Len(m))
    BY <1>2, <2>3, ConcatAdjacentSubSeq
  <2> QED
    BY <1>2, <1>3, <2>2, <2>3, <2>4
<1> HIDE DEF s
<1>6. CASE Len(s) >= static_size[call.command]
  BY <1>1, <1>4, <1>5, <1>6, StaticReceived
<1>7. CASE ~(Len(s) >= static_size[call.command])
  <2>1. Len(s) < static_size[call.command]
    BY <1>2, <1>5, <1>7, LenProperties, StaticSizes
  <2>2. Rest(call)' = Rest(call) /\ static_size[call.command]' = static_size[call.command] /\ call' \in Calls
    BY <1>1
  <2>3. input' = s /\ phase' = "static"
    BY <1>4, <1>7
  <2> QED
    BY <1>1, <1>5, <2>1, <2>2, <2>3 DEF Received
<1> QED
  BY <1>6, <1>7

LEMMA ReadStaticReceived ==
    ASSUME Received, ReadStatic
    PROVE  Received'
<1> DEFINE n == static_size[call.command] - Len(input)
<1> DEFINE s == input \o SubSeq(wire, 1, n)
<1>1. call \in Calls /\ call' = call /\ phase = "static"
  BY DEF Received, ReadStatic
<1>2. /\ input \in Seq(Byte) /\ wire \in Seq(Byte) /\ input \o wire = Rest(call)
      /\ Len(input) < static_size[call.command]
  BY <1>1 DEF Received
<1>3. Len(wire) >= n /\ wire' = SubSeq(wire, n + 1, Len(wire)) /\ (deserialize_static(s) \/ Terminate(s))
  BY DEF ReadStatic
<1>4. n \in Nat /\ Len(input) + n = static_size[call.command]
  <2>1. Len(input) \in Nat
    BY <1>2, LenProperties
  <2>2. static_size[call.command] \in Nat
    BY <1>1, MessageRest, StaticSizes
  <2> QED
    BY <1>2, <2>1, <2>2
<1>5. n <= Len(wire)
  BY <1>2, <1>3, <1>4, LenProperties
<1> HIDE DEF n
<1>6. /\ s \in Seq(Byte) /\ wire' \in Seq(Byte) /\ Len(s) = Len(input) + n
      /\ s \o wire' = Rest(call)
  BY <1>2, <1>3, <1>4, <1>5, TakeMore
<1> HIDE DEF s
<1>7. CASE deserialize_static(s)
  BY <1>1, <1>6, <1>7, StaticReceived
<1>8. CASE Terminate(s)
  <2>1. phase' = "terminated"
    BY <1>8 DEF Terminate
  <2> QED
    BY <1>1, <2>1 DEF Received
<1> QED
  BY <1>3, <1>7, <1>8

LEMMA ReadDynamicReceived ==
    ASSUME Received, ReadDynamic
    PROVE  Received'
<1> DEFINE n == args.size + 2 - Len(input)
<1> DEFINE s == input \o SubSeq(wire, 1, n)
<1>1. call \in Calls /\ call' = call /\ phase = "dynamic" /\ args' = args
  BY DEF Received, ReadDynamic
<1>2. /\ input \in Seq(Byte) /\ wire \in Seq(Byte) /\ input \o wire = Body(call)
      /\ args = Args(call) /\ Len(input) < Args(call).size + 2
  BY <1>1 DEF Received
<1>3. Len(wire) >= n /\ wire' = SubSeq(wire, n + 1, Len(wire)) /\ read_dynamic_args(args, s)
  BY DEF ReadDynamic
<1>4. n \in Nat
  <2>1. Len(input) \in Nat
    BY <1>2, LenProperties
  <2>2. Args(call).size \in Nat
    BY <1>1, MessageRest
  <2> QED
    BY <1>2, <2>1, <2>2
<1>5. n <= Len(wire)
  BY <1>2, <1>3, <1>4, LenProperties
<1> HIDE DEF n
<1>6. s \in Seq(Byte) /\ wire' \in Seq(Byte) /\ s \o wire' = Body(call)
  BY <1>2, <1>3, <1>4, <1>5, TakeMore
<1> HIDE DEF s
<1> QED
  BY <1>1, <1>2, <1>3, <1>6, DynamicReceived

(* The other steps leave the request alone, but for the end of the reply. *)
LEMMA OthersReceived ==
    ASSUME Received, UNCHANGED request, phase' = phase \/ (phase = "reply" /\ phase' = "done")
    PROVE  Received'
<1>1. /\ call' = call /\ wire' = wire /\ input' = input /\ args' = args /\ data' = data
  BY DEF request
<1>2. CASE phase' = phase
  BY <1>1, <1>2 DEF Received
<1>3. CASE phase = "reply" /\ phase' = "done"
  BY <1>1, <1>3 DEF Received
<1> QED
  BY <1>2, <1>3

LEMMA ReceivedInit == Init => Received
  BY DEF Init, Received

LEMMA ReceivedStep ==
    ASSUME Received, [Next]_vars
    PROVE  Received'
<1>1. ASSUME NEW more \in 0 .. Len(wire) - 1, ReadLine(more) PROVE Received'
  BY <1>1, ReadLineReceived
<1>2. CASE ReadStatic
  BY <1>2, ReadStaticReceived
<1>3. CASE ReadDynamic
  BY <1>3, ReadDynamicReceived
<1>4. CASE WriteText
  BY <1>4, OthersReceived DEF WriteText
<1>5. CASE WriteSearch
  BY <1>5, OthersReceived DEF WriteSearch
<1>6. CASE SearchDone
  BY <1>6, OthersReceived DEF SearchDone
<1>7. ASSUME NEW n \in 1 .. Len(sent), ReadText(n) PROVE Received'
  BY <1>7, OthersReceived DEF ReadText
<1>8. ASSUME NEW n \in 1 .. Len(sent), ReadNumber(n) PROVE Received'
  BY <1>8, OthersReceived DEF ReadNumber
<1>9. ASSUME NEW n \in 1 .. Len(sent), ReadBody(n) PROVE Received'
  BY <1>9, OthersReceived DEF ReadBody
<1>10. CASE ReturnResults
  BY <1>10, OthersReceived DEF ReturnResults
<1>11. CASE UNCHANGED vars
  BY <1>11, OthersReceived DEF vars
<1> QED
  BY <1>1, <1>2, <1>3, <1>4, <1>5, <1>6, <1>7, <1>8, <1>9, <1>10, <1>11 DEF Next, Server, Client

LEMMA ReceivedReadBack ==
    ASSUME Received
    PROVE  ArgsReadBack
<1>1. ASSUME phase \in {"reply", "done"} PROVE Meant(call) /\ input = <<>> /\ wire = <<>>
  <2>1. call \in Calls /\ args = Args(call) /\ data = Dynamic(call) /\ input = <<>> /\ wire = <<>>
    BY <1>1 DEF Received
  <2> QED
    BY <2>1, CommandsUnderstood DEF Understood
<1> QED
  BY <1>1 DEF ArgsReadBack

(* ArgsReadBack: however the stream is cut, read_command, read_args and the *)
(* Args structs give a handler the arguments its caller meant, and take     *)
(* nothing of the next command.                                             *)
THEOREM ArgumentsReadBack == Spec => []ArgsReadBack
<1>1. Init => Received
  BY ReceivedInit
<1>2. Received /\ [Next]_vars => Received'
  BY ReceivedStep
<1>3. Received => ArgsReadBack
  BY ReceivedReadBack
<1> QED
  BY <1>1, <1>2, <1>3, PTL DEF Spec

-----------------------------------------------------------------------------
(* The pieces of the reply, and the fields the client reads in them *)

Record == [id : Nat, embedding : Nat, document : Nat, metadata : Nat]
Query == [hit : BOOLEAN, records : Seq(Record)]

(* The four members of a record: their length and their bytes. *)
LengthItem == <<"id_len", "embedding_len", "document_len", "metadata_len">>
LengthOf(r, k) == <<r.id, r.embedding, r.document, r.metadata>>[k]
Contents(r) ==
    <<Bytes("id", "id", r.id), Floats(r.embedding),
      Bytes("document", "document", r.document), Bytes("metadata", "metadata", r.metadata)>>
FieldBytes(r) == [k \in 1 .. 4 |-> Number(LengthItem[k], LengthOf(r, k)) \o Contents(r)[k]]

(* What follows the first i of the sequences X. *)
After(X, i) == FlattenSeq(SubSeq(X, i + 1, Len(X)))

LEMMA AfterNext ==
    ASSUME NEW S, NEW X \in Seq(Seq(S)), NEW i \in Nat, i < Len(X)
    PROVE  After(X, i) = X[i + 1] \o After(X, i + 1) /\ X[i + 1] \in Seq(S)
<1> DEFINE k == i + 1
<1>1. k \in 1 .. Len(X) /\ k = i + 1
  BY LenProperties
<1> HIDE DEF k
<1>2. FlattenSeq(SubSeq(X, k, Len(X))) = X[k] \o FlattenSeq(SubSeq(X, k + 1, Len(X)))
  BY <1>1, FlattenSplit
<1>3. X[k] \in Seq(S)
  BY <1>1, ElementOfSeq
<1> QED
  BY <1>1, <1>2, <1>3 DEF After

LEMMA AfterType ==
    ASSUME NEW S, NEW X \in Seq(Seq(S)), NEW i \in Nat
    PROVE  After(X, i) \in Seq(S)
<1>1. SubSeq(X, i + 1, Len(X)) \in Seq(Seq(S))
  BY LenProperties
<1> QED
  BY <1>1, FlattenType DEF After

LEMMA AfterEnds ==
    ASSUME NEW S, NEW X \in Seq(Seq(S))
    PROVE  After(X, Len(X)) = <<>> /\ After(X, 0) = FlattenSeq(X)
<1>1. SubSeq(X, Len(X) + 1, Len(X)) = <<>>
  BY LenProperties, SubSeqEmpty
<1>2. FlattenSeq(SubSeq(X, Len(X) + 1, Len(X))) = <<>>
  BY <1>1, FlattenEmpty, Zenon
<1>3. SubSeq(X, 1, Len(X)) = X /\ 0 + 1 = 1
  BY SubSeqFull
<1>4. SubSeq(X, 0 + 1, Len(X)) = X
  BY <1>3
<1> QED
  BY <1>2, <1>4, Zenon DEF After

LEMMA FlattenFlatten ==
    ASSUME NEW S, NEW s \in Seq(Seq(Seq(S))), NEW t \in Seq(Seq(S)), Len(t) = Len(s),
           \A i \in 1 .. Len(s) : t[i] = FlattenSeq(s[i])
    PROVE  FlattenSeq(FlattenSeq(s)) = FlattenSeq(t)
<1> DEFINE n == Len(s)
<1> DEFINE T == {i \in Nat : i <= n => FlattenSeq(FlattenSeq(SubSeq(s, 1, i))) = FlattenSeq(SubSeq(t, 1, i))}
<1>1. n \in Nat /\ Len(t) = n
  BY LenProperties
<1>2. 0 \in T
  <2>1. SubSeq(s, 1, 0) = <<>> /\ SubSeq(t, 1, 0) = <<>>
    BY SubSeqEmpty
  <2>2. FlattenSeq(SubSeq(s, 1, 0)) = <<>> /\ FlattenSeq(SubSeq(t, 1, 0)) = <<>>
    BY <2>1, FlattenEmpty, Zenon
  <2>3. FlattenSeq(FlattenSeq(SubSeq(s, 1, 0))) = FlattenSeq(SubSeq(t, 1, 0))
    BY <2>2, FlattenEmpty, Zenon
  <2> QED
    BY <2>3
<1>3. ASSUME NEW i \in T PROVE i + 1 \in T
  <2> SUFFICES ASSUME i + 1 <= n PROVE FlattenSeq(FlattenSeq(SubSeq(s, 1, i + 1))) = FlattenSeq(SubSeq(t, 1, i + 1))
    OBVIOUS
  <2> DEFINE k == i + 1
  <2>1. i \in Nat /\ i <= n /\ k \in 1 .. n /\ k - 1 = i
    BY <1>1
  <2>2. FlattenSeq(FlattenSeq(SubSeq(s, 1, i))) = FlattenSeq(SubSeq(t, 1, i))
    BY <2>1
  <2> HIDE DEF T, k
  <2> DEFINE before == FlattenSeq(SubSeq(s, 1, i))
  <2>3. FlattenSeq(SubSeq(s, 1, k)) = before \o s[k] /\ before \in Seq(Seq(S))
    <3>1. k \in 1 .. Len(s)
      BY <2>1 DEF n
    <3>2. /\ FlattenSeq(SubSeq(s, 1, k - 1)) \in Seq(Seq(S))
          /\ FlattenSeq(SubSeq(s, 1, k)) = FlattenSeq(SubSeq(s, 1, k - 1)) \o s[k]
      BY <3>1, FlattenSplit
    <3> QED
      BY <2>1, <3>2
  <2>4. FlattenSeq(SubSeq(t, 1, k)) = FlattenSeq(SubSeq(t, 1, i)) \o t[k]
    <3>1. k \in 1 .. Len(t)
      BY <1>1, <2>1
    <3>2. FlattenSeq(SubSeq(t, 1, k)) = FlattenSeq(SubSeq(t, 1, k - 1)) \o t[k]
      BY <3>1, FlattenSplit
    <3> QED
      BY <2>1, <3>2
  <2>5. s[k] \in Seq(Seq(S)) /\ t[k] = FlattenSeq(s[k])
    BY <2>1, ElementOfSeq DEF n
  <2>6. FlattenSeq(before) = FlattenSeq(SubSeq(t, 1, i))
    BY <2>2
  <2> HIDE DEF before
  <2>7. FlattenSeq(before \o s[k]) = FlattenSeq(before) \o FlattenSeq(s[k])
    BY <2>3, <2>5, FlattenConcat
  <2> QED
    BY <2>3, <2>4, <2>5, <2>6, <2>7 DEF k
<1> HIDE DEF T
<1>4. T = Nat
  BY <1>2, <1>3, SetInduction DEF T
<1>5. FlattenSeq(FlattenSeq(SubSeq(s, 1, n))) = FlattenSeq(SubSeq(t, 1, n))
  BY <1>1, <1>4 DEF T
<1>6. SubSeq(s, 1, n) = s /\ SubSeq(t, 1, n) = t
  BY <1>1, SubSeqFull
<1> QED
  BY <1>5, <1>6

LEMMA RecordFields ==
    ASSUME NEW r \in Record, NEW k \in 1 .. 4
    PROVE  /\ LengthOf(r, k) \in Nat /\ LengthItem[k] \in Items
           /\ Number(LengthItem[k], LengthOf(r, k)) \in Seq(Byte) /\ Len(Number(LengthItem[k], LengthOf(r, k))) = 8
           /\ Contents(r)[k] \in Seq(Byte)
           /\ Len(Contents(r)[k]) = IF k = 2 THEN 4 * LengthOf(r, k) ELSE LengthOf(r, k)
           /\ FieldBytes(r)[k] = Number(LengthItem[k], LengthOf(r, k)) \o Contents(r)[k]
           /\ FieldBytes(r)[k] \in Seq(Byte) /\ Len(FieldBytes(r)[k]) > 0
<1>1. r.id \in Nat /\ r.embedding \in Nat /\ r.document \in Nat /\ r.metadata \in Nat
  BY DEF Record
<1>2. LengthOf(r, k) \in Nat
  BY <1>1 DEF LengthOf
<1>3. LengthItem[k] \in Items
  <2>1. {"id_len", "embedding_len", "document_len", "metadata_len"} \subseteq Items
    BY DEF Items
  <2>2. LengthItem[k] \in {"id_len", "embedding_len", "document_len", "metadata_len"}
    BY DEF LengthItem
  <2> QED
    BY <2>1, <2>2
<1> DEFINE number == Number(LengthItem[k], LengthOf(r, k))
<1> DEFINE content == Contents(r)[k]
<1>4. number \in Seq(Byte) /\ Len(number) = 8
  BY <1>2, <1>3, NumberBytes
<1>5. content \in Seq(Byte) /\ Len(content) = IF k = 2 THEN 4 * LengthOf(r, k) ELSE LengthOf(r, k)
  <2>1. \A item \in Items : \A value \in Values : \A width \in Nat :
            Bytes(item, value, width) \in Seq(Byte) /\ Len(Bytes(item, value, width)) = width
    BY BytesType
  <2>2. "id" \in Items /\ "document" \in Items /\ "metadata" \in Items
    BY DEF Items
  <2>3. "id" \in Values /\ "document" \in Values /\ "metadata" \in Values
    <3>1. {"id", "document", "metadata"} \subseteq Names
      BY DEF Names
    <3>2. Names \subseteq Values
      BY DEF Values
    <3> QED
      BY <3>1, <3>2
  <2>4. CASE k = 1
    <3>1. content = Bytes("id", "id", r.id) /\ LengthOf(r, k) = r.id
      BY <2>4 DEF Contents, LengthOf
    <3> QED
      BY <1>1, <2>1, <2>2, <2>3, <2>4, <3>1
  <2>5. CASE k = 2
    <3>1. content = Floats(r.embedding) /\ LengthOf(r, k) = r.embedding
      BY <2>5 DEF Contents, LengthOf
    <3> QED
      BY <1>1, <2>5, <3>1, FloatsType
  <2>6. CASE k = 3
    <3>1. content = Bytes("document", "document", r.document) /\ LengthOf(r, k) = r.document
      BY <2>6 DEF Contents, LengthOf
    <3> QED
      BY <1>1, <2>1, <2>2, <2>3, <2>6, <3>1
  <2>7. CASE k = 4
    <3>1. content = Bytes("metadata", "metadata", r.metadata) /\ LengthOf(r, k) = r.metadata
      BY <2>7 DEF Contents, LengthOf
    <3> QED
      BY <1>1, <2>1, <2>2, <2>3, <2>7, <3>1
  <2> QED
    BY <2>4, <2>5, <2>6, <2>7
<1>6. FieldBytes(r)[k] = number \o content
  BY DEF FieldBytes
<1> HIDE DEF number, content
<1>7. number \o content \in Seq(Byte) /\ Len(number \o content) = Len(number) + Len(content) /\ Len(content) \in Nat
  BY <1>4, <1>5, Pair
<1>8. Len(number \o content) > 0
  BY <1>4, <1>7
<1> QED
  BY <1>2, <1>3, <1>4, <1>5, <1>6, <1>7, <1>8 DEF number, content

LEMMA FieldsType ==
    ASSUME NEW r \in Record
    PROVE  FieldBytes(r) \in Seq(Seq(Byte)) /\ Len(FieldBytes(r)) = 4
<1>1. \A k \in 1 .. 4 : Number(LengthItem[k], LengthOf(r, k)) \o Contents(r)[k] \in Seq(Byte)
  <2>1. \A k \in 1 .. 4 : /\ FieldBytes(r)[k] = Number(LengthItem[k], LengthOf(r, k)) \o Contents(r)[k]
                          /\ FieldBytes(r)[k] \in Seq(Byte)
    BY RecordFields
  <2> QED
    BY <2>1
<1> QED
  BY <1>1 DEF FieldBytes

(* A record's bytes are its four fields, one after the other. *)
LEMMA SerializeFields ==
    ASSUME NEW r \in Record
    PROVE  serialize(r) = After(FieldBytes(r), 0) /\ serialize(r) \in Seq(Byte) /\ Len(serialize(r)) > 0
<1> DEFINE F == FieldBytes(r)
<1> DEFINE N(k) == Number(LengthItem[k], LengthOf(r, k))
<1> DEFINE C(k) == Contents(r)[k]
<1>1. serialize(r) = N(1) \o C(1) \o N(2) \o C(2) \o N(3) \o C(3) \o N(4) \o C(4)
  <2>1. /\ N(1) = Number("id_len", r.id) /\ N(2) = Number("embedding_len", r.embedding)
        /\ N(3) = Number("document_len", r.document) /\ N(4) = Number("metadata_len", r.metadata)
    BY DEF LengthItem, LengthOf
  <2>2. /\ C(1) = Bytes("id", "id", r.id) /\ C(2) = Floats(r.embedding)
        /\ C(3) = Bytes("document", "document", r.document) /\ C(4) = Bytes("metadata", "metadata", r.metadata)
    BY DEF Contents
  <2> HIDE DEF N, C
  <2> QED
    BY <2>1, <2>2 DEF serialize
<1>2. \A k \in 1 .. 4 : N(k) \in Seq(Byte) /\ C(k) \in Seq(Byte) /\ F[k] = N(k) \o C(k) /\ F[k] \in Seq(Byte)
                        /\ Len(F[k]) > 0
  BY RecordFields
<1>3. F \in Seq(Seq(Byte)) /\ Len(F) = 4
  BY FieldsType
<1> HIDE DEF F, N, C
<1> DEFINE G(k) == FlattenSeq(SubSeq(F, 1, k))
<1> DEFINE Extends(k, j) == G(k) = G(j) \o N(k) \o C(k) /\ G(j) \in Seq(Byte) /\ G(k) = G(j) \o F[k]
<1> HIDE DEF Extends
<1>4. ASSUME NEW k \in 1 .. 4, NEW j, j = k - 1
      PROVE  Extends(k, j)
  <2>1. k \in 1 .. Len(F)
    BY <1>3
  <2>2. FlattenSeq(SubSeq(F, 1, k)) = FlattenSeq(SubSeq(F, 1, k - 1)) \o F[k] /\ FlattenSeq(SubSeq(F, 1, k - 1)) \in Seq(Byte)
    BY <1>3, <2>1, FlattenSplit
  <2>3. G(k) = G(j) \o F[k] /\ G(j) \in Seq(Byte)
    BY <1>4, <2>2
  <2> HIDE DEF G
  <2> DEFINE g == G(j)
  <2> DEFINE x == N(k)
  <2> DEFINE y == C(k)
  <2>4. g \in Seq(Byte) /\ x \in Seq(Byte) /\ y \in Seq(Byte) /\ G(k) = g \o (x \o y)
    BY <1>2, <2>3
  <2> HIDE DEF g, x, y
  <2>5. Regroups(g, x, y)
    BY <2>4, Regroup, Zenon
  <2>6. G(k) = g \o x \o y
    BY <2>4, <2>5 DEF Regroups
  <2> QED
    BY <2>3, <2>6 DEF g, x, y, Extends
<1>5. G(0) = <<>>
  <2>1. SubSeq(F, 1, 0) = <<>>
    BY SubSeqEmpty
  <2> QED
    BY <2>1, FlattenEmpty, Zenon
<1>6. G(4) = FlattenSeq(F)
  <2>1. SubSeq(F, 1, 4) = F
    BY <1>3, SubSeqFull
  <2> QED
    BY <2>1
<1> HIDE DEF G
<1>14. Extends(1, 0) /\ Extends(2, 1) /\ Extends(3, 2) /\ Extends(4, 3)
  BY <1>4
<1>7. G(1) = N(1) \o C(1)
  <2>1. G(1) = G(0) \o N(1) \o C(1)
    BY <1>14 DEF Extends
  <2>2. <<>> \o N(1) = N(1)
    BY <1>2, ConcatEmptySeq
  <2> QED
    BY <1>5, <2>1, <2>2
<1>8. G(2) = G(1) \o N(2) \o C(2)
  BY <1>14 DEF Extends
<1>9. G(3) = G(2) \o N(3) \o C(3)
  BY <1>14 DEF Extends
<1>10. G(4) = G(3) \o N(4) \o C(4)
  BY <1>14 DEF Extends
<1>11. serialize(r) = G(4)
  BY <1>1, <1>7, <1>8, <1>9, <1>10
<1>12. G(4) \in Seq(Byte) /\ Len(G(4)) > 0
  <2>1. G(4) = G(3) \o F[4] /\ G(3) \in Seq(Byte) /\ F[4] \in Seq(Byte) /\ Len(F[4]) > 0
    <3>1. 4 \in 1 .. 4
      OBVIOUS
    <3> QED
      BY <1>2, <1>14, <3>1 DEF Extends
  <2> DEFINE g == G(3)
  <2> DEFINE x == F[4]
  <2>2. g \in Seq(Byte) /\ x \in Seq(Byte) /\ Len(x) > 0 /\ G(4) = g \o x
    BY <2>1
  <2> HIDE DEF g, x
  <2>3. g \o x \in Seq(Byte) /\ Len(g \o x) = Len(g) + Len(x) /\ Len(g) \in Nat /\ Len(x) \in Nat
    BY <2>2, Pair
  <2>4. Len(g) + Len(x) > 0
    BY <2>2, <2>3
  <2> QED
    BY <2>2, <2>3, <2>4
<1>13. After(F, 0) = FlattenSeq(F)
  BY <1>3, AfterEnds
<1> QED
  BY <1>6, <1>11, <1>12, <1>13 DEF F

RecordBytes(q) == [j \in DOMAIN q.records |-> serialize(q.records[j])]
RecordResults(q) == [j \in DOMAIN q.records |-> Contents(q.records[j])]
CountBytes(q) == Bytes("count", Hits(q), 4)
QueryPieces(f) == [i \in DOMAIN f |-> <<CountBytes(f[i])>> \o RecordBytes(f[i])]
QueryBytes(f) == [i \in DOMAIN f |-> CountBytes(f[i]) \o FlattenSeq(RecordBytes(f[i]))]
QueryResults(f) == [i \in DOMAIN f |-> <<Hits(f[i])>> \o FlattenSeq(RecordResults(f[i]))]

(* What the client returns: counts, and the bytes of strings and embeddings. *)
Result == Int \cup Seq(Byte)

LEMMA ContentsType ==
    ASSUME NEW r \in Record
    PROVE  Contents(r) \in Seq(Seq(Byte)) /\ Contents(r) \in Seq(Result) /\ Len(Contents(r)) = 4
<1>1. \A k \in 1 .. 4 : Contents(r)[k] \in Seq(Byte)
  BY RecordFields
<1>2. /\ Contents(r)[1] \in Seq(Byte) /\ Contents(r)[2] \in Seq(Byte)
      /\ Contents(r)[3] \in Seq(Byte) /\ Contents(r)[4] \in Seq(Byte)
  BY <1>1
<1> DEFINE c1 == Bytes("id", "id", r.id)
<1> DEFINE c2 == Floats(r.embedding)
<1> DEFINE c3 == Bytes("document", "document", r.document)
<1> DEFINE c4 == Bytes("metadata", "metadata", r.metadata)
<1>3. Contents(r) = <<c1, c2, c3, c4>>
  BY DEF Contents
<1> HIDE DEF c1, c2, c3, c4
<1>4. c1 \in Seq(Byte) /\ c2 \in Seq(Byte) /\ c3 \in Seq(Byte) /\ c4 \in Seq(Byte)
  BY <1>2, <1>3
<1> DEFINE B == Seq(Byte)
<1>5. c1 \in B /\ c2 \in B /\ c3 \in B /\ c4 \in B /\ B \subseteq Result
  BY <1>4 DEF Result
<1> HIDE DEF B
<1>6. Contents(r) \in Seq(B) /\ Contents(r) \in Seq(Result) /\ Len(Contents(r)) = 4
  BY <1>3, <1>5
<1> QED
  BY <1>6 DEF B

LEMMA QueryType ==
    ASSUME NEW q \in Query, ~q.hit => q.records = <<>>
    PROVE  /\ Hits(q) \in Int /\ Len(q.records) \in Nat /\ FieldsOf(Hits(q)) = 4 * Len(q.records)
           /\ CountBytes(q) \in Seq(Byte) /\ Len(CountBytes(q)) = 4
           /\ RecordBytes(q) \in Seq(Seq(Byte)) /\ Len(RecordBytes(q)) = Len(q.records)
           /\ RecordResults(q) \in Seq(Seq(Result)) /\ Len(RecordResults(q)) = Len(q.records)
           /\ \A j \in 1 .. Len(q.records) :
                 /\ q.records[j] \in Record
                 /\ RecordBytes(q)[j] = serialize(q.records[j]) /\ RecordBytes(q)[j] # <<>>
                 /\ RecordResults(q)[j] = Contents(q.records[j])
<1> DEFINE R == q.records
<1>1. R \in Seq(Record) /\ q.hit \in BOOLEAN
  BY DEF Query
<1>2. Len(R) \in Nat /\ DOMAIN R = 1 .. Len(R)
  BY <1>1, LenProperties
<1>3. \A j \in 1 .. Len(R) : R[j] \in Record
  BY <1>1, ElementOfSeq
<1>4. Hits(q) = IF q.hit THEN Len(R) ELSE -1
  BY DEF Hits
<1>5. ~q.hit => Len(R) = 0
  <2>1. Len(<<>>) = 0
    OBVIOUS
  <2> QED
    BY <2>1
<1>6. \A j \in 1 .. Len(R) : /\ serialize(R[j]) \in Seq(Byte) /\ serialize(R[j]) # <<>>
                             /\ Contents(R[j]) \in Seq(Result)
  <2>1. \A r \in Record : serialize(r) \in Seq(Byte) /\ serialize(r) # <<>> /\ Contents(r) \in Seq(Result)
    <3> SUFFICES ASSUME NEW r \in Record
                 PROVE  serialize(r) \in Seq(Byte) /\ serialize(r) # <<>> /\ Contents(r) \in Seq(Result)
      OBVIOUS
    <3>1. serialize(r) \in Seq(Byte) /\ Len(serialize(r)) > 0
      BY SerializeFields
    <3>2. Len(<<>>) = 0
      OBVIOUS
    <3>3. serialize(r) # <<>>
      BY <3>1, <3>2
    <3> QED
      BY <3>1, <3>3, ContentsType
  <2> QED
    BY <1>3, <2>1
<1>7. RecordBytes(q) = [j \in DOMAIN R |-> serialize(R[j])] /\ RecordResults(q) = [j \in DOMAIN R |-> Contents(R[j])]
  BY DEF RecordBytes, RecordResults
<1> HIDE DEF R
<1>8. /\ RecordBytes(q) \in Seq(Seq(Byte)) /\ Len(RecordBytes(q)) = Len(R)
      /\ RecordResults(q) \in Seq(Seq(Result)) /\ Len(RecordResults(q)) = Len(R)
      /\ \A j \in 1 .. Len(R) : RecordBytes(q)[j] = serialize(R[j]) /\ RecordResults(q)[j] = Contents(R[j])
  BY <1>2, <1>6, <1>7
<1>9. Hits(q) \in Int /\ FieldsOf(Hits(q)) = 4 * Len(R)
  <2>1. CASE q.hit
    <3>1. Hits(q) = Len(R)
      BY <1>4, <2>1
    <3> QED
      BY <1>2, <3>1 DEF FieldsOf
  <2>2. CASE ~q.hit
    <3>1. Hits(q) = -1 /\ Len(R) = 0
      BY <1>4, <1>5, <2>2
    <3> QED
      BY <3>1 DEF FieldsOf
  <2> QED
    BY <2>1, <2>2
<1>10. CountBytes(q) \in Seq(Byte) /\ Len(CountBytes(q)) = 4
  <2>1. "count" \in Items
    BY DEF Items
  <2>2. Hits(q) \in Values
    BY <1>9 DEF Values
  <2> DEFINE width == 4
  <2>3. width \in Nat
    OBVIOUS
  <2>4. CountBytes(q) = Bytes("count", Hits(q), width)
    BY DEF CountBytes
  <2>5. width = 4
    OBVIOUS
  <2> HIDE DEF width
  <2>6. Bytes("count", Hits(q), width) \in Seq(Byte) /\ Len(Bytes("count", Hits(q), width)) = width
    BY <2>1, <2>2, <2>3, BytesType
  <2> QED
    BY <2>4, <2>5, <2>6
<1> QED
  BY <1>2, <1>3, <1>6, <1>8, <1>9, <1>10 DEF R

(* All that a SEARCH may find, with what is written and read of it. *)
LEMMA FoundType ==
    ASSUME NEW f \in Found
    PROVE  /\ f \in Seq(Query) /\ Len(f) \in Nat /\ DOMAIN f = 1 .. Len(f)
           /\ \A i \in 1 .. Len(f) : f[i] \in Query /\ (~f[i].hit => f[i].records = <<>>)
<1>1. f \in Seq(Query) /\ \A i \in DOMAIN f : ~f[i].hit => f[i].records = <<>>
  BY FoundAssumption DEF Query, Record
<1>2. Len(f) \in Nat /\ DOMAIN f = 1 .. Len(f)
  BY <1>1, LenProperties
<1>3. \A i \in 1 .. Len(f) : f[i] \in Query
  BY <1>1, ElementOfSeq
<1> QED
  BY <1>1, <1>2, <1>3

LEMMA FoundBytes ==
    ASSUME NEW f \in Found
    PROVE  /\ QueryBytes(f) \in Seq(Seq(Byte)) /\ Len(QueryBytes(f)) = Len(f)
           /\ QueryResults(f) \in Seq(Seq(Result)) /\ Len(QueryResults(f)) = Len(f)
           /\ \A i \in 1 .. Len(f) :
                 /\ QueryBytes(f)[i] = CountBytes(f[i]) \o FlattenSeq(RecordBytes(f[i]))
                 /\ QueryResults(f)[i] = <<Hits(f[i])>> \o FlattenSeq(RecordResults(f[i]))
<1>1. /\ Len(f) \in Nat /\ DOMAIN f = 1 .. Len(f)
      /\ \A i \in 1 .. Len(f) : f[i] \in Query /\ (~f[i].hit => f[i].records = <<>>)
  BY FoundType
<1>2. ASSUME NEW i \in 1 .. Len(f)
      PROVE  /\ CountBytes(f[i]) \o FlattenSeq(RecordBytes(f[i])) \in Seq(Byte)
             /\ <<Hits(f[i])>> \o FlattenSeq(RecordResults(f[i])) \in Seq(Result)
  <2> DEFINE q == f[i]
  <2>1. q \in Query /\ (~q.hit => q.records = <<>>)
    BY <1>1
  <2> HIDE DEF q
  <2>2. /\ Hits(q) \in Int /\ CountBytes(q) \in Seq(Byte)
        /\ RecordBytes(q) \in Seq(Seq(Byte)) /\ RecordResults(q) \in Seq(Seq(Result))
    BY <2>1, QueryType
  <2>3. FlattenSeq(RecordBytes(q)) \in Seq(Byte)
    BY <2>2, FlattenType
  <2>4. FlattenSeq(RecordResults(q)) \in Seq(Result)
    BY <2>2, FlattenType
  <2>5. CountBytes(q) \o FlattenSeq(RecordBytes(q)) \in Seq(Byte)
    BY <2>2, <2>3, ConcatProperties
  <2>6. <<Hits(q)>> \o FlattenSeq(RecordResults(q)) \in Seq(Result)
    <3>1. Hits(q) \in Result
      BY <2>2 DEF Result
    <3>2. <<Hits(q)>> \in Seq(Result)
      BY <3>1
    <3> QED
      BY <2>4, <3>2, ConcatProperties
  <2> QED
    BY <2>5, <2>6 DEF q
<1> QED
  BY <1>1, <1>2 DEF QueryBytes, QueryResults

LEMMA PiecesType ==
    ASSUME NEW f \in Found
    PROVE  /\ Pieces(f) \in Seq(Seq(Byte) \ {<<>>})
           /\ FlattenSeq(Pieces(f)) = FlattenSeq(QueryBytes(f))
<1> DEFINE B == Seq(Byte) \ {<<>>}
<1>1. /\ Len(f) \in Nat /\ DOMAIN f = 1 .. Len(f)
      /\ \A i \in 1 .. Len(f) : f[i] \in Query /\ (~f[i].hit => f[i].records = <<>>)
  BY FoundType
<1>2. Pieces(f) = FlattenSeq(QueryPieces(f))
  BY DEF Pieces, QueryPieces, RecordBytes, CountBytes
<1>3. ASSUME NEW i \in 1 .. Len(f)
      PROVE  /\ <<CountBytes(f[i])>> \o RecordBytes(f[i]) \in Seq(B)
             /\ <<CountBytes(f[i])>> \o RecordBytes(f[i]) \in Seq(Seq(Byte))
             /\ FlattenSeq(<<CountBytes(f[i])>> \o RecordBytes(f[i])) = CountBytes(f[i]) \o FlattenSeq(RecordBytes(f[i]))
  <2> DEFINE q == f[i]
  <2> DEFINE c == CountBytes(q)
  <2> DEFINE t == RecordBytes(q)
  <2>1. q \in Query /\ (~q.hit => q.records = <<>>)
    BY <1>1
  <2> HIDE DEF q
  <2>2. /\ c \in Seq(Byte) /\ Len(c) = 4
        /\ t \in Seq(Seq(Byte)) /\ Len(t) = Len(q.records) /\ Len(q.records) \in Nat
        /\ \A j \in 1 .. Len(q.records) : t[j] # <<>>
    BY <2>1, QueryType
  <2> HIDE DEF c, t
  <2>3. c \in B
    <3>1. c # <<>>
      <4> SUFFICES ASSUME c = <<>> PROVE FALSE
        OBVIOUS
      <4>1. Len(<<>>) = 4
        BY <2>2, Zenon
      <4>2. Len(<<>>) = 0
        OBVIOUS
      <4> QED
        BY <4>1, <4>2
    <3> QED
      BY <2>2, <3>1
  <2>4. t \in Seq(B)
    <3>1. \A j \in 1 .. Len(t) : t[j] \in B
      BY <2>2, ElementOfSeq
    <3> HIDE DEF B
    <3>2. Len(t) \in Nat /\ t = [j \in 1 .. Len(t) |-> t[j]]
      BY <2>2, LenProperties
    <3> DEFINE n == Len(t)
    <3>3. n \in Nat /\ t = [j \in 1 .. n |-> t[j]] /\ \A j \in 1 .. n : t[j] \in B
      BY <3>1, <3>2
    <3> HIDE DEF n
    <3>4. t \in [1 .. n -> B]
      BY <3>3
    <3> QED
      BY <3>3, <3>4, SeqDef
  <2>5. <<c>> \in Seq(B) /\ <<c>> \in Seq(Seq(Byte))
    <3> HIDE DEF B
    <3>1. <<c>> \in Seq(B)
      BY <2>3
    <3> DEFINE A == Seq(Byte)
    <3>2. c \in A
      BY <2>2
    <3> HIDE DEF A
    <3>3. <<c>> \in Seq(A)
      BY <3>2
    <3> QED
      BY <3>1, <3>3 DEF A
  <2>6. <<c>> \o t \in Seq(B) /\ <<c>> \o t \in Seq(Seq(Byte))
    <3> HIDE DEF B
    <3> QED
      BY <2>2, <2>4, <2>5, ConcatProperties
  <2>7. FlattenSeq(<<c>> \o t) = FlattenSeq(<<c>>) \o FlattenSeq(t)
    BY <2>2, <2>5, FlattenConcat
  <2>8. FlattenSeq(<<c>>) = c
    BY <2>2, FlattenOne
  <2> QED
    BY <2>6, <2>7, <2>8 DEF q, c, t
<1>4. /\ QueryPieces(f) \in Seq(Seq(B)) /\ QueryPieces(f) \in Seq(Seq(Seq(Byte)))
      /\ Len(QueryPieces(f)) = Len(f)
      /\ \A i \in 1 .. Len(f) : QueryPieces(f)[i] = <<CountBytes(f[i])>> \o RecordBytes(f[i])
  <2> DEFINE n == Len(f)
  <2> DEFINE e(i) == <<CountBytes(f[i])>> \o RecordBytes(f[i])
  <2> DEFINE A == Seq(Seq(Byte))
  <2> DEFINE C == Seq(B)
  <2>1. n \in Nat /\ QueryPieces(f) = [i \in 1 .. n |-> e(i)] /\ \A i \in 1 .. n : e(i) \in C /\ e(i) \in A
    BY <1>1, <1>3 DEF QueryPieces
  <2> HIDE DEF e, n, A, C
  <2>2. QueryPieces(f) \in Seq(C)
    BY <2>1
  <2>3. QueryPieces(f) \in Seq(A) /\ Len(QueryPieces(f)) = n /\ \A i \in 1 .. n : QueryPieces(f)[i] = e(i)
    BY <2>1
  <2> QED
    BY <2>2, <2>3 DEF e, n, A, C
<1>5. Pieces(f) \in Seq(B)
  <2> HIDE DEF B
  <2> QED
    BY <1>2, <1>4, FlattenType
<1>6. FlattenSeq(FlattenSeq(QueryPieces(f))) = FlattenSeq(QueryBytes(f))
  <2>1. /\ QueryBytes(f) \in Seq(Seq(Byte)) /\ Len(QueryBytes(f)) = Len(QueryPieces(f))
        /\ \A i \in 1 .. Len(QueryPieces(f)) : QueryBytes(f)[i] = FlattenSeq(QueryPieces(f)[i])
    BY <1>3, <1>4, FoundBytes
  <2> QED
    BY <1>4, <2>1, FlattenFlatten
<1> QED
  BY <1>2, <1>5, <1>6

LEMMA ReadBackResults ==
    ASSUME NEW f \in Found
    PROVE  ReadBack(f) = FlattenSeq(QueryResults(f))
  BY DEF ReadBack, QueryResults, RecordResults, Contents

-----------------------------------------------------------------------------
(* The server's writes *)

(* No piece is empty, and the one being written has bytes left. *)
Written ==
    /\ piece \in Nat \ {0} /\ l \in Nat /\ written \in Nat /\ written <= MaxLength
    /\ phase \notin {"reply", "done"} => found = <<>> /\ piece = 1 /\ l = 0 /\ sent = <<>>
    /\ phase \in {"reply", "done"} =>
          IF call.command = "SEARCH" THEN found \in Found /\ Len(found) = Len(call.vectors) ELSE found = <<>>
    /\ piece <= Len(Pieces(found)) => l < Len(Pieces(found)[piece])

LEMMA PieceBytes ==
    ASSUME NEW f, f \in Found \/ f = <<>>
    PROVE  /\ Len(Pieces(f)) \in Nat /\ Pieces(f) \in Seq(Seq(Byte))
           /\ \A i \in 1 .. Len(Pieces(f)) :
                 Pieces(f)[i] \in Seq(Byte) /\ Len(Pieces(f)[i]) \in Nat /\ 0 < Len(Pieces(f)[i])
<1> DEFINE P == Pieces(f)
<1> DEFINE B == Seq(Byte) \ {<<>>}
<1>1. P \in Seq(B)
  <2>1. CASE f \in Found
    BY <2>1, PiecesType
  <2>2. CASE f = <<>>
    <3>1. P = FlattenSeq([i \in DOMAIN <<>> |->
                  <<Bytes("count", Hits(<<>>[i]), 4)>> \o [j \in DOMAIN <<>>[i].records |-> serialize(<<>>[i].records[j])]])
      BY <2>2 DEF Pieces
    <3>2. DOMAIN <<>> = {}
      OBVIOUS
    <3>3. [i \in DOMAIN <<>> |->
              <<Bytes("count", Hits(<<>>[i]), 4)>> \o [j \in DOMAIN <<>>[i].records |-> serialize(<<>>[i].records[j])]]
          = <<>>
      BY <3>2
    <3>4. P = <<>>
      BY <3>1, <3>3, FlattenEmpty
    <3> HIDE DEF P, B
    <3> QED
      BY <3>4, EmptySeq
  <2> QED
    BY <2>1, <2>2
<1> HIDE DEF P
<1>2. Len(P) \in Nat /\ \A i \in 1 .. Len(P) : P[i] \in B
  <2> HIDE DEF B
  <2> QED
    BY <1>1, LenProperties, ElementOfSeq
<1>3. \A b \in B : b \in Seq(Byte) /\ Len(b) \in Nat /\ 0 < Len(b)
  BY EmptySeq
<1>4. P \in Seq(Seq(Byte))
  <2> DEFINE n == Len(P)
  <2> DEFINE A == Seq(Byte)
  <2>1. n \in Nat /\ P = [i \in 1 .. n |-> P[i]] /\ \A i \in 1 .. n : P[i] \in A
    <3>1. P = [i \in 1 .. Len(P) |-> P[i]]
      <4> HIDE DEF B
      <4> QED
        BY <1>1, LenProperties
    <3> QED
      BY <1>2, <1>3, <3>1
  <2> HIDE DEF n, A
  <2>2. P \in [1 .. n -> A]
    BY <2>1
  <2>3. P \in Seq(A)
    BY <2>1, <2>2, SeqDef
  <2> QED
    BY <2>3 DEF A
<1> QED
  BY <1>2, <1>3, <1>4 DEF P

LEMMA NothingFound == Len(Pieces(<<>>)) = 0 /\ Pieces(<<>>) = <<>>
<1>1. Pieces(<<>>) = FlattenSeq([i \in DOMAIN <<>> |->
              <<Bytes("count", Hits(<<>>[i]), 4)>> \o [j \in DOMAIN <<>>[i].records |-> serialize(<<>>[i].records[j])]])
  BY DEF Pieces
<1>2. DOMAIN <<>> = {}
  OBVIOUS
<1>3. [i \in DOMAIN <<>> |->
          <<Bytes("count", Hits(<<>>[i]), 4)>> \o [j \in DOMAIN <<>>[i].records |-> serialize(<<>>[i].records[j])]]
      = <<>>
  BY <1>2
<1>4. Pieces(<<>>) = <<>>
  BY <1>1, <1>3, FlattenEmpty
<1> QED
  BY <1>4, EmptySeq

(* A read of the request either goes on or ends at the start of the reply. *)
Taken ==
    /\ UNCHANGED <<call, piece, l, written, sent, client>>
    /\ phase \notin {"reply", "done"}
    /\ \/ phase' \in {"static", "dynamic", "terminated"} /\ found' = found
       \/ /\ phase' = "reply"
          /\ IF call.command = "SEARCH" THEN found' \in Found /\ Len(found') = args'.n ELSE found' = found

LEMMA DynamicTaken ==
    ASSUME NEW a, NEW s, read_dynamic_args(a, s)
    PROVE  \/ phase' = "dynamic" /\ found' = found
           \/ /\ phase' = "reply"
              /\ IF call.command = "SEARCH" THEN found' \in Found /\ Len(found') = args'.n ELSE found' = found
  BY SMT DEF read_dynamic_args, process_args

LEMMA StaticTaken ==
    ASSUME NEW s, deserialize_static(s)
    PROVE  \/ phase' \in {"dynamic", "terminated"} /\ found' = found
           \/ /\ phase' = "reply"
              /\ IF call.command = "SEARCH" THEN found' \in Found /\ Len(found') = args'.n ELSE found' = found
<1> DEFINE n == StaticLength(call.command)
<1>1. CASE Len(s) >= n
  <2>1. read_dynamic_args(args', SubSeq(s, n + 1, Len(s)))
    BY <1>1 DEF deserialize_static
  <2> QED
    BY <2>1, DynamicTaken
<1>2. CASE ~(Len(s) >= n)
  BY <1>2 DEF deserialize_static, Terminate
<1> QED
  BY <1>1, <1>2

LEMMA ReadsTake ==
    ASSUME (\E more \in 0 .. Len(wire) - 1 : ReadLine(more)) \/ ReadStatic \/ ReadDynamic
    PROVE  Taken
<1>1. ASSUME NEW more \in 0 .. Len(wire) - 1, ReadLine(more) PROVE Taken
  <2> DEFINE s == SubSeq(wire, 2, more + 1)
  <2>1. phase = "line" /\ UNCHANGED <<call, piece, l, written, sent, client>>
    BY <1>1 DEF ReadLine
  <2>2. deserialize_static(s) \/ (phase' = "static" /\ found' = found)
    BY <1>1 DEF ReadLine
  <2> HIDE DEF s
  <2> QED
    BY <2>1, <2>2, StaticTaken DEF Taken
<1>2. CASE ReadStatic
  <2>1. phase = "static" /\ UNCHANGED <<call, piece, l, written, sent, client>>
    BY <1>2 DEF ReadStatic
  <2>2. \E s : deserialize_static(s) \/ Terminate(s)
    BY <1>2 DEF ReadStatic
  <2>3. ASSUME NEW s, Terminate(s) PROVE phase' = "terminated" /\ found' = found
    BY <2>3 DEF Terminate
  <2> QED
    BY <2>1, <2>2, <2>3, StaticTaken DEF Taken
<1>3. CASE ReadDynamic
  <2>1. phase = "dynamic" /\ UNCHANGED <<call, piece, l, written, sent, client>>
    BY <1>3 DEF ReadDynamic
  <2>2. \E s : read_dynamic_args(args, s)
    BY <1>3 DEF ReadDynamic
  <2> QED
    BY <2>1, <2>2, DynamicTaken DEF Taken
<1> QED
  BY <1>1, <1>2, <1>3

(* Where a read of the request ends the process. *)
LEMMA EndsAtSplitHead ==
    ASSUME Received, [Next]_vars, phase' = "terminated", phase # "terminated"
    PROVE  \/ phase = "line" /\ call.command = "ADD" /\ SplitHead(input')
           \/ phase = "static" /\ SplitHead(input)
<1>1. ASSUME NEW more \in 0 .. Len(wire) - 1, ReadLine(more)
      PROVE  phase = "line" /\ call.command = "ADD" /\ SplitHead(input')
  <2> DEFINE s == SubSeq(wire, 2, more + 1)
  <2>1. phase = "line" /\ call \in Calls /\ wire = Message(call)
    BY <1>1 DEF ReadLine, Received
  <2>2. Len(s) >= static_size[call.command] /\ deserialize_static(s)
    BY <1>1 DEF ReadLine
  <2>3. s \in Seq(Byte) /\ Len(s) \in Nat
    <3>1. wire \in Seq(Byte)
      BY <2>1, MessageRest
    <3> QED
      BY <1>1, <3>1, LenProperties
  <2> HIDE DEF s
  <2>4. ~(Len(s) >= StaticLength(call.command)) /\ input' = s
    <3>1. CASE Len(s) >= StaticLength(call.command)
      <4>1. \E u : read_dynamic_args(args', u)
        BY <2>2, <3>1 DEF deserialize_static
      <4> QED
        BY <4>1, DynamicTaken
    <3>2. CASE ~(Len(s) >= StaticLength(call.command))
      BY <2>2, <3>2 DEF deserialize_static, Terminate
    <3> QED
      BY <3>1, <3>2
  <2>5. call.command = "ADD"
    BY <2>1, <2>2, <2>3, <2>4, MessageRest, StaticSizes
  <2>6. SplitHead(input')
    BY <2>1, <2>3, <2>4, MessageRest DEF SplitHead
  <2> QED
    BY <2>1, <2>5, <2>6
<1>2. ASSUME ReadStatic PROVE phase = "static" /\ SplitHead(input)
  <2>1. phase = "static" /\ call \in Calls /\ input \in Seq(Byte) /\ Len(input) < static_size[call.command]
    BY <1>2 DEF ReadStatic, Received
  <2>2. Len(input) \in Nat
    BY <2>1, LenProperties
  <2>3. Len(input) < StaticLength(call.command)
    BY <2>1, <2>2, MessageRest, StaticSizes
  <2> QED
    BY <2>1, <2>3 DEF SplitHead
<1>3. CASE ReadDynamic
  <2>1. \E s : read_dynamic_args(args, s)
    BY <1>3 DEF ReadDynamic
  <2> QED
    BY <2>1, DynamicTaken
<1>4. CASE WriteText \/ WriteSearch \/ SearchDone
  BY <1>4 DEF WriteText, WriteSearch, SearchDone
<1>5. ASSUME NEW n \in 1 .. Len(sent), ReadText(n) \/ ReadNumber(n) \/ ReadBody(n) PROVE FALSE
  BY <1>5 DEF ReadText, ReadNumber, ReadBody
<1>6. CASE ReturnResults
  BY <1>6 DEF ReturnResults
<1>7. CASE UNCHANGED vars
  BY <1>7 DEF vars
<1> QED
  BY <1>1, <1>2, <1>3, <1>4, <1>5, <1>6, <1>7 DEF Next, Server, Client

(* OnlySplitHeadEnds: neither deserialize_static, which lacks bytes only in *)
(* an ADD, nor the copy of args in the handler of read_args ends the        *)
(* process for a command whose static arguments came with its line.         *)
THEOREM OnlySplitHeadTerminates == Spec => OnlySplitHeadEnds
<1>1. Init => Received
  BY ReceivedInit
<1>2. Received /\ [Next]_vars => Received'
  BY ReceivedStep
<1>3. Received /\ [Next]_vars =>
          [phase' = "terminated" /\ phase # "terminated" =>
              \/ phase = "line" /\ call.command = "ADD" /\ SplitHead(input')
              \/ phase = "static" /\ SplitHead(input)]_vars
  BY EndsAtSplitHead
<1> QED
  BY <1>1, <1>2, <1>3, PTL DEF Spec, OnlySplitHeadEnds

LEMMA TakenWritten ==
    ASSUME Received', Written, Taken
    PROVE  Written'
<1>1. /\ call' = call /\ piece' = piece /\ l' = l /\ written' = written /\ sent' = sent
      /\ found = <<>> /\ piece = 1 /\ l = 0 /\ sent = <<>> /\ written \in Nat /\ written <= MaxLength
  BY DEF Taken, Written
<1>2. CASE phase' \in {"static", "dynamic", "terminated"} /\ found' = found
  <2>1. Len(Pieces(found')) = 0
    BY <1>1, <1>2, NothingFound
  <2> QED
    BY <1>1, <1>2, <2>1 DEF Written
<1>3. CASE phase' = "reply"
  <2>1. IF call.command = "SEARCH" THEN found' \in Found /\ Len(found') = Len(call.vectors) ELSE found' = <<>>
    <3>1. CASE call.command = "SEARCH"
      <4>1. found' \in Found /\ Len(found') = args'.n
        BY <1>3, <3>1 DEF Taken
      <4>2. args' = Args(call) /\ call \in Calls
        BY <1>1, <1>3 DEF Received
      <4>3. Args(call).n = Len(call.vectors)
        BY <3>1, <4>2, MessageRest DEF Whole
      <4> QED
        BY <3>1, <4>1, <4>2, <4>3
    <3>2. CASE call.command # "SEARCH"
      BY <1>1, <1>3, <3>2 DEF Taken
    <3> QED
      BY <3>1, <3>2
  <2>2. found' \in Found \/ found' = <<>>
    BY <2>1
  <2>3. 1 <= Len(Pieces(found')) => 0 < Len(Pieces(found')[1])
    <3> DEFINE f == found'
    <3>1. f \in Found \/ f = <<>>
      BY <2>2
    <3> HIDE DEF f
    <3>2. Len(Pieces(f)) \in Nat /\ \A i \in 1 .. Len(Pieces(f)) : 0 < Len(Pieces(f)[i])
      BY <3>1, PieceBytes
    <3>3. 1 <= Len(Pieces(f)) => 0 < Len(Pieces(f)[1])
      BY <3>2
    <3> QED
      BY <3>3 DEF f
  <2> QED
    BY <1>1, <1>3, <2>1, <2>3 DEF Written
<1> QED
  BY <1>2, <1>3 DEF Taken

LEMMA WriteSearchWritten ==
    ASSUME Written, WriteSearch
    PROVE  Written'
<1> DEFINE P == Pieces(found)
<1> DEFINE size == Len(P[piece])
<1>1. /\ piece \in Nat \ {0} /\ l \in Nat /\ piece <= Len(P) /\ l < size /\ found \in Found
      /\ call.command = "SEARCH" /\ phase = "reply" /\ Len(found) = Len(call.vectors)
  BY DEF Written, WriteSearch
<1>2. found' = found /\ call' = call /\ phase' = phase
  BY DEF WriteSearch, request
<1>3. /\ Len(P) \in Nat /\ size \in Nat
      /\ \A i \in 1 .. Len(P) : Len(P[i]) \in Nat /\ 0 < Len(P[i])
  <2>1. /\ Len(P) \in Nat /\ \A i \in 1 .. Len(P) : Len(P[i]) \in Nat /\ 0 < Len(P[i])
    BY <1>1, PieceBytes
  <2>2. piece \in 1 .. Len(P)
    BY <1>1, <2>1
  <2> QED
    BY <2>1, <2>2
<1>4. MaxLength \in Nat \ {0}
  BY SizesAssumption
<1>5. \/ More(size) /\ written' = MaxLength /\ l' = l + MaxLength /\ piece' = piece
      \/ ~More(size) /\ written' = size - l /\ l' = 0 /\ piece' = piece + 1
  BY DEF WriteSearch, write
<1>6. Pieces(found') = P
  BY <1>2
<1> HIDE DEF P
<1>7. CASE More(size) /\ written' = MaxLength /\ l' = l + MaxLength /\ piece' = piece
  <2>1. l + MaxLength < size
    BY <1>1, <1>3, <1>4, <1>7 DEF More
  <2>2. l' \in Nat /\ piece' \in Nat \ {0} /\ written' \in Nat /\ written' <= MaxLength
    BY <1>1, <1>4, <1>7
  <2>3. piece' <= Len(Pieces(found')) => l' < Len(Pieces(found')[piece'])
    BY <1>6, <1>7, <2>1
  <2> QED
    BY <1>1, <1>2, <2>2, <2>3 DEF Written
<1>8. CASE ~More(size) /\ written' = size - l /\ l' = 0 /\ piece' = piece + 1
  <2>1. size - l \in Nat /\ size - l <= MaxLength
    BY <1>1, <1>3, <1>4, <1>8 DEF More
  <2>2. l' \in Nat /\ piece' \in Nat \ {0} /\ written' \in Nat /\ written' <= MaxLength
    BY <1>1, <1>8, <2>1
  <2>3. piece' <= Len(Pieces(found')) => l' < Len(Pieces(found')[piece'])
    <3>1. ASSUME piece + 1 <= Len(P) PROVE 0 < Len(P[piece + 1])
      <4> DEFINE k == piece + 1
      <4>1. k \in 1 .. Len(P)
        BY <1>1, <1>3, <3>1
      <4> HIDE DEF k
      <4>2. 0 < Len(P[k])
        BY <1>3, <4>1
      <4> QED
        BY <4>2 DEF k
    <3> QED
      BY <1>6, <1>8, <3>1
  <2> QED
    BY <1>1, <1>2, <2>2, <2>3 DEF Written
<1> QED
  BY <1>5, <1>7, <1>8

LEMMA WrittenInit == Init => Written
<1> SUFFICES ASSUME Init PROVE Written
  OBVIOUS
<1>1. /\ phase = "line" /\ found = <<>> /\ piece = 1 /\ l = 0 /\ written = 0 /\ sent = <<>>
  BY DEF Init
<1>2. 0 <= MaxLength
  BY SizesAssumption
<1> QED
  BY <1>1, <1>2, NothingFound DEF Written

LEMMA WrittenStep ==
    ASSUME Received', Written, [Next]_vars
    PROVE  Written'
<1>1. CASE (\E more \in 0 .. Len(wire) - 1 : ReadLine(more)) \/ ReadStatic \/ ReadDynamic
  BY <1>1, ReadsTake, TakenWritten
<1>2. CASE WriteText
  <2>1. /\ phase = "reply" /\ call.command # "SEARCH" /\ written' = 2 /\ phase' = "done"
        /\ call' = call /\ found' = found /\ piece' = piece /\ l' = l
    BY <1>2 DEF WriteText, request
  <2>2. 2 \in Nat /\ 2 <= MaxLength
    BY SizesAssumption
  <2> QED
    BY <2>1, <2>2 DEF Written
<1>3. CASE WriteSearch
  BY <1>3, WriteSearchWritten
<1>4. ASSUME UNCHANGED <<call, reply>>, phase' = phase \/ (phase = "reply" /\ phase' = "done"),
             sent' = sent \/ sent # <<>>
      PROVE  Written'
  <2>1. call' = call /\ found' = found /\ piece' = piece /\ l' = l /\ written' = written
    BY <1>4 DEF reply
  <2>2. (phase' \in {"reply", "done"}) <=> (phase \in {"reply", "done"})
    BY <1>4
  <2>3. phase \notin {"reply", "done"} => sent' = <<>>
    BY <1>4 DEF Written
  <2> QED
    BY <2>1, <2>2, <2>3 DEF Written
<1>5. CASE SearchDone
  BY <1>4, <1>5 DEF SearchDone, request
<1>6. ASSUME NEW n \in 1 .. Len(sent), ReadText(n) \/ ReadNumber(n) \/ ReadBody(n) PROVE Written'
  <2>1. UNCHANGED <<request, phase, reply>>
    BY <1>6 DEF ReadText, ReadNumber, ReadBody
  <2>2. sent # <<>>
    <3> SUFFICES ASSUME sent = <<>> PROVE FALSE
      OBVIOUS
    <3>1. Len(sent) = 0
      BY EmptySeq
    <3> QED
      BY <3>1
  <2> QED
    BY <1>4, <2>1, <2>2 DEF request
<1>7. CASE ReturnResults
  BY <1>4, <1>7 DEF ReturnResults, request
<1>8. CASE UNCHANGED vars
  BY <1>4, <1>8 DEF vars, request
<1> QED
  BY <1>1, <1>2, <1>3, <1>5, <1>6, <1>7, <1>8 DEF Next, Server, Client

(* WritesFit: however long a record, write_data gives the output buffer no  *)
(* more than it holds, and the loop never runs past the record's bytes.     *)
THEOREM WritesFitTheBuffer == Spec => []WritesFit
<1>1. Init => Received /\ Written
  BY ReceivedInit, WrittenInit
<1>2. Received /\ Written /\ [Next]_vars => (Received /\ Written)'
  BY ReceivedStep, WrittenStep
<1>3. Received /\ Written => WritesFit
  BY DEF Written, WritesFit
<1> QED
  BY <1>1, <1>2, <1>3, PTL DEF Spec

-----------------------------------------------------------------------------
(* What the client has still to read, and to return *)

(* After the first j records of query i, and after k fields of record j. *)
RestBytes(f, i, j) == After(RecordBytes(f[i]), j) \o After(QueryBytes(f), i)
RestResults(f, i, j) == After(RecordResults(f[i]), j) \o After(QueryResults(f), i)
LeftBytes(f, i, j, k) == After(FieldBytes(f[i].records[j]), k) \o RestBytes(f, i, j)
LeftResults(f, i, j, k) == SubSeq(Contents(f[i].records[j]), k + 1, 4) \o RestResults(f, i, j)

LEMMA RestType ==
    ASSUME NEW f \in Found, NEW i \in 1 .. Len(f), NEW j \in Nat
    PROVE  /\ RestBytes(f, i, j) \in Seq(Byte) /\ RestResults(f, i, j) \in Seq(Result)
           /\ After(RecordBytes(f[i]), j) \in Seq(Byte) /\ After(RecordResults(f[i]), j) \in Seq(Result)
           /\ After(QueryBytes(f), i) \in Seq(Byte) /\ After(QueryResults(f), i) \in Seq(Result)
<1>1. i \in Nat /\ f[i] \in Query /\ (~f[i].hit => f[i].records = <<>>)
  BY FoundType
<1>2. RecordBytes(f[i]) \in Seq(Seq(Byte)) /\ RecordResults(f[i]) \in Seq(Seq(Result))
  BY <1>1, QueryType
<1>3. QueryBytes(f) \in Seq(Seq(Byte)) /\ QueryResults(f) \in Seq(Seq(Result))
  BY FoundBytes
<1>4. After(RecordBytes(f[i]), j) \in Seq(Byte)
  BY <1>2, AfterType
<1>5. After(RecordResults(f[i]), j) \in Seq(Result)
  BY <1>2, AfterType
<1>6. After(QueryBytes(f), i) \in Seq(Byte)
  BY <1>1, <1>3, AfterType
<1>7. After(QueryResults(f), i) \in Seq(Result)
  BY <1>1, <1>3, AfterType
<1>8. RestBytes(f, i, j) \in Seq(Byte)
  BY <1>4, <1>6, ConcatProperties DEF RestBytes
<1>9. RestResults(f, i, j) \in Seq(Result)
  BY <1>5, <1>7, ConcatProperties DEF RestResults
<1> QED
  BY <1>4, <1>5, <1>6, <1>7, <1>8, <1>9

LEMMA CountLeft ==
    ASSUME NEW f \in Found, NEW i \in Nat, i < Len(f)
    PROVE  /\ After(QueryBytes(f), i) = CountBytes(f[i + 1]) \o RestBytes(f, i + 1, 0)
           /\ After(QueryResults(f), i) = <<Hits(f[i + 1])>> \o RestResults(f, i + 1, 0)
<1> DEFINE k == i + 1
<1> DEFINE q == f[k]
<1>1. k \in 1 .. Len(f) /\ k = i + 1
  BY FoundType
<1> HIDE DEF k
<1>2. q \in Query /\ (~q.hit => q.records = <<>>)
  BY <1>1, FoundType
<1> DEFINE QB == QueryBytes(f)
<1> DEFINE QR == QueryResults(f)
<1>3. /\ QB \in Seq(Seq(Byte)) /\ Len(QB) = Len(f) /\ QB[k] = CountBytes(q) \o FlattenSeq(RecordBytes(q))
      /\ QR \in Seq(Seq(Result)) /\ Len(QR) = Len(f) /\ QR[k] = <<Hits(q)>> \o FlattenSeq(RecordResults(q))
  BY <1>1, FoundBytes
<1>4. RestBytes(f, k, 0) = After(RecordBytes(q), 0) \o After(QB, k)
  BY DEF RestBytes
<1>5. RestResults(f, k, 0) = After(RecordResults(q), 0) \o After(QR, k)
  BY DEF RestResults
<1> HIDE DEF QB, QR, q
<1>6. /\ Hits(q) \in Int /\ CountBytes(q) \in Seq(Byte)
      /\ RecordBytes(q) \in Seq(Seq(Byte)) /\ RecordResults(q) \in Seq(Seq(Result))
  BY <1>2, QueryType
<1>7. After(QB, i) = QB[k] \o After(QB, k)
  <2>1. After(QB, i) = QB[i + 1] \o After(QB, i + 1)
    BY <1>3, AfterNext
  <2> QED
    BY <1>1, <2>1
<1>8. After(QR, i) = QR[k] \o After(QR, k)
  <2>1. After(QR, i) = QR[i + 1] \o After(QR, i + 1)
    BY <1>3, AfterNext
  <2> QED
    BY <1>1, <2>1
<1>9. FlattenSeq(RecordBytes(q)) = After(RecordBytes(q), 0) /\ FlattenSeq(RecordResults(q)) = After(RecordResults(q), 0)
  BY <1>6, AfterEnds
<1>10. /\ After(RecordBytes(q), 0) \in Seq(Byte) /\ After(RecordResults(q), 0) \in Seq(Result)
       /\ After(QB, k) \in Seq(Byte) /\ After(QR, k) \in Seq(Result)
  <2>1. 0 \in Nat
    OBVIOUS
  <2> QED
    BY <1>1, <2>1, RestType DEF QB, QR, q
<1>11. After(QB, i) = CountBytes(q) \o RestBytes(f, k, 0)
  <2> DEFINE x == CountBytes(q)
  <2> DEFINE y == After(RecordBytes(q), 0)
  <2> DEFINE z == After(QB, k)
  <2>1. x \in Seq(Byte) /\ y \in Seq(Byte) /\ z \in Seq(Byte)
    BY <1>6, <1>10
  <2>2. After(QB, i) = (x \o y) \o z /\ RestBytes(f, k, 0) = y \o z
    BY <1>3, <1>4, <1>7, <1>9
  <2> HIDE DEF x, y, z
  <2>3. Regroups(x, y, z)
    BY <2>1, Regroup, Zenon
  <2> QED
    BY <2>2, <2>3 DEF x, Regroups
<1>12. After(QR, i) = <<Hits(q)>> \o RestResults(f, k, 0)
  <2> DEFINE x == <<Hits(q)>>
  <2> DEFINE y == After(RecordResults(q), 0)
  <2> DEFINE z == After(QR, k)
  <2>1. x \in Seq(Result) /\ y \in Seq(Result) /\ z \in Seq(Result)
    <3>1. Hits(q) \in Result
      BY <1>6 DEF Result
    <3>2. <<Hits(q)>> \in Seq(Result)
      BY <3>1
    <3> QED
      BY <1>10, <3>2
  <2>2. After(QR, i) = (x \o y) \o z /\ RestResults(f, k, 0) = y \o z
    BY <1>3, <1>5, <1>8, <1>9
  <2> HIDE DEF x, y, z
  <2>3. Regroups(x, y, z)
    BY <2>1, Regroup, Zenon
  <2> QED
    BY <2>2, <2>3 DEF x, Regroups
<1> QED
  BY <1>11, <1>12 DEF QB, QR, q, k

LEMMA RecordLeft ==
    ASSUME NEW f \in Found, NEW i \in 1 .. Len(f), NEW j \in 0 .. Len(f[i].records)
    PROVE  /\ j < Len(f[i].records) =>
                 RestBytes(f, i, j) = LeftBytes(f, i, j + 1, 0) /\ RestResults(f, i, j) = LeftResults(f, i, j + 1, 0)
           /\ j = Len(f[i].records) =>
                 RestBytes(f, i, j) = After(QueryBytes(f), i) /\ RestResults(f, i, j) = After(QueryResults(f), i)
<1> DEFINE q == f[i]
<1> DEFINE b == After(QueryBytes(f), i)
<1> DEFINE s == After(QueryResults(f), i)
<1>1. q \in Query /\ (~q.hit => q.records = <<>>)
  BY FoundType
<1>2. b \in Seq(Byte) /\ s \in Seq(Result) /\ j \in Nat
  BY RestType
<1>3. RestBytes(f, i, j) = After(RecordBytes(q), j) \o b /\ RestResults(f, i, j) = After(RecordResults(q), j) \o s
  BY DEF RestBytes, RestResults
<1>4. /\ RecordBytes(q) \in Seq(Seq(Byte)) /\ Len(RecordBytes(q)) = Len(q.records) /\ Len(q.records) \in Nat
      /\ RecordResults(q) \in Seq(Seq(Result)) /\ Len(RecordResults(q)) = Len(q.records)
      /\ \A x \in 1 .. Len(q.records) :
            /\ q.records[x] \in Record /\ RecordBytes(q)[x] = serialize(q.records[x])
            /\ RecordResults(q)[x] = Contents(q.records[x])
  <2> HIDE DEF q
  <2> QED
    BY <1>1, QueryType
<1>5. ASSUME j < Len(q.records)
      PROVE  RestBytes(f, i, j) = LeftBytes(f, i, j + 1, 0) /\ RestResults(f, i, j) = LeftResults(f, i, j + 1, 0)
  <2> DEFINE k == j + 1
  <2> DEFINE r == q.records[k]
  <2>1. k \in 1 .. Len(q.records) /\ k = j + 1 /\ k \in Nat
    BY <1>4, <1>5
  <2> HIDE DEF k
  <2>2. r \in Record /\ RecordBytes(q)[k] = serialize(r) /\ RecordResults(q)[k] = Contents(r)
    BY <1>4, <2>1
  <2>3. LeftBytes(f, i, k, 0) = After(FieldBytes(r), 0) \o (After(RecordBytes(q), k) \o b)
    BY DEF LeftBytes, RestBytes
  <2>4. LeftResults(f, i, k, 0) = SubSeq(Contents(r), 0 + 1, 4) \o (After(RecordResults(q), k) \o s)
    BY DEF LeftResults, RestResults
  <2>5. After(RecordBytes(q), k) \in Seq(Byte) /\ After(RecordResults(q), k) \in Seq(Result)
    BY <2>1, RestType
  <2> HIDE DEF q, b, s, r
  <2>6. After(RecordBytes(q), j) = RecordBytes(q)[k] \o After(RecordBytes(q), k)
    <3>1. After(RecordBytes(q), j) = RecordBytes(q)[j + 1] \o After(RecordBytes(q), j + 1)
      BY <1>2, <1>4, <1>5, AfterNext
    <3> QED
      BY <2>1, <3>1
  <2>7. After(RecordResults(q), j) = RecordResults(q)[k] \o After(RecordResults(q), k)
    <3>1. After(RecordResults(q), j) = RecordResults(q)[j + 1] \o After(RecordResults(q), j + 1)
      BY <1>2, <1>4, <1>5, AfterNext
    <3> QED
      BY <2>1, <3>1
  <2>8. serialize(r) = After(FieldBytes(r), 0) /\ serialize(r) \in Seq(Byte)
    BY <2>2, SerializeFields
  <2>9. Contents(r) \in Seq(Result) /\ SubSeq(Contents(r), 0 + 1, 4) = Contents(r)
    <3>1. Contents(r) \in Seq(Result) /\ Len(Contents(r)) = 4
      BY <2>2, ContentsType
    <3>2. SubSeq(Contents(r), 1, 4) = Contents(r)
      BY <3>1, SubSeqFull
    <3> QED
      BY <3>1, <3>2
  <2>10. RestBytes(f, i, j) = LeftBytes(f, i, k, 0)
    <3> DEFINE x == After(FieldBytes(r), 0)
    <3> DEFINE y == After(RecordBytes(q), k)
    <3>1. x \in Seq(Byte) /\ y \in Seq(Byte)
      BY <2>5, <2>8
    <3>2. RestBytes(f, i, j) = (x \o y) \o b /\ LeftBytes(f, i, k, 0) = x \o (y \o b)
      BY <1>3, <2>2, <2>3, <2>6, <2>8
    <3> HIDE DEF x, y
    <3>3. b \in Seq(Byte)
      BY <1>2
    <3>4. Regroups(x, y, b)
      BY <3>1, <3>3, Regroup, Zenon
    <3> QED
      BY <3>2, <3>4 DEF Regroups
  <2>11. RestResults(f, i, j) = LeftResults(f, i, k, 0)
    <3> DEFINE x == Contents(r)
    <3> DEFINE y == After(RecordResults(q), k)
    <3>1. x \in Seq(Result) /\ y \in Seq(Result)
      BY <2>5, <2>9
    <3>2. RestResults(f, i, j) = (x \o y) \o s /\ LeftResults(f, i, k, 0) = x \o (y \o s)
      BY <1>3, <2>2, <2>4, <2>7, <2>9
    <3> HIDE DEF x, y
    <3>3. s \in Seq(Result)
      BY <1>2
    <3>4. Regroups(x, y, s)
      BY <3>1, <3>3, Regroup, Zenon
    <3> QED
      BY <3>2, <3>4 DEF Regroups
  <2> QED
    BY <2>10, <2>11 DEF k
<1>6. ASSUME j = Len(q.records) PROVE RestBytes(f, i, j) = b /\ RestResults(f, i, j) = s
  <2> HIDE DEF q, b, s
  <2>1. After(RecordBytes(q), j) = <<>>
    BY <1>4, <1>6, AfterEnds
  <2>2. After(RecordResults(q), j) = <<>>
    BY <1>4, <1>6, AfterEnds
  <2>3. <<>> \o b = b /\ <<>> \o s = s
    BY <1>2, ConcatEmptySeq
  <2> QED
    BY <1>3, <2>1, <2>2, <2>3
<1> QED
  BY <1>5, <1>6 DEF q, b, s

(* The same for four parts. *)
AllRegroup(x, y, z, w) == ((x \o y) \o z) \o w = x \o (y \o (z \o w))

LEMMA FourRegroup ==
    ASSUME NEW S, NEW x \in Seq(S), NEW y \in Seq(S), NEW z \in Seq(S), NEW w \in Seq(S)
    PROVE  AllRegroup(x, y, z, w)
<1> DEFINE v == z \o w
<1> DEFINE u == x \o y
<1>1. v \in Seq(S) /\ u \in Seq(S)
  BY ConcatProperties
<1> HIDE DEF v, u
<1>2. Regroups(u, z, w)
  BY <1>1, Regroup
<1>3. Regroups(x, y, v)
  BY <1>1, Regroup
<1>4. (u \o z) \o w = u \o (z \o w)
  BY <1>2 DEF Regroups
<1>5. (x \o y) \o v = x \o (y \o v)
  BY <1>3 DEF Regroups
<1> QED
  BY <1>4, <1>5 DEF AllRegroup, u, v

LEMMA TailType ==
    ASSUME NEW S, NEW c \in Seq(S), NEW k \in 0 .. Len(c)
    PROVE  SubSeq(c, k + 1, Len(c)) \in Seq(S)
<1>1. Len(c) \in Nat /\ k \in Nat
  BY LenProperties
<1>2. \A x \in k + 1 .. Len(c) : c[x] \in S
  BY <1>1, ElementOfSeq
<1> QED
  BY <1>1, <1>2, SubSeqProperties

LEMMA LeftType ==
    ASSUME NEW f \in Found, NEW i \in 1 .. Len(f), NEW j \in 1 .. Len(f[i].records), NEW k \in 0 .. 4
    PROVE  /\ f[i].records[j] \in Record
           /\ LeftBytes(f, i, j, k) \in Seq(Byte) /\ LeftResults(f, i, j, k) \in Seq(Result)
<1> DEFINE r == f[i].records[j]
<1>1. f[i] \in Query /\ (~f[i].hit => f[i].records = <<>>)
  BY FoundType
<1>2. r \in Record /\ j \in Nat
  <2> DEFINE q == f[i]
  <2>1. q \in Query /\ (~q.hit => q.records = <<>>) /\ j \in 1 .. Len(q.records) /\ r = q.records[j]
    BY <1>1
  <2> HIDE DEF q, r
  <2>2. Len(q.records) \in Nat /\ \A x \in 1 .. Len(q.records) : q.records[x] \in Record
    BY <2>1, QueryType
  <2> QED
    BY <2>1, <2>2
<1>3. RestBytes(f, i, j) \in Seq(Byte) /\ RestResults(f, i, j) \in Seq(Result)
  BY <1>2, RestType
<1>4. LeftBytes(f, i, j, k) = After(FieldBytes(r), k) \o RestBytes(f, i, j)
  BY DEF LeftBytes
<1>5. LeftResults(f, i, j, k) = SubSeq(Contents(r), k + 1, 4) \o RestResults(f, i, j)
  BY DEF LeftResults
<1> HIDE DEF r
<1>6. After(FieldBytes(r), k) \in Seq(Byte)
  <2>1. FieldBytes(r) \in Seq(Seq(Byte)) /\ k \in Nat
    BY <1>2, FieldsType
  <2> QED
    BY <2>1, AfterType
<1>7. SubSeq(Contents(r), k + 1, 4) \in Seq(Result)
  <2> DEFINE c == Contents(r)
  <2>1. c \in Seq(Result) /\ Len(c) = 4
    BY <1>2, ContentsType
  <2> HIDE DEF c
  <2>2. SubSeq(c, k + 1, Len(c)) \in Seq(Result)
    BY <2>1, TailType
  <2> QED
    BY <2>1, <2>2 DEF c
<1>8. After(FieldBytes(r), k) \o RestBytes(f, i, j) \in Seq(Byte)
  BY <1>3, <1>6, ConcatProperties
<1>9. SubSeq(Contents(r), k + 1, 4) \o RestResults(f, i, j) \in Seq(Result)
  BY <1>3, <1>7, ConcatProperties
<1> QED
  BY <1>2, <1>4, <1>5, <1>8, <1>9 DEF r

(* A field is its length, then its content. *)
FieldNext(f, i, j, k, r, before) ==
    /\ LeftBytes(f, i, j, before) =
          Number(LengthItem[k], LengthOf(r, k)) \o (Contents(r)[k] \o LeftBytes(f, i, j, k))
    /\ LeftResults(f, i, j, before) = <<Contents(r)[k]>> \o LeftResults(f, i, j, k)

LEMMA FieldLeft ==
    ASSUME NEW f \in Found, NEW i \in 1 .. Len(f), NEW j \in 1 .. Len(f[i].records),
           NEW k \in 1 .. 4, NEW r, r = f[i].records[j], NEW before, before = k - 1
    PROVE  FieldNext(f, i, j, k, r, before)
<1> DEFINE F == FieldBytes(r)
<1> DEFINE N == Number(LengthItem[k], LengthOf(r, k))
<1> DEFINE c == Contents(r)[k]
<1> DEFINE b == RestBytes(f, i, j)
<1> DEFINE s == RestResults(f, i, j)
<1>1. r \in Record /\ b \in Seq(Byte) /\ s \in Seq(Result)
  <2>1. 0 \in 0 .. 4 /\ j \in Nat
    OBVIOUS
  <2>2. r \in Record
    BY <2>1, LeftType
  <2>3. b \in Seq(Byte) /\ s \in Seq(Result)
    BY <2>1, RestType
  <2> QED
    BY <2>2, <2>3
<1>2. before \in 0 .. 3 /\ before + 1 = k /\ k \in Nat
  OBVIOUS
<1>3. /\ LeftBytes(f, i, j, before) = After(F, before) \o b /\ LeftBytes(f, i, j, k) = After(F, k) \o b
      /\ LeftResults(f, i, j, before) = SubSeq(Contents(r), before + 1, 4) \o s
      /\ LeftResults(f, i, j, k) = SubSeq(Contents(r), k + 1, 4) \o s
  BY DEF LeftBytes, LeftResults
<1>4. N \in Seq(Byte) /\ c \in Seq(Byte) /\ F[k] = N \o c
  BY <1>1, RecordFields
<1>5. F \in Seq(Seq(Byte)) /\ Len(F) = 4
  BY <1>1, FieldsType
<1> HIDE DEF F, N, c, b, s
<1>6. After(F, before) = F[k] \o After(F, k) /\ After(F, k) \in Seq(Byte)
  <2>1. before \in Nat /\ before < Len(F)
    BY <1>2, <1>5
  <2>2. After(F, before) = F[before + 1] \o After(F, before + 1)
    BY <1>5, <2>1, AfterNext
  <2>3. After(F, k) \in Seq(Byte)
    BY <1>2, <1>5, AfterType
  <2> QED
    BY <1>2, <2>2, <2>3
<1>7. After(F, before) \o b = N \o (c \o (After(F, k) \o b))
  <2> DEFINE a == After(F, k)
  <2>1. a \in Seq(Byte) /\ After(F, before) = (N \o c) \o a
    BY <1>4, <1>6
  <2> HIDE DEF a
  <2>2. b \in Seq(Byte) /\ N \in Seq(Byte) /\ c \in Seq(Byte)
    BY <1>1, <1>4
  <2>3. AllRegroup(N, c, a, b)
    BY <2>1, <2>2, FourRegroup
  <2>4. ((N \o c) \o a) \o b = N \o (c \o (a \o b))
    BY <2>3 DEF AllRegroup
  <2> QED
    BY <2>1, <2>4 DEF a
<1>8. SubSeq(Contents(r), before + 1, 4) \o s = <<c>> \o (SubSeq(Contents(r), k + 1, 4) \o s)
  <2> DEFINE C == Contents(r)
  <2> DEFINE t == SubSeq(C, k + 1, 4)
  <2>1. C \in Seq(Result) /\ Len(C) = 4 /\ c = C[k]
    BY <1>1, ContentsType DEF c
  <2> HIDE DEF C
  <2>2. k \in 1 .. Len(C) /\ 4 \in k .. Len(C)
    BY <2>1
  <2>3. SubSeq(C, k, 4) = <<C[k]>> \o SubSeq(C, k + 1, 4)
    BY <2>1, <2>2, SubSeqRecursiveFirst
  <2>4. t \in Seq(Result) /\ <<c>> \in Seq(Result)
    <3>1. C[k] \in Result
      BY <2>1, <2>2, ElementOfSeq
    <3>2. SubSeq(C, k + 1, Len(C)) \in Seq(Result)
      <4>1. k \in 0 .. Len(C)
        BY <2>2
      <4> QED
        BY <2>1, <4>1, TailType
    <3>3. <<c>> \in Seq(Result)
      BY <2>1, <3>1
    <3> QED
      BY <2>1, <3>2, <3>3
  <2>5. SubSeq(C, before + 1, 4) = <<c>> \o t
    BY <1>2, <2>1, <2>3
  <2> HIDE DEF t
  <2> DEFINE x == <<c>>
  <2>6. x \in Seq(Result) /\ SubSeq(C, before + 1, 4) = x \o t
    BY <2>4, <2>5
  <2> HIDE DEF x
  <2>7. (x \o t) \o s = x \o (t \o s)
    <3>1. x \in Seq(Result) /\ t \in Seq(Result) /\ s \in Seq(Result)
      BY <1>1, <2>4, <2>6
    <3>2. Regroups(x, t, s)
      BY <3>1, Regroup, Zenon
    <3> QED
      BY <3>2 DEF Regroups
  <2>8. SubSeq(C, before + 1, 4) \o s = x \o (t \o s)
    BY <2>6, <2>7
  <2> QED
    BY <2>8 DEF C, t, x
<1> QED
  BY <1>3, <1>7, <1>8 DEF FieldNext, N, c, F, b, s

LEMMA RecordEnd ==
    ASSUME NEW f \in Found, NEW i \in 1 .. Len(f), NEW j \in 1 .. Len(f[i].records)
    PROVE  LeftBytes(f, i, j, 4) = RestBytes(f, i, j) /\ LeftResults(f, i, j, 4) = RestResults(f, i, j)
<1> DEFINE r == f[i].records[j]
<1> DEFINE b == RestBytes(f, i, j)
<1> DEFINE s == RestResults(f, i, j)
<1>1. r \in Record /\ b \in Seq(Byte) /\ s \in Seq(Result)
  <2>1. 0 \in 0 .. 4 /\ j \in Nat
    OBVIOUS
  <2>2. r \in Record
    BY <2>1, LeftType
  <2>3. b \in Seq(Byte) /\ s \in Seq(Result)
    BY <2>1, RestType
  <2> QED
    BY <2>2, <2>3
<1>2. LeftBytes(f, i, j, 4) = After(FieldBytes(r), 4) \o b /\ LeftResults(f, i, j, 4) = SubSeq(Contents(r), 4 + 1, 4) \o s
  BY DEF LeftBytes, LeftResults
<1> HIDE DEF r, b, s
<1>3. After(FieldBytes(r), 4) = <<>>
  <2>1. FieldBytes(r) \in Seq(Seq(Byte)) /\ Len(FieldBytes(r)) = 4
    BY <1>1, FieldsType
  <2>2. After(FieldBytes(r), Len(FieldBytes(r))) = <<>>
    BY <2>1, AfterEnds
  <2> QED
    BY <2>1, <2>2
<1>4. SubSeq(Contents(r), 4 + 1, 4) = <<>>
  BY SubSeqEmpty
<1>5. <<>> \o b = b /\ <<>> \o s = s
  BY <1>1, ConcatEmptySeq
<1> QED
  BY <1>2, <1>3, <1>4, <1>5 DEF b, s

-----------------------------------------------------------------------------
(* The bytes between the server and the client *)

(* What the server has still to write, l bytes of piece p being written. *)
Unwritten(f, p, k) ==
    IF p <= Len(Pieces(f)) THEN SubSeq(Pieces(f)[p], k + 1, Len(Pieces(f)[p])) \o After(Pieces(f), p) ELSE <<>>

(* A read of the bytes x, if they are the next and have arrived. *)
Takes(s, u, x, y) ==
    LET t == SubSeq(s, Len(x) + 1, Len(s))
    IN  SubSeq(s, 1, Len(x)) = x /\ t \in Seq(Byte) /\ t \o u = y

LEMMA TakeFirst ==
    ASSUME NEW s \in Seq(Byte), NEW u \in Seq(Byte), NEW x \in Seq(Byte), NEW y \in Seq(Byte),
           s \o u = x \o y, Len(x) <= Len(s)
    PROVE  Takes(s, u, x, y)
<1> DEFINE n == Len(x)
<1>1. n \in Nat /\ Len(s) \in Nat /\ n <= Len(s) /\ n <= Len(x)
  BY LenProperties
<1>2. Lies(x, x \o y, 0) /\ x \o y \in Seq(Byte)
  BY Pair
<1>3. SubSeq(x \o y, 1, Len(x)) = x
  <2> DEFINE z == x \o y
  <2> DEFINE o == 0
  <2>1. Lies(x, z, o) /\ z \in Seq(Byte) /\ o \in Nat /\ o + 1 = 1 /\ o + Len(x) = Len(x)
    BY <1>1, <1>2
  <2> HIDE DEF z, o
  <2>2. SubSeq(z, o + 1, o + Len(x)) = x
    BY <2>1, LiesSubSeq
  <2>3. SubSeq(z, 1, Len(x)) = x
    BY <2>1, <2>2
  <2> QED
    BY <2>3 DEF z
<1>4. SubSeq(s \o u, 1, n) = SubSeq(s, 1, n)
  <2>1. 1 \in 1 .. Len(s) + 1 /\ n \in 1 - 1 .. Len(s)
    BY <1>1
  <2> HIDE DEF n
  <2> QED
    BY <2>1, SubSeqOfConcat1
<1> HIDE DEF n
<1>5. /\ SubSeq(s, n + 1, Len(s)) \in Seq(Byte)
      /\ SubSeq(s, n + 1, Len(s)) \o u = SubSeq(s \o u, n + 1, Len(s \o u))
  BY <1>1, CutTail
<1>6. SubSeq(x, n + 1, Len(x)) \o y = SubSeq(x \o y, n + 1, Len(x \o y))
  BY <1>1, CutTail
<1>7. SubSeq(x, n + 1, Len(x)) = <<>>
  <2>1. SubSeq(x, Len(x) + 1, Len(x)) = <<>>
    BY LenProperties, SubSeqEmpty
  <2> QED
    BY <2>1 DEF n
<1>8. <<>> \o y = y
  BY ConcatEmptySeq
<1>9. SubSeq(s, n + 1, Len(s)) \o u = y
  BY <1>5, <1>6, <1>7, <1>8
<1>10. SubSeq(s, 1, n) = x
  BY <1>3, <1>4 DEF n
<1> QED
  BY <1>5, <1>9, <1>10 DEF Takes, n

LEMMA UnwrittenType ==
    ASSUME NEW f, f \in Found \/ f = <<>>, NEW p \in Nat \ {0}, NEW k \in Nat, p <= Len(Pieces(f)) => k < Len(Pieces(f)[p])
    PROVE  Unwritten(f, p, k) \in Seq(Byte)
<1> DEFINE P == Pieces(f)
<1>1. Len(P) \in Nat /\ P \in Seq(Seq(Byte)) /\ \A i \in 1 .. Len(P) : P[i] \in Seq(Byte) /\ Len(P[i]) \in Nat
  BY PieceBytes
<1>2. Unwritten(f, p, k) = IF p <= Len(P) THEN SubSeq(P[p], k + 1, Len(P[p])) \o After(P, p) ELSE <<>>
  BY DEF Unwritten
<1>3. p <= Len(P) => k < Len(P[p])
  OBVIOUS
<1> HIDE DEF P
<1>4. CASE p <= Len(P)
  <2>1. p \in 1 .. Len(P)
    BY <1>1, <1>4
  <2> DEFINE x == P[p]
  <2>2. x \in Seq(Byte) /\ k \in 0 .. Len(x)
    BY <1>1, <1>3, <1>4, <2>1
  <2> HIDE DEF x
  <2>3. SubSeq(x, k + 1, Len(x)) \in Seq(Byte)
    BY <2>2, TailType
  <2>4. After(P, p) \in Seq(Byte)
    BY <1>1, AfterType
  <2>5. SubSeq(x, k + 1, Len(x)) \o After(P, p) \in Seq(Byte)
    BY <2>3, <2>4, ConcatProperties
  <2> QED
    BY <1>2, <1>4, <2>5 DEF x
<1>5. CASE ~(p <= Len(P))
  BY <1>2, <1>5, EmptySeq
<1> QED
  BY <1>4, <1>5

(* After a piece the next is written, from its start. *)
LEMMA UnwrittenNext ==
    ASSUME NEW f, f \in Found \/ f = <<>>, NEW p \in 0 .. Len(Pieces(f))
    PROVE  Unwritten(f, p + 1, 0) = After(Pieces(f), p)
<1> DEFINE P == Pieces(f)
<1> DEFINE k == p + 1
<1>1. Len(P) \in Nat /\ P \in Seq(Seq(Byte)) /\ p \in Nat /\ k = p + 1 /\ k \in Nat /\ \A i \in 1 .. Len(P) : P[i] \in Seq(Byte)
  BY PieceBytes
<1>2. Unwritten(f, k, 0) = IF k <= Len(P) THEN SubSeq(P[k], 1, Len(P[k])) \o After(P, k) ELSE <<>>
  BY DEF Unwritten
<1>3. p <= Len(P)
  OBVIOUS
<1> HIDE DEF P, k
<1>4. CASE k <= Len(P)
  <2>1. k \in 1 .. Len(P) /\ p < Len(P)
    BY <1>1, <1>4
  <2>2. SubSeq(P[k], 1, Len(P[k])) = P[k]
    BY <1>1, <2>1, SubSeqFull
  <2>3. After(P, p) = P[p + 1] \o After(P, p + 1)
    BY <1>1, <2>1, AfterNext
  <2> QED
    BY <1>1, <1>2, <1>4, <2>2, <2>3 DEF k, P
<1>5. CASE ~(k <= Len(P))
  <2>1. p = Len(P)
    BY <1>1, <1>3, <1>5
  <2>2. After(P, Len(P)) = <<>>
    BY <1>1, AfterEnds
  <2> QED
    BY <1>2, <1>5, <2>1, <2>2 DEF k, P
<1> QED
  BY <1>4, <1>5

LEMMA UnwrittenAtStart ==
    ASSUME NEW f \in Found
    PROVE  Unwritten(f, 1, 0) = After(QueryBytes(f), 0)
<1> DEFINE P == Pieces(f)
<1>1. Len(P) \in Nat /\ P \in Seq(Seq(Byte))
  BY PieceBytes
<1>2. Unwritten(f, 1, 0) = After(P, 0)
  <2> DEFINE o == 0
  <2>1. o \in 0 .. Len(P) /\ o + 1 = 1 /\ o = 0
    BY <1>1
  <2> HIDE DEF o
  <2>2. Unwritten(f, o + 1, 0) = After(P, o)
    BY <2>1, UnwrittenNext
  <2> QED
    BY <2>1, <2>2
<1>3. FlattenSeq(P) = FlattenSeq(QueryBytes(f))
  BY PiecesType
<1>4. After(P, 0) = FlattenSeq(P)
  <2> HIDE DEF P
  <2> QED
    BY <1>1, AfterEnds
<1>5. After(QueryBytes(f), 0) = FlattenSeq(QueryBytes(f))
  <2>1. QueryBytes(f) \in Seq(Seq(Byte))
    BY FoundBytes
  <2> QED
    BY <2>1, AfterEnds
<1> QED
  BY <1>2, <1>3, <1>4, <1>5

(* A write takes its bytes from those unwritten. *)
PieceCut(f, p, k, n, kn, x, y) ==
    x \in Seq(Byte) /\ y \in Seq(Byte) /\ Unwritten(f, p, k) = x \o y

LEMMA UnwrittenMore ==
    ASSUME NEW f \in Found, NEW p \in Nat \ {0}, p <= Len(Pieces(f)), NEW k \in Nat, NEW n \in Nat, NEW kn, kn = k + n,
           kn <= Len(Pieces(f)[p]), NEW x, x = SubSeq(Pieces(f)[p], k + 1, kn),
           NEW y, y = SubSeq(Pieces(f)[p], kn + 1, Len(Pieces(f)[p])) \o After(Pieces(f), p)
    PROVE  PieceCut(f, p, k, n, kn, x, y)
<1> DEFINE P == Pieces(f)
<1> DEFINE w == P[p]
<1> DEFINE z == SubSeq(w, kn + 1, Len(w))
<1> DEFINE a == After(P, p)
<1>1. /\ P \in Seq(Seq(Byte)) /\ w \in Seq(Byte) /\ Len(w) \in Nat
  <2>1. Len(P) \in Nat /\ P \in Seq(Seq(Byte)) /\ \A i \in 1 .. Len(P) : P[i] \in Seq(Byte) /\ Len(P[i]) \in Nat
    BY PieceBytes
  <2>2. p \in 1 .. Len(P)
    BY <2>1
  <2> QED
    BY <2>1, <2>2
<1>2. Unwritten(f, p, k) = SubSeq(w, k + 1, Len(w)) \o a
  BY DEF Unwritten
<1>3. x = SubSeq(w, k + 1, kn) /\ y = z \o a /\ kn <= Len(w)
  OBVIOUS
<1>4. a \in Seq(Byte)
  <2> HIDE DEF P
  <2> QED
    BY <1>1, AfterType
<1> HIDE DEF P, w, a
<1>5. SubSeq(w, k + 1, kn) \o SubSeq(w, kn + 1, Len(w)) = SubSeq(w, k + 1, Len(w))
  <2> DEFINE m == k + 1
  <2>1. m \in 1 .. Len(w) + 1 /\ kn \in m - 1 .. Len(w) /\ Len(w) \in kn .. Len(w) /\ m = k + 1
    BY <1>1, <1>3
  <2> HIDE DEF m
  <2>2. SubSeq(w, m, kn) \o SubSeq(w, kn + 1, Len(w)) = SubSeq(w, m, Len(w))
    BY <1>1, <2>1, ConcatAdjacentSubSeq
  <2> QED
    BY <2>1, <2>2
<1>6. kn \in 0 .. Len(w)
  BY <1>1, <1>3
<1>7. z \in Seq(Byte)
  BY <1>1, <1>6, TailType
<1>8. x \in Seq(Byte)
  <2> DEFINE m == k + 1
  <2>1. m \in Int /\ kn \in Int /\ m \in 1 .. kn + 1
    OBVIOUS
  <2>2. \A i \in m .. kn : w[i] \in Byte
    BY <1>1, <1>6, ElementOfSeq
  <2>3. x = SubSeq(w, m, kn)
    BY <1>3
  <2> HIDE DEF m
  <2>4. SubSeq(w, m, kn) \in Seq(Byte)
    BY <2>1, <2>2, SubSeqProperties
  <2> QED
    BY <2>3, <2>4
<1> HIDE DEF z
<1>9. Regroups(x, z, a)
  BY <1>4, <1>7, <1>8, Regroup
<1>10. (x \o z) \o a = x \o (z \o a)
  BY <1>9 DEF Regroups
<1>11. z \o a \in Seq(Byte)
  BY <1>4, <1>7, ConcatProperties
<1>12. SubSeq(w, k + 1, Len(w)) = x \o z
  BY <1>3, <1>5 DEF z
<1> QED
  BY <1>2, <1>3, <1>8, <1>10, <1>11, <1>12 DEF PieceCut

-----------------------------------------------------------------------------
(* What the client has still to read of query i *)

(* fields numbers of the query's records, and all after it. *)
ToRead(f, i, fields, bytes, res) ==
    \/ fields = 0 /\ bytes = After(QueryBytes(f), i) /\ res = After(QueryResults(f), i)
    \/ \E j \in 1 .. Len(f[i].records), k \in 0 .. 3 :
          /\ i \in 1 .. Len(f)
          /\ fields = 4 * (Len(f[i].records) - j) + 4 - k
          /\ bytes = LeftBytes(f, i, j, k) /\ res = LeftResults(f, i, j, k)

LEMMA RecordCount ==
    ASSUME NEW f \in Found, NEW i \in 1 .. Len(f)
    PROVE  Len(f[i].records) \in Nat /\ FieldsOf(Hits(f[i])) = 4 * Len(f[i].records)
<1> DEFINE q == f[i]
<1>1. q \in Query /\ (~q.hit => q.records = <<>>)
  BY FoundType
<1> HIDE DEF q
<1>2. Len(q.records) \in Nat /\ FieldsOf(Hits(q)) = 4 * Len(q.records)
  BY <1>1, QueryType
<1> QED
  BY <1>2 DEF q

(* After j records there is the next, or the next query. *)
LEMMA ToReadRecords ==
    ASSUME NEW f \in Found, NEW i \in 1 .. Len(f), NEW j \in 0 .. Len(f[i].records),
           NEW fields, fields = 4 * (Len(f[i].records) - j)
    PROVE  ToRead(f, i, fields, RestBytes(f, i, j), RestResults(f, i, j))
<1> DEFINE m == Len(f[i].records)
<1>1. m \in Nat /\ j \in 0 .. m /\ fields = 4 * (m - j)
  BY RecordCount
<1>2. /\ j < m => RestBytes(f, i, j) = LeftBytes(f, i, j + 1, 0) /\ RestResults(f, i, j) = LeftResults(f, i, j + 1, 0)
      /\ j = m => RestBytes(f, i, j) = After(QueryBytes(f), i) /\ RestResults(f, i, j) = After(QueryResults(f), i)
  BY RecordLeft
<1>3. \A bytes, res : ToRead(f, i, fields, bytes, res) <=>
          \/ fields = 0 /\ bytes = After(QueryBytes(f), i) /\ res = After(QueryResults(f), i)
          \/ \E y \in 1 .. m, k \in 0 .. 3 :
                fields = 4 * (m - y) + 4 - k /\ bytes = LeftBytes(f, i, y, k) /\ res = LeftResults(f, i, y, k)
  BY DEF ToRead
<1> HIDE DEF m
<1>4. CASE j < m
  <2> DEFINE y == j + 1
  <2> DEFINE k == 0
  <2>1. y \in 1 .. m /\ k \in 0 .. 3 /\ fields = 4 * (m - y) + 4 - k
    BY <1>1, <1>4
  <2>2. RestBytes(f, i, j) = LeftBytes(f, i, y, k) /\ RestResults(f, i, j) = LeftResults(f, i, y, k)
    BY <1>2, <1>4
  <2> HIDE DEF y, k
  <2> QED
    BY <1>3, <2>1, <2>2
<1>5. CASE j = m
  <2>1. fields = 0
    BY <1>1, <1>5
  <2> QED
    BY <1>2, <1>3, <1>5, <2>1
<1> QED
  BY <1>1, <1>4, <1>5

LEMMA ToReadFields ==
    ASSUME NEW f \in Found, NEW i \in 1 .. Len(f), NEW j \in 1 .. Len(f[i].records), NEW k \in 1 .. 4,
           NEW fields, fields = 4 * (Len(f[i].records) - j) + 4 - k
    PROVE  ToRead(f, i, fields, LeftBytes(f, i, j, k), LeftResults(f, i, j, k))
<1>1. CASE k \in 1 .. 3
  <2>1. k \in 0 .. 3
    BY <1>1
  <2> QED
    BY <2>1 DEF ToRead
<1>2. CASE k = 4
  <2>1. LeftBytes(f, i, j, k) = RestBytes(f, i, j) /\ LeftResults(f, i, j, k) = RestResults(f, i, j)
    BY <1>2, RecordEnd
  <2>2. j \in 0 .. Len(f[i].records) /\ fields = 4 * (Len(f[i].records) - j)
    BY <1>2, RecordCount
  <2>3. ToRead(f, i, fields, RestBytes(f, i, j), RestResults(f, i, j))
    BY <2>2, ToReadRecords
  <2> QED
    BY <2>1, <2>3
<1>3. k \in 1 .. 3 \/ k = 4
  OBVIOUS
<1> QED
  BY <1>1, <1>2, <1>3

(* With no field left, the next number is a count, if there is any. *)
LEMMA ToReadCount ==
    ASSUME NEW f \in Found, NEW i \in 0 .. Len(f), NEW bytes, NEW res, ToRead(f, i, 0, bytes, res)
    PROVE  bytes = After(QueryBytes(f), i) /\ res = After(QueryResults(f), i)
<1> SUFFICES ASSUME NEW j \in 1 .. Len(f[i].records), NEW k \in 0 .. 3, i \in 1 .. Len(f),
                    0 = 4 * (Len(f[i].records) - j) + 4 - k
             PROVE  FALSE
  BY DEF ToRead
<1>1. Len(f[i].records) \in Nat
  BY RecordCount
<1> QED
  BY <1>1

LEMMA ToReadEnd ==
    ASSUME NEW f \in Found
    PROVE  After(QueryBytes(f), Len(f)) = <<>> /\ After(QueryResults(f), Len(f)) = <<>>
<1>1. /\ QueryBytes(f) \in Seq(Seq(Byte)) /\ Len(QueryBytes(f)) = Len(f)
      /\ QueryResults(f) \in Seq(Seq(Result)) /\ Len(QueryResults(f)) = Len(f)
  BY FoundBytes
<1> DEFINE X == QueryBytes(f)
<1> DEFINE Y == QueryResults(f)
<1>2. X \in Seq(Seq(Byte)) /\ Y \in Seq(Seq(Result)) /\ Len(X) = Len(f) /\ Len(Y) = Len(f)
  BY <1>1
<1> HIDE DEF X, Y
<1>3. After(X, Len(X)) = <<>>
  BY <1>2, AfterEnds
<1>4. After(Y, Len(Y)) = <<>>
  BY <1>2, AfterEnds
<1> QED
  BY <1>2, <1>3, <1>4 DEF X, Y

(* What a count says, and what follows it. *)
CountRead(f, i, fields, bytes, res) ==
    /\ bytes \in Seq(Byte) /\ res \in Seq(Result)
    /\ After(QueryBytes(f), i - 1) = Bytes("count", Hits(f[i]), 4) \o bytes
    /\ After(QueryResults(f), i - 1) = <<Hits(f[i])>> \o res
    /\ Hits(f[i]) \in Int
    /\ fields = FieldsOf(Hits(f[i])) /\ fields \in Nat
    /\ ToRead(f, i, fields, bytes, res)

LEMMA NextCount ==
    ASSUME NEW f \in Found, NEW i \in 1 .. Len(f)
    PROVE  \E fields, bytes, res : CountRead(f, i, fields, bytes, res)
<1> DEFINE o == i - 1
<1> DEFINE fields == FieldsOf(Hits(f[i]))
<1> DEFINE bytes == RestBytes(f, i, 0)
<1> DEFINE res == RestResults(f, i, 0)
<1>1. o \in Nat /\ o < Len(f) /\ o + 1 = i
  BY FoundType
<1> HIDE DEF o
<1>2. /\ After(QueryBytes(f), o) = CountBytes(f[o + 1]) \o RestBytes(f, o + 1, 0)
      /\ After(QueryResults(f), o) = <<Hits(f[o + 1])>> \o RestResults(f, o + 1, 0)
  BY <1>1, CountLeft
<1>3. bytes \in Seq(Byte) /\ res \in Seq(Result)
  <2>1. 0 \in Nat
    OBVIOUS
  <2> QED
    BY <2>1, RestType
<1>4. Hits(f[i]) \in Int
  <2> DEFINE q == f[i]
  <2>1. q \in Query /\ (~q.hit => q.records = <<>>)
    BY FoundType
  <2> HIDE DEF q
  <2>2. Hits(q) \in Int
    BY <2>1, QueryType
  <2> QED
    BY <2>2 DEF q
<1>5. ToRead(f, i, fields, bytes, res) /\ fields \in Nat
  <2> DEFINE z == 0
  <2>1. z \in 0 .. Len(f[i].records) /\ fields = 4 * (Len(f[i].records) - z) /\ fields \in Nat
    BY RecordCount
  <2>2. bytes = RestBytes(f, i, z) /\ res = RestResults(f, i, z)
    OBVIOUS
  <2> HIDE DEF z, fields
  <2>3. ToRead(f, i, fields, RestBytes(f, i, z), RestResults(f, i, z))
    BY <2>1, ToReadRecords
  <2> QED
    BY <2>1, <2>2, <2>3
<1>6. /\ After(QueryBytes(f), i - 1) = Bytes("count", Hits(f[i]), 4) \o bytes
      /\ After(QueryResults(f), i - 1) = <<Hits(f[i])>> \o res
  BY <1>1, <1>2 DEF o, CountBytes
<1>7. CountRead(f, i, fields, bytes, res)
  <2>1. fields = FieldsOf(Hits(f[i]))
    OBVIOUS
  <2> HIDE DEF fields, bytes, res
  <2> QED
    BY <1>3, <1>4, <1>5, <1>6, <2>1 DEF CountRead
<1> QED
  BY <1>7

(* What a length says, and what follows it. *)
FieldRead(f, i, fields, bytes, res, item, length, content, after, later) ==
    /\ item \in Items /\ length \in Nat /\ content \in Seq(Byte) /\ after \in Seq(Byte) /\ later \in Seq(Result)
    /\ bytes = Number(item, length) \o (content \o after)
    /\ res = <<content>> \o later
    /\ Len(content) = IF fields % 4 = 3 THEN FloatSize * length ELSE length
    /\ ToRead(f, i, fields - 1, after, later)

LEMMA NextField ==
    ASSUME NEW f \in Found, NEW i, NEW fields \in Nat \ {0}, NEW bytes, NEW res, ToRead(f, i, fields, bytes, res)
    PROVE  \E item, length, content, after, later :
               FieldRead(f, i, fields, bytes, res, item, length, content, after, later)
<1>1. PICK j \in 1 .. Len(f[i].records), before \in 0 .. 3 :
          /\ i \in 1 .. Len(f)
          /\ fields = 4 * (Len(f[i].records) - j) + 4 - before
          /\ bytes = LeftBytes(f, i, j, before) /\ res = LeftResults(f, i, j, before)
  BY DEF ToRead
<1> DEFINE k == before + 1
<1> DEFINE r == f[i].records[j]
<1>2. k \in 1 .. 4 /\ before = k - 1 /\ r = f[i].records[j] /\ i \in 1 .. Len(f) /\ k \in 0 .. 4
  BY <1>1
<1> HIDE DEF k, r
<1>3. /\ LeftBytes(f, i, j, before) = Number(LengthItem[k], LengthOf(r, k)) \o (Contents(r)[k] \o LeftBytes(f, i, j, k))
      /\ LeftResults(f, i, j, before) = <<Contents(r)[k]>> \o LeftResults(f, i, j, k)
  <2>1. FieldNext(f, i, j, k, r, before)
    BY <1>2, FieldLeft
  <2> QED
    BY <2>1 DEF FieldNext
<1>4. r \in Record /\ LeftBytes(f, i, j, k) \in Seq(Byte) /\ LeftResults(f, i, j, k) \in Seq(Result)
  BY <1>2, LeftType
<1> DEFINE item == LengthItem[k]
<1> DEFINE length == LengthOf(r, k)
<1> DEFINE content == Contents(r)[k]
<1> DEFINE after == LeftBytes(f, i, j, k)
<1> DEFINE later == LeftResults(f, i, j, k)
<1>5. item \in Items /\ length \in Nat /\ content \in Seq(Byte) /\ Len(content) = IF k = 2 THEN 4 * length ELSE length
  BY <1>2, <1>4, RecordFields
<1>6. k = 2 <=> fields % 4 = 3
  <2> DEFINE m == Len(f[i].records)
  <2>1. m \in Nat /\ fields = 4 * (m - j) + 4 - before /\ j \in 1 .. m
    BY <1>1, <1>2, RecordCount
  <2> HIDE DEF m
  <2> DEFINE e == m - j
  <2>2. e \in Nat /\ fields = 4 * e + 4 - before
    BY <2>1
  <2> HIDE DEF e
  <2>3. CASE k = 1
    <3>1. before = 0 /\ fields = 4 * (e + 1)
      BY <1>2, <2>2, <2>3
    <3> QED
      BY <2>2, <2>3, <3>1
  <2>4. CASE k = 2
    <3>1. fields = 4 * e + 3
      BY <1>2, <2>2, <2>4
    <3> QED
      BY <2>2, <2>4, <3>1
  <2>5. CASE k = 3
    <3>1. fields = 4 * e + 2
      BY <1>2, <2>2, <2>5
    <3> QED
      BY <2>2, <2>5, <3>1
  <2>6. CASE k = 4
    <3>1. fields = 4 * e + 1
      BY <1>2, <2>2, <2>6
    <3> QED
      BY <2>2, <2>6, <3>1
  <2> QED
    BY <1>2, <2>3, <2>4, <2>5, <2>6
<1>7. ToRead(f, i, fields - 1, after, later)
  <2> DEFINE g == fields - 1
  <2>1. g = 4 * (Len(f[i].records) - j) + 4 - k
    BY <1>1, <1>2, RecordCount
  <2> HIDE DEF g
  <2>2. ToRead(f, i, g, LeftBytes(f, i, j, k), LeftResults(f, i, j, k))
    BY <1>2, <2>1, ToReadFields
  <2> QED
    BY <2>2 DEF g
<1>8. bytes = Number(item, length) \o (content \o after) /\ res = <<content>> \o later
  BY <1>1, <1>3
<1>9. after \in Seq(Byte) /\ later \in Seq(Result)
  BY <1>4
<1> HIDE DEF item, length, content, after, later
<1>10. Len(content) = IF fields % 4 = 3 THEN FloatSize * length ELSE length
  BY <1>5, <1>6 DEF FloatSize
<1>11. FieldRead(f, i, fields, bytes, res, item, length, content, after, later)
  BY <1>5, <1>7, <1>8, <1>9, <1>10 DEF FieldRead
<1> QED
  BY <1>11

-----------------------------------------------------------------------------
(* The client reads what the server found *)

(* s has arrived and u is to be written: rest is to come of the body read,  *)
(* b of it read, then the bytes for the results that rs lacks.              *)
Awaits(f, u, s, pa, b, rs, i, bytes, res, rest) ==
    /\ bytes \in Seq(Byte) /\ res \in Seq(Result) /\ rest \in Seq(Byte)
    /\ i \in 0 .. Len(f) /\ pa.queries = Len(f) - i
    /\ ToRead(f, i, pa.fields, bytes, res)
    /\ s \o u = rest \o bytes /\ Len(rest) = pa.need
    /\ IF pa.need = 0 THEN b = <<>> /\ rs \o res = ReadBack(f) ELSE rs \o (<<b \o rest>> \o res) = ReadBack(f)

Between(f, u, s, pa, b, rs) ==
    \E i, bytes, res, rest : Awaits(f, u, s, pa, b, rs, i, bytes, res, rest)

Parse == [queries : Nat, fields : Nat, need : Nat]

LEMMA BetweenStart ==
    ASSUME NEW f \in Found, NEW pa, pa = [Nothing EXCEPT !.queries = Len(f)]
    PROVE  Between(f, Unwritten(f, 1, 0), <<>>, pa, <<>>, <<>>)
<1> DEFINE u == Unwritten(f, 1, 0)
<1> DEFINE i == 0
<1> DEFINE res == After(QueryResults(f), i)
<1>1. u = After(QueryBytes(f), i)
  BY UnwrittenAtStart
<1>2. u \in Seq(Byte) /\ res \in Seq(Result)
  <2>1. QueryBytes(f) \in Seq(Seq(Byte)) /\ QueryResults(f) \in Seq(Seq(Result)) /\ i \in Nat
    BY FoundBytes
  <2>2. After(QueryBytes(f), i) \in Seq(Byte)
    BY <2>1, AfterType
  <2>3. After(QueryResults(f), i) \in Seq(Result)
    BY <2>1, AfterType
  <2> QED
    BY <1>1, <2>2, <2>3
<1>3. ToRead(f, i, 0, u, res)
  BY <1>1 DEF ToRead
<1>4. <<>> \o u = u /\ <<>> \o res = res /\ Len(<<>>) = 0 /\ <<>> \in Seq(Byte)
  BY <1>2, ConcatEmptySeq, EmptySeq
<1>5. res = ReadBack(f)
  <2>1. QueryResults(f) \in Seq(Seq(Result))
    BY FoundBytes
  <2>2. After(QueryResults(f), 0) = FlattenSeq(QueryResults(f))
    BY <2>1, AfterEnds
  <2> QED
    BY <2>2, ReadBackResults
<1>6. pa.queries = Len(f) /\ pa.fields = 0 /\ pa.need = 0
  BY DEF Nothing
<1>7. i \in 0 .. Len(f) /\ pa.queries = Len(f) - i
  BY <1>6, FoundType
<1> HIDE DEF u, i, res
<1>8. Awaits(f, u, <<>>, pa, <<>>, <<>>, i, u, res, <<>>)
  BY <1>2, <1>3, <1>4, <1>5, <1>6, <1>7 DEF Awaits
<1> QED
  BY <1>8 DEF Between, u

LEMMA BetweenWrite ==
    ASSUME NEW f, NEW u, NEW s \in Seq(Byte), NEW pa, NEW b, NEW rs, Between(f, u, s, pa, b, rs),
           NEW x \in Seq(Byte), NEW w \in Seq(Byte), u = x \o w
    PROVE  Between(f, w, s \o x, pa, b, rs)
<1>1. PICK i, bytes, res, rest : Awaits(f, u, s, pa, b, rs, i, bytes, res, rest)
  BY DEF Between
<1>2. Regroups(s, x, w)
  BY Regroup
<1>3. (s \o x) \o w = s \o u
  BY <1>2 DEF Regroups
<1> DEFINE t == s \o x
<1>4. t \o w = s \o u
  BY <1>3
<1> HIDE DEF t
<1>5. Awaits(f, w, t, pa, b, rs, i, bytes, res, rest)
  BY <1>1, <1>4 DEF Awaits
<1> QED
  BY <1>5 DEF Between, t

(* A number that has arrived is the one that was sent. *)
Arrived(s, u, item, value, width, y) ==
    /\ Value(s, 0, width) = value
    /\ SubSeq(s, width + 1, Len(s)) \in Seq(Byte) /\ SubSeq(s, width + 1, Len(s)) \o u = y

LEMMA NumberArrived ==
    ASSUME NEW s \in Seq(Byte), NEW u \in Seq(Byte), NEW item \in Items, NEW value \in Values, NEW width \in Nat \ {0},
           NEW y \in Seq(Byte), s \o u = Bytes(item, value, width) \o y, width <= Len(s)
    PROVE  Arrived(s, u, item, value, width, y)
<1> DEFINE x == Bytes(item, value, width)
<1>1. x \in Seq(Byte) /\ Len(x) = width
  BY BytesType
<1>2. s \o u = x \o y
  OBVIOUS
<1> HIDE DEF x
<1>3. Takes(s, u, x, y)
  BY <1>1, <1>2, TakeFirst
<1>4. /\ SubSeq(s, 1, width) = x
      /\ SubSeq(s, width + 1, Len(s)) \in Seq(Byte) /\ SubSeq(s, width + 1, Len(s)) \o u = y
  BY <1>1, <1>3 DEF Takes
<1>5. Lies(x, s, 0)
  <2>1. Len(s) \in Nat /\ \A i \in 1 .. width : SubSeq(s, 1, width)[i] = s[i]
    BY LenProperties
  <2> QED
    BY <1>1, <1>4, <2>1 DEF Lies
<1>6. Value(s, 0, width) = value
  <2> DEFINE o == 0
  <2>1. o \in Nat /\ Lies(Bytes(item, value, width), s, o)
    BY <1>5 DEF x
  <2> HIDE DEF o
  <2>2. Value(s, o, width) = value
    BY <2>1, ValueLies
  <2> QED
    BY <2>2 DEF o
<1> QED
  BY <1>4, <1>6 DEF Arrived

(* A result read, before those to come. *)
Returned(rs, v, res) ==
    Append(rs, v) \in Seq(Result) /\ rs \o (<<v>> \o res) = Append(rs, v) \o res

LEMMA ResultRead ==
    ASSUME NEW rs \in Seq(Result), NEW v \in Result, NEW res \in Seq(Result)
    PROVE  Returned(rs, v, res)
<1> DEFINE x == <<v>>
<1>1. x \in Seq(Result)
  OBVIOUS
<1>2. Append(rs, v) = rs \o x /\ Append(rs, v) \in Seq(Result)
  BY AppendIsConcat, AppendProperties
<1> HIDE DEF x
<1>3. Regroups(rs, x, res)
  BY <1>1, Regroup
<1>4. (rs \o x) \o res = rs \o (x \o res)
  BY <1>3 DEF Regroups
<1> QED
  BY <1>2, <1>4 DEF Returned, x

LEMMA CutHead ==
    ASSUME NEW s \in Seq(Byte), NEW n \in Nat, n <= Len(s)
    PROVE  SubSeq(s, 1, n) \in Seq(Byte) /\ Len(SubSeq(s, 1, n)) = n
  BY LenProperties

(* A count, a length or a part of a body read.  The conclusions are named,  *)
(* with all they depend on, to be cited.                                    *)
CountTaken(f, u, s, pa, b, rs, width, v, qa) ==
    qa \in Parse /\ Append(rs, v) \in Seq(Result)
    /\ Between(f, u, SubSeq(s, width + 1, Len(s)), qa, b, Append(rs, v))
LengthTaken(f, u, s, pa, b, rs, width, v, qa, rv) ==
    qa \in Parse /\ rv \in Seq(Result) /\ Between(f, u, SubSeq(s, width + 1, Len(s)), qa, b, rv)
BodyTaken(f, u, s, pa, b, rs, n, c, qa, bv, rv) ==
    /\ qa \in Parse /\ bv \in Seq(Byte) /\ rv \in Seq(Result)
    /\ Between(f, u, SubSeq(s, n + 1, Len(s)), qa, bv, rv)

LEMMA BetweenCount ==
    ASSUME NEW f \in Found, NEW u \in Seq(Byte), NEW s \in Seq(Byte), NEW pa \in Parse, NEW b, NEW rs \in Seq(Result),
           Between(f, u, s, pa, b, rs), pa.need = 0, pa.fields = 0, pa.queries # 0,
           NEW width, width = 4, width <= Len(s), NEW v, v = Value(s, 0, width),
           NEW qa, qa = [pa EXCEPT !.queries = @ - 1, !.fields = FieldsOf(v)]
    PROVE  CountTaken(f, u, s, pa, b, rs, width, v, qa)
<1>1. PICK o, bytes, res, rest : Awaits(f, u, s, pa, b, rs, o, bytes, res, rest)
  BY DEF Between
<1>2. /\ bytes \in Seq(Byte) /\ res \in Seq(Result) /\ rest = <<>> /\ s \o u = bytes
      /\ o \in 0 .. Len(f) /\ pa.queries = Len(f) - o /\ ToRead(f, o, 0, bytes, res)
      /\ b = <<>> /\ rs \o res = ReadBack(f)
  <2>1. /\ bytes \in Seq(Byte) /\ res \in Seq(Result) /\ rest \in Seq(Byte) /\ s \o u = rest \o bytes /\ Len(rest) = 0
        /\ o \in 0 .. Len(f) /\ pa.queries = Len(f) - o /\ ToRead(f, o, 0, bytes, res)
        /\ b = <<>> /\ rs \o res = ReadBack(f)
    BY <1>1 DEF Awaits
  <2>2. rest = <<>> /\ <<>> \o bytes = bytes
    BY <2>1, EmptySeq, ConcatEmptySeq
  <2> QED
    BY <2>1, <2>2
<1> DEFINE i == o + 1
<1>3. i \in 1 .. Len(f) /\ i - 1 = o /\ i \in 0 .. Len(f) /\ pa.queries - 1 = Len(f) - i /\ pa.queries - 1 \in Nat
  <2>1. Len(f) \in Nat /\ pa.queries \in Nat
    BY FoundType DEF Parse
  <2>2. o \in 0 .. Len(f) /\ pa.queries = Len(f) - o
    BY <1>2
  <2>3. ASSUME NEW x \in Nat, NEW y \in Nat, y \in 0 .. x, x - y # 0
        PROVE  y + 1 \in 1 .. x /\ (y + 1) - 1 = y /\ y + 1 \in 0 .. x /\ x - y - 1 = x - (y + 1) /\ x - y - 1 \in Nat
    <3>1. y < x
      BY <2>3
    <3> QED
      BY <3>1
  <2>4. o \in Nat /\ Len(f) - o # 0
    BY <2>1, <2>2
  <2> HIDE DEF i
  <2>5. o + 1 \in 1 .. Len(f) /\ (o + 1) - 1 = o /\ o + 1 \in 0 .. Len(f)
        /\ Len(f) - o - 1 = Len(f) - (o + 1) /\ Len(f) - o - 1 \in Nat
    BY <2>1, <2>2, <2>3, <2>4
  <2> QED
    BY <2>2, <2>5 DEF i
<1> HIDE DEF i
<1>4. PICK fields, after, later : CountRead(f, i, fields, after, later)
  BY <1>3, NextCount
<1> DEFINE hits == Hits(f[i])
<1>5. /\ after \in Seq(Byte) /\ later \in Seq(Result) /\ hits \in Int /\ fields \in Nat /\ fields = FieldsOf(hits)
      /\ bytes = Bytes("count", hits, 4) \o after /\ res = <<hits>> \o later
      /\ ToRead(f, i, fields, after, later)
  <2>1. bytes = After(QueryBytes(f), o) /\ res = After(QueryResults(f), o)
    BY <1>2, ToReadCount
  <2> QED
    BY <1>3, <1>4, <2>1 DEF CountRead
<1> HIDE DEF hits
<1> DEFINE t == SubSeq(s, width + 1, Len(s))
<1>6. v = hits /\ t \o u = after
  <2>1. "count" \in Items
    BY DEF Items
  <2>2. hits \in Values /\ width \in Nat \ {0} /\ s \o u = Bytes("count", hits, width) \o after
    BY <1>2, <1>5 DEF Values
  <2>3. Arrived(s, u, "count", hits, width, after)
    BY <1>5, <2>1, <2>2, NumberArrived
  <2> QED
    BY <2>3 DEF Arrived
<1> HIDE DEF t
<1>7. hits \in Result
  BY <1>5 DEF Result
<1>8. Append(rs, v) \in Seq(Result) /\ Append(rs, v) \o later = ReadBack(f)
  <2>1. Returned(rs, hits, later)
    BY <1>5, <1>7, ResultRead
  <2> QED
    BY <1>2, <1>5, <1>6, <2>1 DEF Returned
<1>9. /\ qa \in Parse /\ qa.queries = Len(f) - i /\ qa.fields = fields /\ qa.need = 0
  <2>1. qa = [pa EXCEPT !.queries = pa.queries - 1, !.fields = fields]
    BY <1>5, <1>6
  <2> QED
    BY <1>3, <1>5, <2>1 DEF Parse
<1>10. <<>> \o after = after /\ <<>> \in Seq(Byte) /\ Len(<<>>) = 0
  BY <1>5, ConcatEmptySeq, EmptySeq
<1> DEFINE rv == Append(rs, v)
<1>11. rv \o later = ReadBack(f)
  BY <1>8
<1> HIDE DEF rv
<1>12. Awaits(f, u, t, qa, b, rv, i, after, later, <<>>)
  BY <1>2, <1>3, <1>5, <1>6, <1>9, <1>10, <1>11 DEF Awaits
<1> QED
  BY <1>8, <1>9, <1>12 DEF CountTaken, Between, t, rv

LEMMA BetweenLength ==
    ASSUME NEW f \in Found, NEW u \in Seq(Byte), NEW s \in Seq(Byte), NEW pa \in Parse, NEW b, NEW rs \in Seq(Result),
           Between(f, u, s, pa, b, rs), pa.need = 0, pa.fields # 0,
           NEW width, width = SizeT, width <= Len(s), NEW v, v = Value(s, 0, width),
           NEW qa, qa = [pa EXCEPT !.fields = @ - 1, !.need = IF pa.fields % 4 = 3 THEN FloatSize * v ELSE v],
           NEW rv, rv = IF v = 0 THEN Append(rs, <<>>) ELSE rs
    PROVE  LengthTaken(f, u, s, pa, b, rs, width, v, qa, rv)
<1>1. PICK i, bytes, res, rest : Awaits(f, u, s, pa, b, rs, i, bytes, res, rest)
  BY DEF Between
<1>2. /\ bytes \in Seq(Byte) /\ res \in Seq(Result) /\ rest = <<>> /\ s \o u = bytes
      /\ i \in 0 .. Len(f) /\ pa.queries = Len(f) - i /\ ToRead(f, i, pa.fields, bytes, res)
      /\ b = <<>> /\ rs \o res = ReadBack(f)
  <2>1. /\ bytes \in Seq(Byte) /\ res \in Seq(Result) /\ rest \in Seq(Byte) /\ s \o u = rest \o bytes /\ Len(rest) = 0
        /\ i \in 0 .. Len(f) /\ pa.queries = Len(f) - i /\ ToRead(f, i, pa.fields, bytes, res)
        /\ b = <<>> /\ rs \o res = ReadBack(f)
    BY <1>1 DEF Awaits
  <2>2. rest = <<>> /\ <<>> \o bytes = bytes
    BY <2>1, EmptySeq, ConcatEmptySeq
  <2> QED
    BY <2>1, <2>2
<1> DEFINE fields == pa.fields
<1>3. fields \in Nat \ {0} /\ ToRead(f, i, fields, bytes, res)
  BY <1>2 DEF Parse
<1> HIDE DEF fields
<1>4. PICK item, length, content, after, later : FieldRead(f, i, fields, bytes, res, item, length, content, after, later)
  BY <1>3, NextField
<1>5. /\ item \in Items /\ length \in Nat /\ content \in Seq(Byte) /\ after \in Seq(Byte) /\ later \in Seq(Result)
      /\ bytes = Number(item, length) \o (content \o after)
      /\ res = <<content>> \o later
      /\ Len(content) = IF fields % 4 = 3 THEN FloatSize * length ELSE length
      /\ ToRead(f, i, fields - 1, after, later)
  BY <1>4 DEF FieldRead
<1> DEFINE y == content \o after
<1>6. y \in Seq(Byte)
  BY <1>5, ConcatProperties
<1> HIDE DEF y
<1> DEFINE t == SubSeq(s, width + 1, Len(s))
<1>7. v = length /\ t \o u = y
  <2>1. length \in Values /\ width \in Nat \ {0}
    BY <1>5 DEF Values, SizeT
  <2>2. s \o u = Bytes(item, length, width) \o y
    BY <1>2, <1>5 DEF Number, y
  <2>3. Arrived(s, u, item, length, width, y)
    BY <1>5, <1>6, <2>1, <2>2, NumberArrived
  <2> QED
    BY <2>3 DEF Arrived
<1> HIDE DEF t
<1> DEFINE need == Len(content)
<1>8. /\ need \in Nat /\ (need = 0 <=> length = 0)
      /\ need = IF fields % 4 = 3 THEN FloatSize * length ELSE length
  BY <1>5 DEF FloatSize
<1> HIDE DEF need
<1>9. qa \in Parse /\ qa.queries = Len(f) - i /\ qa.fields = fields - 1 /\ qa.need = need
  <2>1. qa = [pa EXCEPT !.fields = fields - 1, !.need = need]
    BY <1>7, <1>8 DEF fields
  <2>2. pa.queries \in Nat /\ fields - 1 \in Nat /\ need \in Nat
    BY <1>3, <1>8 DEF Parse
  <2>3. qa \in Parse /\ qa.queries = pa.queries /\ qa.fields = fields - 1 /\ qa.need = need
    <3> HIDE DEF fields
    <3> DEFINE g == fields - 1
    <3>1. g \in Nat /\ qa = [pa EXCEPT !.fields = g, !.need = need]
      BY <2>1, <2>2
    <3> HIDE DEF g, need
    <3>2. qa \in Parse /\ qa.queries = pa.queries /\ qa.fields = g /\ qa.need = need
      BY <2>2, <3>1 DEF Parse
    <3> QED
      BY <3>2 DEF g
  <2> QED
    BY <1>2, <2>3
<1>10. <<>> \o after = after /\ <<>> \in Seq(Byte) /\ Len(<<>>) = 0 /\ <<>> \o content = content
  BY <1>5, ConcatEmptySeq, EmptySeq
<1>11. CASE length = 0
  <2>1. content = <<>>
    BY <1>5, <1>8, <1>11, EmptySeq DEF need
  <2>2. content \in Result
    BY <1>5 DEF Result
  <2>3. Append(rs, content) \in Seq(Result) /\ Append(rs, content) \o later = ReadBack(f)
    <3>1. Returned(rs, content, later)
      BY <1>5, <2>2, ResultRead
    <3> QED
      BY <1>2, <1>5, <3>1 DEF Returned
  <2>4. rv = Append(rs, content)
    BY <1>7, <1>11, <2>1
  <2>5. t \o u = <<>> \o after
    BY <1>7, <2>1 DEF y
  <2>6. qa.need = 0 /\ ToRead(f, i, qa.fields, after, later)
    BY <1>5, <1>8, <1>9, <1>11
  <2>7. Awaits(f, u, t, qa, b, rv, i, after, later, <<>>)
    BY <1>2, <1>5, <1>9, <1>10, <2>3, <2>4, <2>5, <2>6 DEF Awaits
  <2> QED
    BY <1>9, <2>3, <2>4, <2>7 DEF LengthTaken, Between, t
<1>12. CASE length # 0
  <2>1. rv = rs
    BY <1>7, <1>12
  <2>2. qa.need # 0 /\ Len(content) = qa.need /\ ToRead(f, i, qa.fields, after, later)
    BY <1>5, <1>8, <1>9, <1>12 DEF need
  <2>3. t \o u = content \o after
    BY <1>7 DEF y
  <2>4. rv \o (<<b \o content>> \o later) = ReadBack(f)
    <3>1. b \o content = content
      BY <1>2, <1>10
    <3> QED
      BY <1>2, <1>5, <2>1, <3>1
  <2>5. Awaits(f, u, t, qa, b, rv, i, after, later, content)
    BY <1>2, <1>5, <1>9, <2>2, <2>3, <2>4 DEF Awaits
  <2> QED
    BY <1>9, <2>1, <2>5 DEF LengthTaken, Between, t
<1> QED
  BY <1>11, <1>12

LEMMA BetweenBody ==
    ASSUME NEW f, NEW u \in Seq(Byte), NEW s \in Seq(Byte), NEW pa \in Parse, NEW b \in Seq(Byte),
           NEW rs \in Seq(Result), Between(f, u, s, pa, b, rs),
           NEW n \in Nat \ {0}, n <= pa.need, n <= Len(s),
           NEW c, c = b \o SubSeq(s, 1, n), NEW qa, qa = [pa EXCEPT !.need = @ - n],
           NEW bv, bv = IF n = pa.need THEN <<>> ELSE c,
           NEW rv, rv = IF n = pa.need THEN Append(rs, c) ELSE rs
    PROVE  BodyTaken(f, u, s, pa, b, rs, n, c, qa, bv, rv)
<1>1. PICK i, bytes, res, rest : Awaits(f, u, s, pa, b, rs, i, bytes, res, rest)
  BY DEF Between
<1>2. pa.need \in Nat /\ pa.need # 0 /\ pa.need - n \in Nat
  BY DEF Parse
<1>3. /\ bytes \in Seq(Byte) /\ res \in Seq(Result) /\ rest \in Seq(Byte) /\ s \o u = rest \o bytes /\ Len(rest) = pa.need
      /\ i \in 0 .. Len(f) /\ pa.queries = Len(f) - i /\ ToRead(f, i, pa.fields, bytes, res)
      /\ rs \o (<<b \o rest>> \o res) = ReadBack(f)
  BY <1>1, <1>2 DEF Awaits
<1> DEFINE x == SubSeq(rest, 1, n)
<1> DEFINE z == SubSeq(rest, n + 1, Len(rest))
<1>4. n <= Len(rest) /\ n \in Nat
  BY <1>3
<1>5. z \in Seq(Byte) /\ Len(z) = Len(rest) - n /\ z \o bytes = SubSeq(rest \o bytes, n + 1, Len(rest \o bytes))
  BY <1>3, <1>4, CutTail
<1>6. b \o x \in Seq(Byte) /\ (b \o x) \o z = b \o rest
  BY <1>3, <1>4, TakeMore
<1>7. x \in Seq(Byte) /\ Len(x) = n
  BY <1>3, <1>4, CutHead
<1>8. x \o z = rest
  <2>1. <<>> \in Seq(Byte)
    BY EmptySeq
  <2> DEFINE e == <<>>
  <2>2. e \in Seq(Byte) /\ e \o x = x /\ e \o rest = rest
    BY <1>3, <1>7, <2>1, ConcatEmptySeq
  <2> HIDE DEF e
  <2>3. (e \o x) \o z = e \o rest
    BY <1>3, <1>4, <2>2, TakeMore
  <2> QED
    BY <2>2, <2>3
<1> DEFINE y == z \o bytes
<1>9. y \in Seq(Byte)
  BY <1>3, <1>5, ConcatProperties
<1> HIDE DEF x, z
<1>10. s \o u = x \o y
  <2>1. Regroups(x, z, bytes)
    BY <1>3, <1>5, <1>7, Regroup
  <2>2. (x \o z) \o bytes = x \o (z \o bytes)
    BY <2>1 DEF Regroups
  <2> QED
    BY <1>3, <1>8, <2>2
<1> HIDE DEF y
<1>11. Takes(s, u, x, y)
  BY <1>7, <1>9, <1>10, TakeFirst
<1> DEFINE t == SubSeq(s, n + 1, Len(s))
<1>12. SubSeq(s, 1, n) = x /\ t \o u = z \o bytes
  BY <1>7, <1>11 DEF Takes, y
<1>13. c = b \o x /\ c \in Seq(Byte) /\ c \o z = b \o rest
  BY <1>6, <1>12 DEF x, z
<1> HIDE DEF t
<1>14. qa \in Parse /\ qa.queries = pa.queries /\ qa.fields = pa.fields /\ qa.need = pa.need - n
  BY <1>2 DEF Parse
<1>15. CASE n = pa.need
  <2>1. z = <<>>
    BY <1>3, <1>5, <1>15, EmptySeq
  <2>2. c = b \o rest /\ bv = <<>> /\ rv = Append(rs, c) /\ <<>> \in Seq(Byte) /\ Len(<<>>) = 0
    BY <1>13, <1>15, <2>1, ConcatEmptySeq, EmptySeq
  <2>3. c \in Result
    BY <1>13 DEF Result
  <2>4. Append(rs, c) \in Seq(Result) /\ Append(rs, c) \o res = ReadBack(f)
    <3>1. Returned(rs, c, res)
      BY <1>3, <2>3, ResultRead
    <3> QED
      BY <1>3, <2>2, <3>1 DEF Returned
  <2>5. qa.need = 0
    BY <1>2, <1>14, <1>15
  <2>6. t \o u = <<>> \o bytes
    BY <1>12, <2>1
  <2>7. Awaits(f, u, t, qa, bv, rv, i, bytes, res, <<>>)
    BY <1>3, <1>14, <2>2, <2>4, <2>5, <2>6 DEF Awaits
  <2> QED
    BY <1>14, <2>2, <2>4, <2>7 DEF BodyTaken, Between, t
<1>16. CASE n # pa.need
  <2>1. qa.need # 0 /\ Len(z) = qa.need
    <3>1. Len(z) = Len(rest) - n /\ Len(rest) = pa.need /\ qa.need = pa.need - n
      BY <1>3, <1>5, <1>14
    <3> DEFINE need == pa.need
    <3>2. need \in Nat /\ n \in Nat /\ n # need /\ qa.need = need - n /\ Len(z) = need - n
      BY <1>2, <1>16, <3>1
    <3> HIDE DEF need
    <3> QED
      BY <3>2
  <2>2. bv = c /\ rv = rs
    BY <1>16
  <2>3. rv \o (<<bv \o z>> \o res) = ReadBack(f)
    BY <1>3, <1>13, <2>2
  <2>4. Awaits(f, u, t, qa, bv, rv, i, bytes, res, z)
    BY <1>3, <1>5, <1>12, <1>14, <2>1, <2>3 DEF Awaits
  <2> QED
    BY <1>13, <1>14, <2>2, <2>4 DEF BodyTaken, Between, t
<1> QED
  BY <1>15, <1>16

LEMMA BetweenEnd ==
    ASSUME NEW f \in Found, NEW u, NEW s, NEW b, NEW rs \in Seq(Result), Between(f, u, s, Nothing, b, rs)
    PROVE  rs = ReadBack(f)
<1>1. PICK i, bytes, res, rest : Awaits(f, u, s, Nothing, b, rs, i, bytes, res, rest)
  BY DEF Between
<1>2. Nothing.queries = 0 /\ Nothing.fields = 0 /\ Nothing.need = 0
  BY DEF Nothing
<1>3. i \in 0 .. Len(f) /\ Len(f) - i = 0 /\ ToRead(f, i, 0, bytes, res) /\ rs \o res = ReadBack(f)
  BY <1>1, <1>2 DEF Awaits
<1>4. i = Len(f)
  BY <1>3, FoundType
<1>5. res = After(QueryResults(f), i)
  BY <1>3, ToReadCount
<1>6. res = <<>>
  BY <1>4, <1>5, ToReadEnd
<1>7. rs \o <<>> = rs
  BY ConcatEmptySeq
<1> QED
  BY <1>3, <1>6, <1>7

-----------------------------------------------------------------------------
(* A search returns what was found *)

(* Until the call ends, the bytes sent and unwritten, and the results, are  *)
(* those of the reply; a call that returned has all of them.                *)
Reading ==
    /\ outcome \in {"none", "ok", "PeriplusServerError", "struct.error"}
    /\ parse \in Parse /\ sent \in Seq(Byte) /\ body \in Seq(Byte) /\ results \in Seq(Result)
    /\ call.command # "SEARCH" => parse = Nothing
    /\ call.command = "SEARCH" /\ phase \notin {"reply", "done"} =>
          /\ outcome = "none" /\ parse = [Nothing EXCEPT !.queries = Len(call.vectors)]
          /\ body = <<>> /\ results = <<>>
    /\ call.command = "SEARCH" /\ phase \in {"reply", "done"} =>
          /\ outcome = "none" => Between(found, Unwritten(found, piece, l), sent, parse, body, results)
          /\ outcome = "ok" => results = ReadBack(found)

LEMMA SearchVectors ==
    ASSUME NEW p \in Calls, p.command = "SEARCH"
    PROVE  Len(p.vectors) \in Nat \ {0}
<1>1. p.vectors \in Seq(Nat) /\ p.vectors # <<>>
  BY UniformAssumption
<1> QED
  BY <1>1, EmptySeq, LenProperties

LEMMA ReadingInit == Init => Reading
<1> SUFFICES ASSUME Init PROVE Reading
  OBVIOUS
<1>1. /\ phase = "line" /\ sent = <<>> /\ body = <<>> /\ results = <<>> /\ outcome = "none" /\ call \in Calls
      /\ parse = IF call.command = "SEARCH" THEN [Nothing EXCEPT !.queries = Len(call.vectors)] ELSE Nothing
  BY DEF Init
<1>2. parse \in Parse
  <2>1. Nothing \in Parse
    BY DEF Nothing, Parse
  <2>2. ASSUME call.command = "SEARCH" PROVE [Nothing EXCEPT !.queries = Len(call.vectors)] \in Parse
    <3>1. Len(call.vectors) \in Nat
      BY <1>1, <2>2, SearchVectors
    <3> QED
      BY <3>1 DEF Nothing, Parse
  <2> QED
    BY <1>1, <2>1, <2>2
<1>3. sent \in Seq(Byte) /\ body \in Seq(Byte) /\ results \in Seq(Result)
  BY <1>1, EmptySeq
<1> QED
  BY <1>1, <1>2, <1>3 DEF Reading

LEMMA TakenReading ==
    ASSUME Written, Written', Reading, Taken
    PROVE  Reading'
<1>1. /\ call' = call /\ piece' = piece /\ l' = l /\ sent' = sent /\ phase \notin {"reply", "done"}
      /\ parse' = parse /\ body' = body /\ results' = results /\ outcome' = outcome
      /\ phase' \in {"static", "dynamic", "terminated", "reply"}
  BY DEF Taken, client
<1>2. CASE call.command # "SEARCH" \/ phase' # "reply"
  BY <1>1, <1>2 DEF Reading
<1>3. CASE call.command = "SEARCH" /\ phase' = "reply"
  <2>1. found' \in Found /\ Len(found') = Len(call.vectors)
    BY <1>1, <1>3 DEF Written
  <2>2. /\ outcome = "none" /\ parse = [Nothing EXCEPT !.queries = Len(call.vectors)] /\ body = <<>> /\ results = <<>>
    BY <1>1, <1>3 DEF Reading
  <2>3. sent = <<>> /\ piece = 1 /\ l = 0
    BY <1>1 DEF Written
  <2> DEFINE f == found'
  <2>4. f \in Found /\ parse = [Nothing EXCEPT !.queries = Len(f)]
    BY <2>1, <2>2
  <2> HIDE DEF f
  <2>5. Between(f, Unwritten(f, 1, 0), <<>>, parse, <<>>, <<>>)
    BY <2>4, BetweenStart
  <2>6. Between(found', Unwritten(found', piece', l'), sent', parse', body', results')
    BY <1>1, <2>2, <2>3, <2>5 DEF f
  <2> QED
    BY <1>1, <1>3, <2>2, <2>6 DEF Reading
<1> QED
  BY <1>2, <1>3

LEMMA WriteSearchReading ==
    ASSUME Written, Reading, WriteSearch
    PROVE  Reading'
<1> DEFINE P == Pieces(found)
<1> DEFINE size == Len(P[piece])
<1> DEFINE u == Unwritten(found, piece, l)
<1> DEFINE w == Unwritten(found', piece', l')
<1>1. /\ piece \in Nat \ {0} /\ l \in Nat /\ piece <= Len(P) /\ l < size /\ found \in Found
      /\ call.command = "SEARCH" /\ phase = "reply"
  BY DEF Written, WriteSearch
<1>2. /\ found' = found /\ call' = call /\ phase' = phase
      /\ parse' = parse /\ body' = body /\ results' = results /\ outcome' = outcome
  BY DEF WriteSearch, request, client
<1>3. Len(P) \in Nat /\ size \in Nat /\ MaxLength \in Nat
  <2>1. /\ Len(P) \in Nat /\ \A i \in 1 .. Len(P) : Len(P[i]) \in Nat
    BY <1>1, PieceBytes
  <2>2. piece \in 1 .. Len(P)
    BY <1>1, <2>1
  <2> QED
    BY <2>1, <2>2, SizesAssumption
<1>4. PICK n \in Nat : /\ sent' = sent \o SubSeq(P[piece], l + 1, l + n) /\ l + n <= size
                       /\ \/ l' = l + n /\ piece' = piece
                          \/ l + n = size /\ l' = 0 /\ piece' = piece + 1
  <2>1. \/ More(size) /\ sent' = sent \o SubSeq(P[piece], l + 1, l + MaxLength) /\ l' = l + MaxLength /\ piece' = piece
        \/ ~More(size) /\ sent' = sent \o SubSeq(P[piece], l + 1, l + (size - l)) /\ l' = 0 /\ piece' = piece + 1
    BY DEF WriteSearch, write
  <2> HIDE DEF size
  <2>2. CASE More(size) /\ sent' = sent \o SubSeq(P[piece], l + 1, l + MaxLength) /\ l' = l + MaxLength /\ piece' = piece
    <3>1. l + MaxLength <= size
      BY <1>1, <1>3, <2>2 DEF More
    <3> QED
      BY <1>3, <2>2, <3>1
  <2>3. CASE ~More(size) /\ sent' = sent \o SubSeq(P[piece], l + 1, l + (size - l)) /\ l' = 0 /\ piece' = piece + 1
    <3> DEFINE n == size - l
    <3>1. n \in Nat /\ l + n = size
      BY <1>1, <1>3
    <3>2. sent' = sent \o SubSeq(P[piece], l + 1, l + n)
      BY <2>3
    <3> HIDE DEF n
    <3>3. l + n <= size /\ l' = 0 /\ piece' = piece + 1
      BY <1>3, <2>3, <3>1
    <3> QED
      BY <3>1, <3>2, <3>3
  <2> QED
    BY <2>1, <2>2, <2>3
<1> DEFINE ln == l + n
<1> DEFINE x == SubSeq(P[piece], l + 1, ln)
<1> DEFINE y == SubSeq(P[piece], ln + 1, size) \o After(P, piece)
<1>5. x \in Seq(Byte) /\ y \in Seq(Byte) /\ u = x \o y
  <2>1. piece <= Len(P) /\ ln = l + n /\ ln <= Len(P[piece])
    BY <1>1, <1>4
  <2>2. x = SubSeq(Pieces(found)[piece], l + 1, ln)
    OBVIOUS
  <2>3. y = SubSeq(Pieces(found)[piece], ln + 1, Len(Pieces(found)[piece])) \o After(Pieces(found), piece)
    OBVIOUS
  <2>4. piece <= Len(Pieces(found)) /\ ln <= Len(Pieces(found)[piece])
    BY <2>1
  <2> HIDE DEF x, y, ln, P, u
  <2>5. PieceCut(found, piece, l, n, ln, x, y)
    BY <1>1, <2>1, <2>2, <2>3, <2>4, UnwrittenMore
  <2> QED
    BY <2>5 DEF PieceCut, u
<1>6. w = y
  <2>1. CASE l' = ln /\ piece' = piece
    BY <1>1, <1>2, <2>1 DEF Unwritten
  <2>2. CASE ln = size /\ l' = 0 /\ piece' = piece + 1
    <3>1. piece \in 0 .. Len(P)
      BY <1>1, <1>3
    <3>2. Unwritten(found, piece + 1, 0) = After(P, piece)
      BY <1>1, <3>1, UnwrittenNext
    <3>3. w = After(P, piece)
      BY <1>2, <2>2, <3>2
    <3>4. P \in Seq(Seq(Byte))
      BY <1>1, PieceBytes
    <3> DEFINE a == After(P, piece)
    <3>5. a \in Seq(Byte)
      <4> HIDE DEF P
      <4> QED
        BY <1>1, <3>4, AfterType
    <3>6. SubSeq(P[piece], ln + 1, size) = <<>>
      <4> DEFINE m == ln + 1
      <4>1. m \in Int /\ size \in Int /\ m > size
        BY <1>3, <2>2
      <4> HIDE DEF m, size
      <4>2. SubSeq(P[piece], m, size) = <<>>
        BY <4>1, SubSeqEmpty
      <4> QED
        BY <4>2 DEF m
    <3> HIDE DEF a
    <3>7. <<>> \o a = a
      BY <3>5, ConcatEmptySeq
    <3> QED
      BY <3>3, <3>6, <3>7 DEF a
  <2> QED
    BY <1>4, <2>1, <2>2
<1>7. sent \in Seq(Byte) /\ sent' = sent \o x
  BY <1>4 DEF Reading
<1> HIDE DEF P, x, y, u, w
<1>8. sent' \in Seq(Byte)
  BY <1>5, <1>7, ConcatProperties
<1>9. ASSUME outcome = "none" PROVE Between(found', w, sent', parse', body', results')
  <2>1. Between(found, u, sent, parse, body, results)
    BY <1>1, <1>9 DEF Reading, u
  <2>2. Between(found, y, sent \o x, parse, body, results)
    BY <1>5, <1>7, <2>1, BetweenWrite
  <2> QED
    BY <1>2, <1>6, <1>7, <2>2
<1> QED
  BY <1>1, <1>2, <1>8, <1>9 DEF Reading, w

LEMMA ReadNumberReading ==
    ASSUME Received, Written, Reading, NEW n \in 1 .. Len(sent), ReadNumber(n)
    PROVE  Reading'
<1> DEFINE u == Unwritten(found, piece, l)
<1> DEFINE width == IF parse.fields = 0 THEN 4 ELSE SizeT
<1> DEFINE v == Value(sent, 0, width)
<1>1. /\ outcome = "none" /\ parse # Nothing /\ parse.need = 0 /\ sent' = SubSeq(sent, n + 1, Len(sent))
      /\ body' = body /\ call' = call /\ phase' = phase /\ found' = found /\ piece' = piece /\ l' = l
  BY DEF ReadNumber, receive, request, reply
<1>2. \/ outcome' = "struct.error" /\ parse' = parse /\ results' = results
      \/ /\ n = width /\ parse.fields = 0 /\ outcome' = outcome
         /\ parse' = [parse EXCEPT !.queries = @ - 1, !.fields = FieldsOf(v)] /\ results' = Append(results, v)
      \/ /\ n = width /\ parse.fields > 0 /\ outcome' = outcome
         /\ parse' = [parse EXCEPT !.fields = @ - 1, !.need = IF parse.fields % 4 = 3 THEN FloatSize * v ELSE v]
         /\ results' = IF v = 0 THEN Append(results, <<>>) ELSE results
  BY DEF ReadNumber
<1>3. /\ parse \in Parse /\ sent \in Seq(Byte) /\ body \in Seq(Byte) /\ results \in Seq(Result)
      /\ call.command = "SEARCH"
  BY <1>1 DEF Reading
<1>4. n \in Nat /\ n <= Len(sent) /\ sent' \in Seq(Byte)
  <2>1. Len(sent) \in Nat
    BY <1>3, LenProperties
  <2>2. n \in 0 .. Len(sent)
    BY <2>1
  <2>3. SubSeq(sent, n + 1, Len(sent)) \in Seq(Byte)
    BY <1>3, <2>2, TailType
  <2> QED
    BY <1>1, <2>1, <2>2, <2>3
<1>5. phase \in {"reply", "done"}
  <2> SUFFICES ASSUME phase \notin {"reply", "done"} PROVE FALSE
    OBVIOUS
  <2>1. sent = <<>>
    BY DEF Written
  <2>2. Len(sent) = 0
    BY <2>1, EmptySeq
  <2> QED
    BY <2>2
<1>6. found \in Found /\ u \in Seq(Byte)
  <2>1. found \in Found
    BY <1>3, <1>5 DEF Written
  <2>2. piece \in Nat \ {0} /\ l \in Nat /\ (piece <= Len(Pieces(found)) => l < Len(Pieces(found)[piece]))
    BY DEF Written
  <2>3. Unwritten(found, piece, l) \in Seq(Byte)
    BY <2>1, <2>2, UnwrittenType
  <2> QED
    BY <2>1, <2>3
<1> HIDE DEF u, v, width
<1>7. Between(found, u, sent, parse, body, results)
  BY <1>1, <1>3, <1>5 DEF Reading, u
<1>8. Unwritten(found', piece', l') = u
  BY <1>1 DEF u
<1>9. CASE outcome' = "struct.error" /\ parse' = parse /\ results' = results
  BY <1>1, <1>3, <1>4, <1>5, <1>9 DEF Reading
<1>10. ASSUME parse' \in Parse, results' \in Seq(Result), outcome' = outcome,
              Between(found, u, sent', parse', body, results')
       PROVE  Reading'
  <2>1. Between(found', Unwritten(found', piece', l'), sent', parse', body', results')
    BY <1>1, <1>8, <1>10
  <2> QED
    BY <1>1, <1>3, <1>4, <1>5, <1>10, <2>1 DEF Reading
<1>11. CASE /\ n = width /\ parse.fields = 0 /\ outcome' = outcome
            /\ parse' = [parse EXCEPT !.queries = @ - 1, !.fields = FieldsOf(v)] /\ results' = Append(results, v)
  <2>1. width = 4 /\ width <= Len(sent) /\ v = Value(sent, 0, width) /\ sent' = SubSeq(sent, width + 1, Len(sent))
    BY <1>1, <1>4, <1>11 DEF width, v
  <2>2. parse.queries # 0
    <3> SUFFICES ASSUME parse.queries = 0 PROVE FALSE
      OBVIOUS
    <3>1. parse = [queries |-> 0, fields |-> 0, need |-> 0]
      BY <1>1, <1>3, <1>11 DEF Parse
    <3> QED
      BY <1>1, <3>1 DEF Nothing
  <2> DEFINE qa == parse'
  <2>3. qa = [parse EXCEPT !.queries = @ - 1, !.fields = FieldsOf(v)]
    BY <1>11
  <2> HIDE DEF qa
  <2>4. CountTaken(found, u, sent, parse, body, results, width, v, qa)
    BY <1>1, <1>3, <1>6, <1>7, <1>11, <2>1, <2>2, <2>3, BetweenCount
  <2> QED
    BY <1>1, <1>10, <1>11, <2>1, <2>4 DEF CountTaken, qa
<1>12. CASE /\ n = width /\ parse.fields > 0 /\ outcome' = outcome
            /\ parse' = [parse EXCEPT !.fields = @ - 1, !.need = IF parse.fields % 4 = 3 THEN FloatSize * v ELSE v]
            /\ results' = IF v = 0 THEN Append(results, <<>>) ELSE results
  <2>1. parse.fields # 0
    BY <1>3, <1>12 DEF Parse
  <2>2. width = SizeT /\ width <= Len(sent) /\ v = Value(sent, 0, width) /\ sent' = SubSeq(sent, width + 1, Len(sent))
    BY <1>1, <1>4, <1>12, <2>1 DEF width, v
  <2> DEFINE qa == parse'
  <2> DEFINE rv == results'
  <2>3. /\ qa = [parse EXCEPT !.fields = @ - 1, !.need = IF parse.fields % 4 = 3 THEN FloatSize * v ELSE v]
        /\ rv = IF v = 0 THEN Append(results, <<>>) ELSE results
    BY <1>12
  <2> HIDE DEF qa, rv
  <2>4. LengthTaken(found, u, sent, parse, body, results, width, v, qa, rv)
    BY <1>1, <1>3, <1>6, <1>7, <2>1, <2>2, <2>3, BetweenLength
  <2> QED
    BY <1>1, <1>10, <1>12, <2>2, <2>4 DEF LengthTaken, qa, rv
<1> QED
  BY <1>2, <1>9, <1>11, <1>12

LEMMA ReadBodyReading ==
    ASSUME Received, Written, Reading, NEW n \in 1 .. Len(sent), ReadBody(n)
    PROVE  Reading'
<1> DEFINE u == Unwritten(found, piece, l)
<1> DEFINE c == body \o SubSeq(sent, 1, n)
<1>1. /\ outcome = "none" /\ parse.need > 0 /\ sent' = SubSeq(sent, n + 1, Len(sent))
      /\ n <= Least(parse.need, MaxRead)
      /\ body' = IF n = parse.need THEN <<>> ELSE c
      /\ results' = IF n = parse.need THEN Append(results, c) ELSE results
      /\ parse' = [parse EXCEPT !.need = @ - n]
      /\ outcome' = outcome /\ call' = call /\ phase' = phase /\ found' = found /\ piece' = piece /\ l' = l
  BY DEF ReadBody, receive, request, reply
<1>2. /\ parse \in Parse /\ sent \in Seq(Byte) /\ body \in Seq(Byte) /\ results \in Seq(Result)
  BY DEF Reading
<1>3. call.command = "SEARCH"
  <2> SUFFICES ASSUME parse = Nothing PROVE FALSE
    BY DEF Reading
  <2>1. parse.need = 0
    BY DEF Nothing
  <2> QED
    BY <1>1, <2>1
<1>4. n \in Nat \ {0} /\ n <= Len(sent) /\ sent' \in Seq(Byte)
  <2>1. Len(sent) \in Nat
    BY <1>2, LenProperties
  <2>2. n \in 0 .. Len(sent)
    BY <2>1
  <2>3. SubSeq(sent, n + 1, Len(sent)) \in Seq(Byte)
    BY <1>2, <2>2, TailType
  <2> QED
    BY <1>1, <2>1, <2>2, <2>3
<1>5. phase \in {"reply", "done"}
  <2> SUFFICES ASSUME phase \notin {"reply", "done"} PROVE FALSE
    OBVIOUS
  <2>1. sent = <<>>
    BY DEF Written
  <2>2. Len(sent) = 0
    BY <2>1, EmptySeq
  <2> QED
    BY <2>2
<1>6. found \in Found /\ u \in Seq(Byte)
  <2>1. found \in Found
    BY <1>3, <1>5 DEF Written
  <2>2. piece \in Nat \ {0} /\ l \in Nat /\ (piece <= Len(Pieces(found)) => l < Len(Pieces(found)[piece]))
    BY DEF Written
  <2>3. Unwritten(found, piece, l) \in Seq(Byte)
    BY <2>1, <2>2, UnwrittenType
  <2> QED
    BY <2>1, <2>3
<1>7. n <= parse.need
  <2>1. parse.need \in Nat /\ MaxRead \in Nat
    BY <1>2, SizesAssumption DEF Parse
  <2> DEFINE need == parse.need
  <2>2. n <= Least(need, MaxRead) /\ n \in Nat
    BY <1>1, <1>4
  <2> HIDE DEF need
  <2>3. n <= need
    BY <2>1, <2>2 DEF Least, need
  <2> QED
    BY <2>3 DEF need
<1>8. c = body \o SubSeq(sent, 1, n)
  OBVIOUS
<1> HIDE DEF u, c
<1>9. Between(found, u, sent, parse, body, results)
  BY <1>1, <1>3, <1>5 DEF Reading, u
<1> DEFINE qa == parse'
<1> DEFINE bv == body'
<1> DEFINE rv == results'
<1>10. /\ qa = [parse EXCEPT !.need = @ - n]
       /\ bv = IF n = parse.need THEN <<>> ELSE c
       /\ rv = IF n = parse.need THEN Append(results, c) ELSE results
  BY <1>1
<1> HIDE DEF qa, bv, rv
<1>11. /\ qa \in Parse /\ bv \in Seq(Byte) /\ rv \in Seq(Result)
       /\ Between(found, u, SubSeq(sent, n + 1, Len(sent)), qa, bv, rv)
  <2>1. BodyTaken(found, u, sent, parse, body, results, n, c, qa, bv, rv)
    BY <1>2, <1>4, <1>6, <1>7, <1>8, <1>9, <1>10, BetweenBody
  <2> QED
    BY <2>1 DEF BodyTaken
<1>12. Between(found', Unwritten(found', piece', l'), sent', parse', body', results')
  BY <1>1, <1>11 DEF u, qa, bv, rv
<1> QED
  BY <1>1, <1>3, <1>4, <1>5, <1>11, <1>12 DEF Reading, qa, bv, rv

(* A search has not read its results before the reply begins. *)
LEMMA SearchServed ==
    ASSUME Received, Reading, call.command = "SEARCH", parse = Nothing
    PROVE  phase \in {"reply", "done"}
<1> SUFFICES ASSUME phase \notin {"reply", "done"} PROVE FALSE
  OBVIOUS
<1>1. Nothing = [Nothing EXCEPT !.queries = Len(call.vectors)]
  BY DEF Reading
<1>2. Nothing.queries = 0 /\ [Nothing EXCEPT !.queries = Len(call.vectors)].queries = Len(call.vectors)
  BY DEF Nothing
<1>3. Len(call.vectors) \in Nat \ {0}
  BY SearchVectors DEF Received
<1> QED
  BY <1>1, <1>2, <1>3

LEMMA ReadingStep ==
    ASSUME Received, Written, Written', Reading, [Next]_vars
    PROVE  Reading'
<1>1. CASE (\E more \in 0 .. Len(wire) - 1 : ReadLine(more)) \/ ReadStatic \/ ReadDynamic
  BY <1>1, ReadsTake, TakenReading
<1>2. CASE WriteText
  <2> DEFINE b == Bytes("text", call.command, 2)
  <2>1. /\ call.command # "SEARCH" /\ call' = call /\ sent' = sent \o b
        /\ parse' = parse /\ body' = body /\ results' = results /\ outcome' = outcome
    BY <1>2 DEF WriteText, request, client
  <2>2. b \in Seq(Byte)
    <3>1. "text" \in Items
      BY DEF Items
    <3>2. call.command \in Values
      <4>1. call.command \in {"INITIALIZE", "TRAIN", "ADD", "LOAD", "SEARCH", "EVICT"}
        BY CallsAssumption DEF Received
      <4>2. call.command \in Names
        BY <4>1 DEF Names
      <4> QED
        BY <4>2 DEF Values
    <3> DEFINE width == 2
    <3>3. width \in Nat
      OBVIOUS
    <3> HIDE DEF width
    <3>4. Bytes("text", call.command, width) \in Seq(Byte)
      BY <3>1, <3>2, <3>3, BytesType
    <3> QED
      BY <3>4 DEF width
  <2> HIDE DEF b
  <2>3. sent' \in Seq(Byte)
    <3>1. sent \in Seq(Byte)
      BY DEF Reading
    <3>2. sent \o b \in Seq(Byte)
      BY <2>2, <3>1, ConcatProperties
    <3> QED
      BY <2>1, <3>2
  <2> QED
    BY <2>1, <2>3 DEF Reading
<1>3. CASE WriteSearch
  BY <1>3, WriteSearchReading
<1>4. CASE SearchDone
  <2>1. phase = "reply" /\ phase' = "done" /\ UNCHANGED <<request, reply, sent, client>>
    BY <1>4 DEF SearchDone
  <2> QED
    BY <2>1 DEF Reading, request, reply, client
<1>5. ASSUME NEW n \in 1 .. Len(sent), ReadText(n) PROVE Reading'
  <2>1. /\ call.command # "SEARCH" /\ call' = call /\ sent' = SubSeq(sent, n + 1, Len(sent))
        /\ parse' = parse /\ body' = body /\ results' = results /\ outcome' \in {"ok", "PeriplusServerError"}
    BY <1>5 DEF ReadText, receive, request
  <2>2. sent' \in Seq(Byte)
    <3>1. sent \in Seq(Byte) /\ Len(sent) \in Nat
      BY LenProperties DEF Reading
    <3>2. n \in 0 .. Len(sent)
      BY <3>1
    <3>3. SubSeq(sent, n + 1, Len(sent)) \in Seq(Byte)
      BY <3>1, <3>2, TailType
    <3> QED
      BY <2>1, <3>3
  <2> QED
    BY <2>1, <2>2 DEF Reading
<1>6. ASSUME NEW n \in 1 .. Len(sent), ReadNumber(n) PROVE Reading'
  BY <1>6, ReadNumberReading
<1>7. ASSUME NEW n \in 1 .. Len(sent), ReadBody(n) PROVE Reading'
  BY <1>7, ReadBodyReading
<1>8. CASE ReturnResults
  <2>1. /\ call.command = "SEARCH" /\ outcome = "none" /\ parse = Nothing /\ outcome' = "ok"
        /\ UNCHANGED <<request, phase, reply, sent, parse, body, results>>
    BY <1>8 DEF ReturnResults
  <2>2. call' = call /\ phase' = phase /\ found' = found
    BY <2>1 DEF request, reply
  <2>3. phase \in {"reply", "done"}
    BY <2>1, SearchServed
  <2>4. results = ReadBack(found)
    <3> DEFINE u == Unwritten(found, piece, l)
    <3>1. Between(found, u, sent, Nothing, body, results) /\ results \in Seq(Result)
      BY <2>1, <2>3 DEF Reading
    <3>2. found \in Found
      BY <2>1, <2>3 DEF Written
    <3> HIDE DEF u
    <3> QED
      BY <3>1, <3>2, BetweenEnd
  <2> QED
    BY <2>1, <2>2, <2>3, <2>4 DEF Reading
<1>9. CASE UNCHANGED vars
  BY <1>9 DEF Reading, vars, request, reply, client
<1> QED
  BY <1>1, <1>2, <1>3, <1>4, <1>5, <1>6, <1>7, <1>8, <1>9 DEF Next, Server, Client

LEMMA ReceivedWrittenReading ==
    Spec => [](Received /\ Written /\ Reading)
<1>1. Init => Received /\ Written /\ Reading
  BY ReceivedInit, WrittenInit, ReadingInit
<1>2. Received /\ Written /\ Reading /\ [Next]_vars => (Received /\ Written /\ Reading)'
  BY ReceivedStep, WrittenStep, ReadingStep
<1> QED
  BY <1>1, <1>2, PTL DEF Spec

(* TypeOK: the phases of a session's reads and writes, the client's parse,  *)
(* whose counts of queries, fields and bytes never go below zero, and what  *)
(* a call returns or raises.                                                *)
THEOREM TypeCorrect == Spec => []TypeOK
<1>1. Received /\ Written /\ Reading => TypeOK
  BY DEF Received, Written, Reading, TypeOK, Parse
<1> QED
  BY <1>1, ReceivedWrittenReading, PTL

(* ResultsReadBack: a search that returns has the counts, strings and       *)
(* embeddings that Data::serialize packed, whole, however write_data and    *)
(* the client's recv cut them.                                              *)
THEOREM ResultsReadBackWhole == Spec => []ResultsReadBack
<1>1. Received /\ Written /\ Reading => ResultsReadBack
  BY DEF Reading, ResultsReadBack
<1> QED
  BY <1>1, ReceivedWrittenReading, PTL

-----------------------------------------------------------------------------
(* The exchange without bytes *)

(* What Exchange sees of a state in which the invariants hold. *)
Mapped ==
    /\ phase \in {"line", "static", "dynamic"} => Serving = "waiting"
    /\ phase = "terminated" => Serving = "ended"
    /\ phase \in {"reply", "done"} => Serving = "served"
    /\ phase \notin {"reply", "done"} \/ call.command # "SEARCH" => Answer = <<>>
    /\ phase \in {"reply", "done"} /\ call.command = "SEARCH" => Answer = ReadBack(found)
    /\ outcome = "none" => Outcome = "none"
    /\ outcome = "ok" => Outcome = "returned"
    /\ outcome \in {"PeriplusServerError", "struct.error"} => Outcome = "raised"
    /\ outcome # "ok" \/ call.command # "SEARCH" => Returns = <<>>
    /\ outcome = "ok" /\ call.command = "SEARCH" => Returns = results

LEMMA StatesMapped ==
    ASSUME ArgsReadBack
    PROVE  Mapped
<1>1. /\ phase \in {"line", "static", "dynamic"} => Serving = "waiting"
      /\ phase = "terminated" => Serving = "ended"
  BY DEF Serving
<1>2. phase \in {"reply", "done"} => Serving = "served"
  BY DEF Serving, ArgsReadBack
<1>3. /\ phase \notin {"reply", "done"} \/ call.command # "SEARCH" => Answer = <<>>
      /\ phase \in {"reply", "done"} /\ call.command = "SEARCH" => Answer = ReadBack(found)
  BY DEF Answer
<1>4. /\ outcome = "none" => Outcome = "none"
      /\ outcome = "ok" => Outcome = "returned"
      /\ outcome \in {"PeriplusServerError", "struct.error"} => Outcome = "raised"
  BY DEF Outcome
<1>5. /\ outcome # "ok" \/ call.command # "SEARCH" => Returns = <<>>
      /\ outcome = "ok" /\ call.command = "SEARCH" => Returns = results
  BY DEF Returns
<1> QED
  BY <1>1, <1>2, <1>3, <1>4, <1>5 DEF Mapped

LEMMA ExchangeInit ==
    ASSUME Init, Mapped
    PROVE  Exch!Init
<1>1. call \in Calls /\ phase = "line" /\ outcome = "none"
  BY DEF Init
<1> QED
  BY <1>1 DEF Mapped, Exch!Init

(* The session reads on, the process ends, or the handler has its arguments. *)
LEMMA TakenExchange ==
    ASSUME Received, Received', Written', Mapped, Mapped', Taken, phase \in {"line", "static", "dynamic"}
    PROVE  Exch!Next \/ UNCHANGED Exch!vars
<1>1. call' = call /\ outcome' = outcome /\ results' = results /\ call \in Calls
  BY DEF Taken, client, Received
<1>2. Serving = "waiting" /\ Answer = <<>>
  BY DEF Mapped
<1>3. Outcome' = Outcome /\ Returns' = Returns
  BY <1>1 DEF Outcome, Returns
<1>4. CASE phase' \in {"static", "dynamic"}
  <2>1. Serving' = "waiting" /\ Answer' = <<>>
    BY <1>4 DEF Mapped
  <2> QED
    BY <1>1, <1>2, <1>3, <2>1 DEF Exch!vars
<1>5. CASE phase' = "terminated"
  <2>1. Serving' = "ended" /\ Answer' = <<>>
    BY <1>5 DEF Mapped
  <2> QED
    BY <1>1, <1>2, <1>3, <2>1 DEF Exch!Next, Exch!End
<1>6. CASE phase' = "reply"
  <2>1. Serving' = "served"
    BY <1>6 DEF Mapped
  <2>2. Answer' \in AnswersTo[call]
    <3>1. CASE call.command = "SEARCH"
      <4>1. Answer' = ReadBack(found')
        BY <1>1, <1>6, <3>1 DEF Mapped
      <4>2. found' \in {g \in Found : Len(g) = Len(call.vectors)}
        BY <1>1, <1>6, <3>1 DEF Written
      <4>3. AnswersTo[call] = {ReadBack(f) : f \in {g \in Found : Len(g) = Len(call.vectors)}}
        BY <1>1, <3>1 DEF AnswersTo
      <4> QED
        BY <4>1, <4>2, <4>3
    <3>2. CASE call.command # "SEARCH"
      <4>1. Answer' = <<>>
        BY <1>1, <3>2 DEF Mapped
      <4>2. AnswersTo[call] = {<<>>}
        BY <1>1, <3>2 DEF AnswersTo
      <4> QED
        BY <4>1, <4>2
    <3> QED
      BY <3>1, <3>2
  <2> QED
    BY <1>1, <1>2, <1>3, <2>1, <2>2 DEF Exch!Next, Exch!Serve
<1> QED
  BY <1>4, <1>5, <1>6 DEF Taken

(* Bytes have been sent, so the handler has run. *)
LEMMA SentServed ==
    ASSUME Received, Written, Len(sent) > 0
    PROVE  phase \in {"reply", "done"}
<1>1. sent # <<>>
  <2> SUFFICES ASSUME sent = <<>> PROVE FALSE
    OBVIOUS
  <2>1. Len(sent) = 0
    BY EmptySeq
  <2> QED
    BY <2>1
<1> QED
  BY <1>1 DEF Written

(* The writes of a reply, and the reads within it, are not seen. *)
LEMMA ReplyHidden ==
    ASSUME Mapped, Mapped', phase \in {"reply", "done"}, phase' \in {"reply", "done"},
           call' = call, found' = found, outcome' = outcome, outcome = "none" \/ results' = results
    PROVE  UNCHANGED Exch!vars
<1>1. Serving' = Serving
  BY DEF Mapped
<1>2. Answer' = Answer
  BY DEF Answer
<1>3. Outcome' = Outcome /\ Returns' = Returns
  BY DEF Outcome, Returns
<1> QED
  BY <1>1, <1>2, <1>3 DEF Exch!vars

(* A call that ends has been served, and returns what was found. *)
LEMMA CallExchange ==
    ASSUME Mapped, Mapped', Reading', phase \in {"reply", "done"}, phase' = phase,
           call' = call, found' = found, outcome = "none",
           outcome' \in {"ok", "PeriplusServerError", "struct.error"}
    PROVE  Exch!Next
<1>1. Serving = "served" /\ Serving' = "served" /\ Outcome = "none" /\ Returns = <<>>
  BY DEF Mapped
<1>2. Answer' = Answer
  BY DEF Answer
<1>3. CASE outcome' = "ok"
  <2>1. Outcome' = "returned"
    BY <1>3 DEF Mapped
  <2>2. Returns' = Answer
    <3>1. CASE call.command = "SEARCH"
      <4>1. Returns' = results' /\ Answer = ReadBack(found)
        BY <1>3, <3>1 DEF Mapped
      <4>2. results' = ReadBack(found')
        BY <1>3, <3>1 DEF Reading
      <4> QED
        BY <4>1, <4>2
    <3>2. CASE call.command # "SEARCH"
      BY <3>2 DEF Mapped
    <3> QED
      BY <3>1, <3>2
  <2> QED
    BY <1>1, <1>2, <2>1, <2>2 DEF Exch!Next, Exch!Return
<1>4. CASE outcome' \in {"PeriplusServerError", "struct.error"}
  <2>1. Outcome' = "raised" /\ Returns' = <<>>
    BY <1>4 DEF Mapped
  <2> QED
    BY <1>1, <1>2, <2>1 DEF Exch!Next, Exch!Raise
<1> QED
  BY <1>3, <1>4

LEMMA ReadsExchange ==
    ASSUME Received, Written, Mapped, Mapped', Reading, Reading',
           NEW n \in 1 .. Len(sent), ReadText(n) \/ ReadNumber(n) \/ ReadBody(n)
    PROVE  Exch!Next \/ UNCHANGED Exch!vars
<1>1. /\ UNCHANGED <<request, phase, reply>> /\ outcome = "none"
      /\ outcome' = "none" \/ outcome' \in {"ok", "PeriplusServerError", "struct.error"}
  BY DEF ReadText, ReadNumber, ReadBody
<1>2. call' = call /\ phase' = phase /\ found' = found
  BY <1>1 DEF request, reply
<1>3. phase \in {"reply", "done"}
  <2>1. Len(sent) > 0
    <3>1. Len(sent) \in Nat
      BY LenProperties DEF Reading
    <3> QED
      BY <3>1
  <2> QED
    BY <2>1, SentServed
<1>4. CASE outcome' = "none"
  BY <1>1, <1>2, <1>3, <1>4, ReplyHidden
<1>5. CASE outcome' \in {"ok", "PeriplusServerError", "struct.error"}
  BY <1>1, <1>2, <1>3, <1>5, CallExchange
<1> QED
  BY <1>1, <1>4, <1>5

LEMMA ExchangeStep ==
    ASSUME Received, Received', Written, Written', Reading, Reading', Mapped, Mapped', [Next]_vars
    PROVE  [Exch!Next]_(Exch!vars)
<1>1. CASE (\E more \in 0 .. Len(wire) - 1 : ReadLine(more)) \/ ReadStatic \/ ReadDynamic
  <2>1. phase \in {"line", "static", "dynamic"}
    BY <1>1 DEF ReadLine, ReadStatic, ReadDynamic
  <2> QED
    BY <1>1, <2>1, ReadsTake, TakenExchange
<1>2. CASE WriteText \/ WriteSearch \/ SearchDone
  <2>1. /\ phase = "reply" /\ phase' \in {"reply", "done"} /\ UNCHANGED <<request, found, client>>
    BY <1>2 DEF WriteText, WriteSearch, SearchDone, reply
  <2>2. call' = call /\ found' = found /\ outcome' = outcome /\ results' = results
    BY <2>1 DEF request, client
  <2> QED
    BY <2>1, <2>2, ReplyHidden
<1>3. ASSUME NEW n \in 1 .. Len(sent), ReadText(n) \/ ReadNumber(n) \/ ReadBody(n)
      PROVE  Exch!Next \/ UNCHANGED Exch!vars
  BY <1>3, ReadsExchange
<1>4. CASE ReturnResults
  <2>1. /\ call.command = "SEARCH" /\ outcome = "none" /\ parse = Nothing /\ outcome' = "ok"
        /\ call' = call /\ phase' = phase /\ found' = found
    BY <1>4 DEF ReturnResults, request, reply
  <2>2. phase \in {"reply", "done"}
    BY <2>1, SearchServed
  <2> QED
    BY <2>1, <2>2, CallExchange
<1>5. CASE UNCHANGED vars
  BY <1>5 DEF vars, request, reply, client, Exch!vars, Serving, Answer, Outcome, Returns, Meant
<1> QED
  BY <1>1, <1>2, <1>3, <1>4, <1>5 DEF Next, Server, Client

(* ImplementsExchange: whatever read_args and recv cut, a command is served *)
(* once with the arguments its caller meant, and the call then returns what *)
(* Cache::search found, or raises; the process ends only before.            *)
THEOREM WireImplementsExchange == Spec => ImplementsExchange
<1>1. ArgsReadBack => Mapped
  BY StatesMapped
<1>2. Init /\ Mapped => Exch!Init
  BY ExchangeInit
<1>3. /\ Received /\ Written /\ Reading /\ Mapped
      /\ (Received /\ Written /\ Reading /\ Mapped)' /\ [Next]_vars
      => [Exch!Next]_(Exch!vars)
  BY ExchangeStep
<1> QED
  BY <1>1, <1>2, <1>3, ReceivedWrittenReading, ArgumentsReadBack, PTL DEF Spec, ImplementsExchange, Exch!Spec

=============================================================================
