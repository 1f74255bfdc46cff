------------------------ MODULE ServerContractProofs ------------------------
(***************************************************************************)
(* What holds of Server for any sessions and bounds when its clients and   *)
(* the network keep the contract of DisciplinedSpec: the process stays up  *)
(* and every reply is that of its command.  At the end, the proof that     *)
(* Server then implements SerialServer: a step gives one command its       *)
(* reply, or issues one, or loses what a client that left had sent, or is  *)
(* not seen.                                                               *)
(***************************************************************************)
EXTENDS ServerRefinement, ServerProofs, SequenceTheorems

Sent(s) == Len(sent[s])
Replied(s) == Len(replies[s])
Last(s) == sent[s][Sent(s)]

(* A client that has read a reply per command but the last, and a server    *)
(* that answers at once.                                                    *)
Steady(s) ==
    /\ writes[s] = <<>>
    /\ pc[s] # "head"
    /\ Sent(s) <= taken[s] + 1
    /\ taken[s] <= Replied(s)
    /\ Replied(s) <= Done(s)

(* What the session runs is what the client waits for, and allowed. *)
Orderly(s) ==
    /\ Outstanding(s) => Last(s) \in Allowed[status]
    /\ pc[s] = "proxy" => Last(s) = "LOAD"
    /\ pc[s] = "writing" => Last(s) = "SEARCH"

Matching(s) ==
    \A i \in 1 .. Replied(s) : replies[s][i] = [text |-> sent[s][i], of |-> sent[s][i]]

(* An INITIALIZE is outstanding alone. *)
Exclusive ==
    \A s, t \in Sessions : s # t /\ Outstanding(s) /\ Outstanding(t) => Last(s) # "INITIALIZE"

DInv ==
    /\ ~down
    /\ Exclusive
    /\ \A s \in Sessions : Steady(s) /\ Orderly(s) /\ Matching(s)

-----------------------------------------------------------------------------
(* Counting commands *)

LEMMA Counts ==
    ASSUME IInv, NEW s \in Sessions
    PROVE  /\ Sent(s) \in Nat /\ Replied(s) \in Nat /\ taken[s] \in Nat /\ begun[s] \in Nat
           /\ begun[s] <= Sent(s)
           /\ Busy(s) => begun[s] >= 1 /\ Done(s) = begun[s] - 1
           /\ ~Busy(s) => Done(s) = begun[s]
           /\ Done(s) \in Nat
<1>1. TypeOK /\ SessionOK(s)
  BY DEF IInv
<1>2. Sent(s) \in Nat /\ Replied(s) \in Nat /\ taken[s] \in Nat /\ begun[s] \in Nat
  BY <1>1 DEF TypeOK, Sent, Replied
<1>3. begun[s] <= Sent(s) /\ (Busy(s) => begun[s] >= 1)
  BY <1>1 DEF SessionOK, Sent
<1>4. Done(s) = begun[s] - (IF Busy(s) THEN 1 ELSE 0)
  BY DEF Done, Busy
<1>. QED
  BY <1>2, <1>3, <1>4

(* The command a session has outstanding is the last one sent on it, and    *)
(* the only one without a reply.                                            *)
LEMMA OneOutstanding ==
    ASSUME IInv, NEW s \in Sessions, Steady(s), Outstanding(s)
    PROVE  /\ Sent(s) \in Nat \ {0}
           /\ Sent(s) = Done(s) + 1 /\ Replied(s) = Done(s) /\ taken[s] = Done(s)
           /\ Busy(s) => begun[s] = Sent(s)
           /\ ~Busy(s) => begun[s] + 1 = Sent(s)
           /\ Last(s) \in Commands
           /\ pc[s] # "ended"
<1>1. pc[s] # "ended" /\ (begun[s] < Sent(s) \/ Busy(s))
  BY DEF Outstanding, Sent, Busy
<1>2. /\ Sent(s) \in Nat \ {0}
      /\ Sent(s) = Done(s) + 1 /\ Replied(s) = Done(s) /\ taken[s] = Done(s)
      /\ Busy(s) => begun[s] = Sent(s)
      /\ ~Busy(s) => begun[s] + 1 = Sent(s)
  BY <1>1, Counts DEF Steady
<1>3. Last(s) \in Commands
  BY <1>2 DEF Last, Sent, IInv, TypeOK
<1>. QED
  BY <1>1, <1>2, <1>3

(* Allowed lets more commands through from INITIALIZED to READY. *)
LEMMA AllowedWhenReady == Allowed["READY"] = Commands
BY DEF Allowed

-----------------------------------------------------------------------------
(* The steps by which the outstanding command of a session gets its reply,  *)
(* or waits.                                                                *)

OthersAlike(s) ==
    \A t \in Sessions \ {s} :
        /\ pc'[t] = pc[t] /\ sent'[t] = sent[t] /\ begun'[t] = begun[t]
        /\ writes'[t] = writes[t] /\ replies'[t] = replies[t] /\ taken'[t] = taken[t]

LEMMA OthersKeep ==
    ASSUME NEW s \in Sessions, OthersAlike(s), NEW t \in Sessions \ {s}
    PROVE  /\ Steady(t) => Steady(t)'
           /\ Matching(t) => Matching(t)'
           /\ Outstanding(t)' <=> Outstanding(t)
           /\ Last(t)' = Last(t)
           /\ pc'[t] = pc[t]
<1>1. /\ pc'[t] = pc[t] /\ sent'[t] = sent[t] /\ begun'[t] = begun[t]
      /\ writes'[t] = writes[t] /\ replies'[t] = replies[t] /\ taken'[t] = taken[t]
  BY DEF OthersAlike
<1>2. Sent(t)' = Sent(t) /\ Replied(t)' = Replied(t) /\ Done(t)' = Done(t)
  BY <1>1 DEF Sent, Replied, Done
<1>3. Last(t)' = Last(t)
  BY <1>1, <1>2 DEF Last
<1>4. Outstanding(t)' <=> Outstanding(t)
  BY <1>1 DEF Outstanding
<1>5. Steady(t) => Steady(t)'
  BY <1>1, <1>2 DEF Steady
<1>6. Matching(t) => Matching(t)'
  BY <1>1, <1>2 DEF Matching
<1>. QED
  BY <1>1, <1>3, <1>4, <1>5, <1>6

(* A step of s keeps DInv if it keeps its part of it, opens no command that *)
(* was not outstanding, and changes the status only so that the commands    *)
(* of others stay allowed.                                                  *)
LEMMA OneDisciplined ==
    ASSUME IInv, DInv, NEW s \in Sessions, OthersAlike(s), ~down',
           Steady(s)', Orderly(s)', Matching(s)',
           Outstanding(s)' => Outstanding(s) /\ Last(s)' = Last(s),
           \/ status' = status
           \/ status' = "READY"
           \/ Outstanding(s) /\ Last(s) = "INITIALIZE"
    PROVE  DInv'
<1>1. ASSUME NEW t \in Sessions \ {s}
      PROVE  Steady(t)' /\ Orderly(t)' /\ Matching(t)'
  <2>1. /\ Steady(t)' /\ Matching(t)'
        /\ Outstanding(t)' <=> Outstanding(t)
        /\ Last(t)' = Last(t)
        /\ pc'[t] = pc[t]
    BY OthersKeep DEF DInv
  <2>2. Steady(t) /\ Orderly(t)
    BY DEF DInv
  <2>3. ASSUME Outstanding(t) PROVE Last(t) \in Allowed[status']
    <3>1. Last(t) \in Allowed[status] /\ Last(t) \in Commands
      BY <2>2, <2>3, OneOutstanding DEF Orderly
    <3>2. ~(Outstanding(s) /\ Last(s) = "INITIALIZE")
      BY <2>3 DEF DInv, Exclusive
    <3>. QED
      BY <3>1, <3>2, AllowedWhenReady
  <2>4. Orderly(t)'
    BY <2>1, <2>2, <2>3 DEF Orderly
  <2>. QED
    BY <2>1, <2>4
<1>2. Exclusive'
  <2>1. \A t \in Sessions : Outstanding(t)' => Outstanding(t) /\ Last(t)' = Last(t)
    BY OthersKeep
  <2>. QED
    BY <2>1 DEF DInv, Exclusive
<1>. QED
  BY <1>1, <1>2 DEF DInv

(* The outstanding command of s has run: the reply goes out at once, unless *)
(* the client has hung up.                                                  *)
LEMMA Answered ==
    ASSUME IInv, DInv, NEW s \in Sessions, Outstanding(s),
           begun' = [begun EXCEPT ![s] = Sent(s)],
           pc' = [pc EXCEPT ![s] = "line"],
           UNCHANGED <<sent, writes, taken, down>>,
           UNCHANGED replies \/ Into(s, Last(s), Last(s)),
           \/ status' = status
           \/ status' = "READY"
           \/ Last(s) = "INITIALIZE"
    PROVE  DInv'
<1>1. TypeOK /\ Steady(s) /\ Orderly(s) /\ Matching(s) /\ ~down
  BY DEF IInv, DInv
<1>2. /\ Sent(s) \in Nat \ {0}
      /\ Sent(s) = Done(s) + 1 /\ Replied(s) = Done(s) /\ taken[s] = Done(s)
      /\ Last(s) \in Commands
  BY <1>1, OneOutstanding
<1>3. begun'[s] = Sent(s) /\ pc'[s] = "line"
  BY <1>1 DEF TypeOK
<1>4. Sent(s)' = Sent(s) /\ Last(s)' = Last(s)
  BY DEF Sent, Last
<1>5. Done(s)' = Sent(s)
  BY <1>2, <1>3 DEF Done, Reading, Running
<1>6. ~Outstanding(s)'
  BY <1>2, <1>3, <1>4 DEF Outstanding, Sent, Reading, Running
<1>7. /\ replies' \in [Sessions -> Seq(Answer)]
      /\ \A t \in Sessions \ {s} : replies'[t] = replies[t]
      /\ \/ Replied(s)' = Replied(s) /\ replies'[s] = replies[s]
         \/ /\ Replied(s)' = Replied(s) + 1
            /\ replies'[s] = Append(replies[s], [text |-> Last(s), of |-> Last(s)])
  <2>1. [text |-> Last(s), of |-> Last(s)] \in Answer
    BY <1>2 DEF Answer
  <2>2. CASE UNCHANGED replies
    BY <1>1, <2>2 DEF TypeOK, Replied
  <2>3. CASE Into(s, Last(s), Last(s))
    BY <1>1, <2>1, <2>3 DEF TypeOK, Replied, Into
  <2>. QED
    BY <2>2, <2>3
<1>8. Steady(s)'
  <2>1. /\ Sent(s)' = Sent(s) /\ taken'[s] = taken[s] /\ Done(s)' = Sent(s)
        /\ Replied(s)' = Replied(s) \/ Replied(s)' = Replied(s) + 1
    BY <1>4, <1>5, <1>7, Zenon
  <2>2. Sent(s)' <= taken'[s] + 1 /\ taken'[s] <= Replied(s)' /\ Replied(s)' <= Done(s)'
    BY <1>2, <2>1, Counts
  <2>. QED
    BY <1>1, <1>3, <2>2 DEF Steady
<1>9. Orderly(s)'
  BY <1>3, <1>6 DEF Orderly
<1>10. Matching(s)'
  <2>1. CASE Replied(s)' = Replied(s) /\ replies'[s] = replies[s]
    BY <1>1, <2>1 DEF Matching
  <2>2. CASE /\ Replied(s)' = Replied(s) + 1
             /\ replies'[s] = Append(replies[s], [text |-> Last(s), of |-> Last(s)])
    <3>1. replies[s] \in Seq(Answer) /\ Len(replies[s]) = Replied(s) /\ Replied(s) \in Nat
      BY <1>1, Counts DEF TypeOK, Replied
    <3>2. \A i \in 1 .. Replied(s) : replies'[s][i] = replies[s][i]
      BY <2>2, <3>1
    <3>3. replies'[s][Replied(s) + 1] = [text |-> Last(s), of |-> Last(s)]
      BY <2>2, <3>1
    <3>4. Last(s) = sent[s][Replied(s) + 1]
      BY <1>2 DEF Last
    <3>. QED
      BY <1>1, <2>2, <3>1, <3>2, <3>3, <3>4 DEF Matching
  <2>. QED
    BY <1>7, <2>1, <2>2
<1>11. OthersAlike(s)
  BY <1>1, <1>7 DEF OthersAlike, TypeOK
<1>. QED
  BY <1>1, <1>6, <1>8, <1>9, <1>10, <1>11, OneDisciplined

(* Reply writes the reply of an outstanding command at once.                *)
LEMMA ReplyAtOnce ==
    ASSUME IInv, DInv, NEW s \in Sessions, Outstanding(s), Reply(s, Last(s))
    PROVE  /\ pc' = [pc EXCEPT ![s] = "line"]
           /\ UNCHANGED writes
           /\ \/ gone[s] /\ UNCHANGED replies
              \/ ~gone[s] /\ Into(s, Last(s), Last(s))
<1>1. Steady(s)
  BY DEF DInv
<1>2. Room(s)
  <2>1. Replied(s) = taken[s] /\ taken[s] \in Nat /\ SndBuf >= 1
    BY <1>1, OneOutstanding, Counts, BoundsAssumption
  <2>2. Replied(s) - taken[s] < SndBuf
    BY <2>1, BoundsAssumption
  <2>. QED
    BY <2>2 DEF Room, Replied
<1>. QED
  BY <1>1, <1>2 DEF Reply, Steady, At

(* The outstanding command of s waits for its arguments, or for what it     *)
(* runs on.                                                                 *)
LEMMA Waits ==
    ASSUME IInv, DInv, NEW s \in Sessions, Outstanding(s),
           begun' = [begun EXCEPT ![s] = Sent(s)],
           NEW p \in {"dynamic"} \cup Running, pc' = [pc EXCEPT ![s] = p],
           UNCHANGED <<sent, taken, cache, output, down>>,
           p = "proxy" => Last(s) = "LOAD",
           p = "writing" => Last(s) = "SEARCH"
    PROVE  DInv'
<1>1. TypeOK /\ Steady(s) /\ Orderly(s) /\ Matching(s) /\ ~down
  BY DEF IInv, DInv
<1>2. /\ Sent(s) \in Nat \ {0}
      /\ Sent(s) = Done(s) + 1
  BY <1>1, OneOutstanding
<1>3. begun'[s] = Sent(s) /\ pc'[s] = p /\ UNCHANGED <<status, writes, replies, sent, taken, down>>
  BY <1>1 DEF TypeOK, cache, output
<1>4. Sent(s)' = Sent(s) /\ Last(s)' = Last(s) /\ Replied(s)' = Replied(s)
  BY <1>3 DEF Sent, Last, Replied
<1>5. p \in Reading \cup Running /\ p # "head" /\ p # "ended"
  BY DEF Reading, Running
<1>6. Done(s)' = Done(s)
  <2>1. Done(s)' = begun'[s] - 1
    BY <1>3, <1>5 DEF Done
  <2>. QED
    BY <1>2, <1>3, <2>1, Counts
<1>7. Steady(s)' /\ Matching(s)'
  BY <1>1, <1>3, <1>4, <1>5, <1>6 DEF Steady, Matching
<1>8. Orderly(s)'
  BY <1>1, <1>3, <1>4, <1>5 DEF Orderly
<1>9. OthersAlike(s)
  BY <1>1, <1>3 DEF OthersAlike, TypeOK
<1>. QED
  BY <1>1, <1>3, <1>4, <1>7, <1>8, <1>9, OneDisciplined

-----------------------------------------------------------------------------
(* One lemma per kind of step. *)

LEMMA InitDInv == Init => DInv
<1>. SUFFICES ASSUME Init PROVE DInv
  OBVIOUS
<1>1. ASSUME NEW s \in Sessions
      PROVE  /\ Sent(s) = 0 /\ Replied(s) = 0 /\ Done(s) = 0 /\ taken[s] = 0
             /\ writes[s] = <<>> /\ pc[s] = "new" /\ ~Outstanding(s)
  BY DEF Init, Sent, Replied, Done, Outstanding, Reading, Running
<1>2. ASSUME NEW s \in Sessions PROVE Steady(s) /\ Orderly(s) /\ Matching(s)
  BY <1>1 DEF Steady, Orderly, Matching
<1>. QED
  BY <1>1, <1>2 DEF Init, DInv, Exclusive

(* Sending under the contract: every earlier command has its reply.         *)
LEMMA SendDInv ==
    ASSUME IInv, DInv, NEW s \in Sessions, NEW c \in Commands, Coordinated(s, c), Send(s, c)
    PROVE  DInv'
<1>1. TypeOK /\ Steady(s) /\ Orderly(s) /\ Matching(s) /\ ~down
  BY DEF IInv, DInv
<1>2. /\ sent' = [sent EXCEPT ![s] = Append(sent[s], c)]
      /\ UNCHANGED <<status, pc, begun, writes, replies, taken, down>>
      /\ c \in Allowed[status]
      /\ taken[s] = Sent(s)
      /\ \A t \in Sessions \ {s} : Outstanding(t) => c # "INITIALIZE" /\ Last(t) # "INITIALIZE"
  BY DEF Coordinated, Send, cache, output, Sent, Last
<1>3. /\ sent'[s] = Append(sent[s], c)
      /\ sent[s] \in Seq(Commands)
      /\ \A t \in Sessions \ {s} : sent'[t] = sent[t]
  BY <1>1, <1>2 DEF TypeOK
<1>4. /\ Sent(s)' = Sent(s) + 1 /\ Last(s)' = c
      /\ \A i \in 1 .. Sent(s) : sent'[s][i] = sent[s][i]
  BY <1>3 DEF Sent, Last
<1>5. Replied(s)' = Replied(s) /\ Done(s)' = Done(s)
  BY <1>2 DEF Replied, Done
<1>6. Steady(s)'
  BY <1>1, <1>2, <1>4, <1>5, Counts DEF Steady
<1>7. ~Busy(s)
  BY <1>1, <1>2, Counts DEF Steady
<1>8. Orderly(s)'
  BY <1>2, <1>4, <1>7 DEF Orderly, Busy, Running
<1>9. Matching(s)'
  <2>1. Replied(s) <= Sent(s) /\ Replied(s) \in Nat /\ Sent(s) \in Nat
    BY <1>1, Counts DEF Steady
  <2>2. ASSUME NEW i \in 1 .. Replied(s)
        PROVE  replies'[s][i] = [text |-> sent'[s][i], of |-> sent'[s][i]]
    <3>1. i \in 1 .. Sent(s)
      BY <2>1
    <3>. QED
      BY <1>1, <1>2, <1>4, <3>1, Zenon DEF Matching
  <2>. QED
    BY <1>5, <2>2 DEF Matching
<1>10. OthersAlike(s)
  BY <1>2, <1>3 DEF OthersAlike
<1>11. ASSUME NEW t \in Sessions \ {s}
       PROVE  /\ Steady(t)' /\ Orderly(t)' /\ Matching(t)'
              /\ Outstanding(t)' <=> Outstanding(t)
              /\ Last(t)' = Last(t)
  <2>1. /\ Steady(t)' /\ Matching(t)'
        /\ Outstanding(t)' <=> Outstanding(t)
        /\ Last(t)' = Last(t)
        /\ pc'[t] = pc[t]
    BY <1>10, OthersKeep DEF DInv
  <2>2. Orderly(t)
    BY DEF DInv
  <2>3. Orderly(t)'
    BY <1>2, <2>1, <2>2 DEF Orderly
  <2>. QED
    BY <2>1, <2>3
<1>12. Exclusive'
  <2>1. \A t \in Sessions \ {s} : Outstanding(t)' => c # "INITIALIZE" /\ Last(t)' # "INITIALIZE"
    BY <1>2, <1>11
  <2>. QED
    BY <1>4, <1>11, <2>1 DEF DInv, Exclusive
<1>. QED
  BY <1>1, <1>2, <1>6, <1>8, <1>9, <1>11, <1>12 DEF DInv

(* The steps that leave every command where it was. *)
LEMMA IdleDInv ==
    ASSUME IInv, DInv, NEW s \in Sessions,
           Connect(s) \/ Receive(s) \/ Hangup(s) \/ Accept(s) \/ ReadError(s)
    PROVE  DInv'
<1>1. TypeOK /\ Steady(s) /\ Orderly(s) /\ Matching(s) /\ ~down
  BY DEF IInv, DInv
<1>2. UNCHANGED <<status, sent, begun, writes, replies, down>>
  BY DEF Connect, Receive, Hangup, Accept, ReadError, cache, output
<1>3. Sent(s)' = Sent(s) /\ Replied(s)' = Replied(s) /\ Last(s)' = Last(s)
  BY <1>2 DEF Sent, Replied, Last
<1>4. CASE Receive(s) \/ Hangup(s)
  <2>1. /\ pc' = pc
        /\ \/ taken' = taken
           \/ taken' = [taken EXCEPT ![s] = taken[s] + 1] /\ taken[s] < Replied(s)
    BY <1>4 DEF Receive, Hangup, Replied
  <2>2. taken'[s] = taken[s] \/ (taken'[s] = taken[s] + 1 /\ taken[s] < Replied(s))
    BY <1>1, <2>1 DEF TypeOK
  <2>3. Done(s)' = Done(s)
    BY <1>2, <2>1 DEF Done
  <2>4. Steady(s)'
    <3>1. Sent(s) <= taken'[s] + 1 /\ taken'[s] <= Replied(s)
      BY <1>1, <2>2, Counts DEF Steady
    <3>. QED
      BY <1>1, <1>2, <1>3, <2>1, <2>3, <3>1 DEF Steady
  <2>5. Outstanding(s)' <=> Outstanding(s)
    BY <1>2, <2>1 DEF Outstanding
  <2>6. Orderly(s)' /\ Matching(s)'
    BY <1>1, <1>2, <1>3, <2>1, <2>5 DEF Orderly, Matching
  <2>7. OthersAlike(s)
    BY <1>1, <1>2, <2>1 DEF OthersAlike, TypeOK
  <2>. QED
    BY <1>1, <1>2, <1>3, <2>4, <2>5, <2>6, <2>7, OneDisciplined
<1>5. CASE Connect(s) \/ Accept(s) \/ ReadError(s)
  <2>1. PICK p \in {"backlog", "line", "ended"} : pc' = [pc EXCEPT ![s] = p]
    BY <1>5 DEF Connect, Accept, ReadError, At
  <2>2. taken' = taken /\ pc'[s] = p
    BY <1>1, <1>5, <2>1 DEF Connect, Accept, ReadError, TypeOK
  <2>3. CASE Busy(s)
    <3>1. ReadError(s) /\ p = "ended"
      BY <1>1, <1>5, <2>2, <2>3 DEF Connect, Accept, ReadError, Busy, Reading, Running, At, TypeOK
    <3>2. Done(s)' = begun[s] /\ ~Outstanding(s)'
      BY <1>1, <1>2, <2>2, <3>1, Counts DEF Done, Reading, Running, Outstanding
    <3>3. Steady(s)'
      <4>1. Replied(s) <= begun[s]
        BY <1>1, <2>3, Counts DEF Steady
      <4>. QED
        BY <1>1, <1>2, <1>3, <2>2, <3>1, <3>2, <4>1 DEF Steady
    <3>4. Orderly(s)' /\ Matching(s)'
      BY <1>1, <1>2, <1>3, <2>2, <3>1, <3>2 DEF Orderly, Matching
    <3>5. OthersAlike(s)
      BY <1>1, <1>2, <2>1, <2>2 DEF OthersAlike, TypeOK
    <3>. QED
      BY <1>1, <1>2, <3>2, <3>3, <3>4, <3>5, OneDisciplined
  <2>4. CASE ~Busy(s)
    <3>1. pc[s] # "ended"
      BY <1>5 DEF Connect, Accept, ReadError, Reading
    <3>2. Done(s)' = Done(s)
      BY <1>2, <2>2, <2>4 DEF Done, Busy, Reading, Running
    <3>3. Outstanding(s)' => Outstanding(s)
      BY <1>2, <2>2, <2>4, <3>1 DEF Outstanding, Busy, Reading, Running
    <3>4. Steady(s)' /\ Orderly(s)' /\ Matching(s)'
      BY <1>1, <1>2, <1>3, <2>2, <3>2, <3>3 DEF Steady, Orderly, Matching
    <3>5. OthersAlike(s)
      BY <1>1, <1>2, <2>1, <2>2 DEF OthersAlike, TypeOK
    <3>. QED
      BY <1>1, <1>2, <1>3, <3>3, <3>4, <3>5, OneDisciplined
  <2>. QED
    BY <2>3, <2>4
<1>. QED
  BY <1>4, <1>5

(* The arguments of the outstanding command of s are there: it runs.        *)
LEMMA ExecuteDInv ==
    ASSUME IInv, DInv, NEW s \in Sessions, Outstanding(s), Execute(s, Last(s)),
           begun' = [begun EXCEPT ![s] = Sent(s)], UNCHANGED <<sent, taken>>
    PROVE  DInv'
<1>1. TypeOK /\ StatusOfCore /\ Steady(s) /\ Orderly(s)
  BY DEF IInv, DInv
<1>2. Last(s) \in Commands /\ Last(s) \in Allowed[status]
  BY <1>1, OneOutstanding DEF Orderly
<1>3. Last(s) \in CoreCommands => core = "trained"
  BY <1>1, <1>2 DEF Allowed, CoreCommands, TypeOK, StatusOfCore
<1>4. CASE /\ Last(s) \in {"INITIALIZE", "TRAIN"}
           /\ status' = StatusAfter(Last(s))
           /\ Reply(s, Last(s))
           /\ UNCHANGED down
  <2>1. status' = "READY" \/ Last(s) = "INITIALIZE"
    BY <1>4 DEF StatusAfter
  <2>. QED
    BY <1>4, <2>1, ReplyAtOnce, Answered
<1>5. CASE Reply(s, Last(s)) /\ UNCHANGED <<cache, down>>
  BY <1>5, ReplyAtOnce, Answered DEF cache
<1>6. CASE /\ Last(s) \in {"LOAD", "SEARCH"}
           /\ At(s, IF Last(s) = "LOAD" THEN "proxy" ELSE "writing")
           /\ UNCHANGED <<cache, output, down>>
  <2>1. PICK p \in Running : /\ pc' = [pc EXCEPT ![s] = p]
                             /\ p = "proxy" => Last(s) = "LOAD"
                             /\ p = "writing" => Last(s) = "SEARCH"
    BY <1>6 DEF At, Running
  <2>. QED
    BY <1>6, <2>1, Waits
<1>. QED
  BY <1>3, <1>4, <1>5, <1>6 DEF Execute

LEMMA WholeLineDInv ==
    ASSUME IInv, DInv, NEW s \in Sessions, WholeLine(s)
    PROVE  DInv'
<1>1. PICK n \in 1 .. 3 : /\ begun[s] < Len(sent[s])
                          /\ n >= HeadParts(sent[s][begun[s] + 1])
                          /\ ReadLine(s, n)
  BY DEF WholeLine
<1>2. pc[s] = "line" /\ UNCHANGED <<sent, taken>> /\ begun' = [begun EXCEPT ![s] = begun[s] + 1]
  BY <1>1 DEF ReadLine
<1>3. Outstanding(s) /\ ~Busy(s) /\ Steady(s) /\ Orderly(s)
  BY <1>1, <1>2 DEF Outstanding, Busy, Reading, Running, DInv
<1>4. begun[s] + 1 = Sent(s) /\ Last(s) = sent[s][begun[s] + 1]
  BY <1>3, OneOutstanding DEF Last
<1>5. /\ Last(s) \in Allowed[status]
      /\ HeadParts(Last(s)) \in 1 .. 2
      /\ n >= HeadParts(Last(s))
  BY <1>1, <1>3, <1>4 DEF Orderly, HeadParts
<1>6. begun' = [begun EXCEPT ![s] = Sent(s)]
  BY <1>2, <1>4
<1>7. \/ At(s, "dynamic") /\ UNCHANGED <<cache, output, down>>
      \/ Execute(s, Last(s))
  <2>1. /\ n <= HeadParts(Last(s)) + 1
        /\ \/ Last(s) \notin Allowed[status] /\ Terminate
           \/ /\ Last(s) \in Allowed[status]
              /\ \/ n = 0 /\ At(s, "head") /\ UNCHANGED <<cache, output, down>>
                 \/ n > 0 /\ n < HeadParts(Last(s)) /\ Terminate
                 \/ n = HeadParts(Last(s)) /\ At(s, "dynamic") /\ UNCHANGED <<cache, output, down>>
                 \/ n > HeadParts(Last(s)) /\ Execute(s, Last(s))
    BY <1>1, <1>4, Zenon DEF ReadLine
  <2>2. n # 0 /\ ~(n < HeadParts(Last(s)))
    BY <1>5
  <2>. QED
    BY <1>5, <2>1, <2>2
<1>8. CASE At(s, "dynamic") /\ UNCHANGED <<cache, output, down>>
  <2>1. pc' = [pc EXCEPT ![s] = "dynamic"]
    BY <1>8 DEF At
  <2>. QED
    BY <1>2, <1>3, <1>6, <1>8, <2>1, Waits
<1>. QED
  BY <1>2, <1>3, <1>6, <1>7, <1>8, ExecuteDInv

(* A session with arguments to read, or with a command that blocks.         *)
LEMMA BusyDInv ==
    ASSUME IInv, DInv, NEW s \in Sessions,
           ReadDynamic(s) \/ ProxyAnswers(s) \/ SearchWrites(s)
    PROVE  DInv'
<1>1. TypeOK /\ Steady(s) /\ Orderly(s)
  BY DEF IInv, DInv
<1>2. Outstanding(s) /\ Busy(s) /\ UNCHANGED <<sent, begun, taken>>
  BY DEF ReadDynamic, ProxyAnswers, SearchWrites, Outstanding, Busy, Reading, Running
<1>3. begun[s] = Sent(s) /\ begun' = [begun EXCEPT ![s] = Sent(s)]
  BY <1>1, <1>2, OneOutstanding DEF TypeOK
<1>4. CASE ReadDynamic(s)
  <2>1. Execute(s, Last(s))
    BY <1>3, <1>4 DEF ReadDynamic, Current, Last
  <2>. QED
    BY <1>2, <1>3, <2>1, ExecuteDInv
<1>5. CASE ProxyAnswers(s)
  <2>1. Last(s) = "LOAD" /\ Reply(s, Last(s)) /\ UNCHANGED <<cache, down>>
    BY <1>1, <1>5 DEF ProxyAnswers, Orderly
  <2>. QED
    BY <1>2, <1>3, <2>1, ReplyAtOnce, Answered DEF cache
<1>6. CASE SearchWrites(s)
  <2>1. /\ Last(s) = "SEARCH"
        /\ UNCHANGED <<cache, writes, down>>
        /\ pc' = [pc EXCEPT ![s] = "line"]
        /\ UNCHANGED replies \/ Into(s, Last(s), Last(s))
    BY <1>1, <1>6 DEF SearchWrites, Orderly, At
  <2>. QED
    BY <1>2, <1>3, <2>1, Answered DEF cache
<1>. QED
  BY <1>4, <1>5, <1>6

LEMMA DisciplinedDInv == IInv /\ DInv /\ [DisciplinedNext]_vars => DInv'
<1>. SUFFICES ASSUME IInv, DInv, [DisciplinedNext]_vars PROVE DInv'
  OBVIOUS
<1>1. ASSUME NEW s \in Sessions, Common(s) PROVE DInv'
  <2>1. CASE Connect(s) \/ Receive(s) \/ Hangup(s) \/ Accept(s) \/ ReadError(s)
    BY <2>1, IdleDInv
  <2>2. CASE ReadDynamic(s) \/ ProxyAnswers(s) \/ SearchWrites(s)
    BY <2>2, BusyDInv
  <2>3. ~Transmit(s)
    BY DEF Transmit, DInv, Steady
  <2>. QED
    BY <1>1, <2>1, <2>2, <2>3 DEF Common
<1>2. ASSUME NEW s \in Sessions, NEW c \in Commands, Coordinated(s, c), Send(s, c) PROVE DInv'
  BY <1>2, SendDInv
<1>3. ASSUME NEW s \in Sessions, WholeLine(s) PROVE DInv'
  BY <1>3, WholeLineDInv
<1>4. CASE UNCHANGED vars
  <2>1. UNCHANGED <<status, pc, sent, begun, writes, replies, taken, down>>
    BY <1>4 DEF vars, cache, output
  <2>2. ASSUME NEW s \in Sessions
        PROVE  /\ Steady(s)' /\ Orderly(s)' /\ Matching(s)'
               /\ Outstanding(s)' <=> Outstanding(s)
               /\ Last(s)' = Last(s)
    BY <2>1 DEF DInv, Steady, Orderly, Matching, Outstanding, Last, Sent, Replied, Done
  <2>. QED
    BY <2>1, <2>2 DEF DInv, Exclusive
<1>. QED
  BY <1>1, <1>2, <1>3, <1>4 DEF DisciplinedNext

-----------------------------------------------------------------------------
(* A step under the contract is a step of the server. *)
LEMMA DisciplinedIsNext == DisciplinedNext => Next
BY DEF DisciplinedNext, Next, WholeLine

THEOREM ContractInvariance == DisciplinedSpec => [](IInv /\ DInv)
<1>1. Init => IInv /\ DInv
  BY InitInv, InitDInv
<1>2. IInv /\ DInv /\ [DisciplinedNext]_vars => (IInv /\ DInv)'
  BY NextInv, DisciplinedDInv, DisciplinedIsNext
<1>. QED
  BY <1>1, <1>2, PTL DEF DisciplinedSpec

(* No command of a client that keeps the contract ends the process          *)
(* (cache.cpp:60 and args.cpp throw; driver.cpp does not catch).            *)
THEOREM ContractStaysUp == DisciplinedSpec => []StaysUp
<1>1. DInv => StaysUp
  BY DEF DInv, StaysUp
<1>. QED
  BY <1>1, ContractInvariance, PTL

(* The i-th reply on a connection is the text of the i-th command: nothing  *)
(* overtakes it or is sent from an overwritten output_buf (session.cpp).    *)
THEOREM ContractRepliesMatch == DisciplinedSpec => []RepliesMatch
<1>1. IInv /\ DInv => RepliesMatch
  <2>. SUFFICES ASSUME IInv, DInv, NEW s \in Sessions, NEW i \in DOMAIN replies[s]
                PROVE  i \in DOMAIN sent[s] /\ replies[s][i] = [text |-> sent[s][i], of |-> sent[s][i]]
    BY DEF RepliesMatch
  <2>1. /\ replies[s] \in Seq(Answer) /\ sent[s] \in Seq(Commands)
        /\ Steady(s) /\ Matching(s)
    BY DEF IInv, TypeOK, DInv
  <2>2. i \in 1 .. Replied(s) /\ DOMAIN sent[s] = 1 .. Sent(s)
    BY <2>1 DEF Replied, Sent
  <2>3. Replied(s) <= Sent(s) /\ Replied(s) \in Nat /\ Sent(s) \in Nat
    BY <2>1, Counts DEF Steady
  <2>. QED
    BY <2>1, <2>2, <2>3 DEF Matching
<1>. QED
  BY <1>1, ContractInvariance, PTL

-----------------------------------------------------------------------------
(* Refinement *)

(* Under the contract, what is pending of a session is its last command or  *)
(* nothing.                                                                 *)
Awaiting(s) == IF Outstanding(s) THEN <<Last(s)>> ELSE <<>>

PendingIsAwaiting == \A s \in Sessions : Pending(s) = Awaiting(s)

TextsTyped == \A s \in Sessions : Texts(s) \in Seq(Commands) /\ Len(Texts(s)) = Replied(s)

LEMMA Suffix ==
    ASSUME NEW q \in Seq(Commands), NEW d \in Nat
    PROVE  /\ Len(q) = d => SubSeq(q, d + 1, Len(q)) = <<>>
           /\ Len(q) = d + 1 => SubSeq(q, d + 1, Len(q)) = <<q[Len(q)]>>
<1>1. Len(q) \in Nat /\ \A i \in d + 1 .. Len(q) : q[i] \in Commands
  OBVIOUS
<1>2. CASE Len(q) = d
  BY <1>1, <1>2, SubSeqEmpty
<1>3. CASE Len(q) = d + 1
  <2>1. d + 1 <= Len(q) /\ Len(q) - (d + 1) + 1 = 1 /\ (d + 1) + 1 - 1 = Len(q)
    BY <1>1, <1>3
  <2>2. /\ SubSeq(q, d + 1, Len(q)) \in Seq(Commands)
        /\ Len(SubSeq(q, d + 1, Len(q))) = 1
        /\ SubSeq(q, d + 1, Len(q))[1] = q[Len(q)]
    BY <1>1, <2>1, SubSeqProperties
  <2>3. Len(q) # d
    BY <1>3
  <2>4. \A r \in Seq(Commands) : Len(r) = 1 => r = <<r[1]>>
    OBVIOUS
  <2>5. SubSeq(q, d + 1, Len(q)) = <<q[Len(q)]>>
    BY <2>2, <2>4, Zenon
  <2>. QED
    BY <2>3, <2>5, Zenon
<1>. QED
  BY <1>2, <1>3

LEMMA PendingOne == IInv /\ DInv => PendingIsAwaiting
<1>. SUFFICES ASSUME IInv, DInv, NEW s \in Sessions PROVE Pending(s) = Awaiting(s)
  BY DEF PendingIsAwaiting
<1>1. sent[s] \in Seq(Commands) /\ Done(s) \in Nat /\ Steady(s)
  BY Counts DEF IInv, TypeOK, DInv
<1>2. CASE Outstanding(s)
  <2>1. Len(sent[s]) = Done(s) + 1 /\ pc[s] # "ended"
    BY <1>1, <1>2, OneOutstanding DEF Sent
  <2>2. SubSeq(sent[s], Done(s) + 1, Len(sent[s])) = <<sent[s][Len(sent[s])]>>
    BY <1>1, <2>1, Suffix
  <2>. QED
    BY <1>2, <2>1, <2>2 DEF Pending, Awaiting, Last, Sent
<1>3. CASE ~Outstanding(s) /\ pc[s] # "ended"
  <2>1. ~Busy(s) /\ ~(begun[s] < Sent(s))
    BY <1>3 DEF Outstanding, Busy, Sent
  <2>2. Len(sent[s]) = Done(s)
    BY <2>1, Counts DEF Sent
  <2>3. SubSeq(sent[s], Done(s) + 1, Len(sent[s])) = <<>>
    BY <1>1, <2>2, Suffix
  <2>. QED
    BY <1>3, <2>3 DEF Pending, Awaiting
<1>4. CASE pc[s] = "ended"
  BY <1>4 DEF Pending, Awaiting, Outstanding
<1>. QED
  BY <1>2, <1>3, <1>4

LEMMA TextsType == IInv => TextsTyped
<1>. SUFFICES ASSUME IInv, NEW s \in Sessions
             PROVE  Texts(s) \in Seq(Commands) /\ Len(Texts(s)) = Replied(s)
  BY DEF TextsTyped
<1>1. replies[s] \in Seq(Answer)
  BY DEF IInv, TypeOK
<1>2. \A i \in DOMAIN replies[s] : replies[s][i].text \in Commands
  <2>1. \A i \in DOMAIN replies[s] : replies[s][i] \in Answer
    BY <1>1
  <2>. QED
    BY <2>1 DEF Answer
<1>. QED
  BY <1>1, <1>2 DEF Texts, Replied

-----------------------------------------------------------------------------
(* The kinds of step *)

(* The outstanding command of s takes effect, and is answered if the client *)
(* is there.                                                                *)
Serves(s) ==
    /\ Outstanding(s)
    /\ pc' = [pc EXCEPT ![s] = "line"]
    /\ begun' = [begun EXCEPT ![s] = Sent(s)]
    /\ UNCHANGED <<sent, gone>>
    /\ \/ gone[s] /\ UNCHANGED replies
       \/ ~gone[s] /\ Into(s, Last(s), Last(s))
    /\ status' = CASE Last(s) = "INITIALIZE" -> "INITIALIZED"
                   [] Last(s) = "TRAIN"      -> "READY"
                   [] OTHER                  -> status

(* Nothing that a client could see. *)
Idles ==
    /\ UNCHANGED <<status, sent, replies, gone>>
    /\ \A t \in Sessions : Outstanding(t)' <=> Outstanding(t)

LEMMA ServesStep ==
    ASSUME IInv, DInv, NEW s \in Sessions, Serves(s),
           PendingIsAwaiting, PendingIsAwaiting', TextsTyped
    PROVE  Serial!Serve(s)
<1>1. TypeOK /\ Steady(s) /\ Orderly(s) /\ UNCHANGED <<sent, gone>> /\ Outstanding(s)
  BY DEF IInv, DInv, Serves
<1>2. Sent(s) \in Nat \ {0} /\ Last(s) \in Commands /\ Last(s) \in Allowed[status]
  BY <1>1, OneOutstanding DEF Orderly
<1>3. ~Outstanding(s)'
  <2>1. pc'[s] = "line" /\ begun'[s] = Sent(s) /\ Sent(s)' = Sent(s)
    BY <1>1 DEF Serves, TypeOK, Sent
  <2>. QED
    BY <1>2, <2>1 DEF Outstanding, Sent, Reading, Running
<1>4. ASSUME NEW t \in Sessions \ {s} PROVE Awaiting(t)' = Awaiting(t)
  <2>1. pc'[t] = pc[t] /\ begun'[t] = begun[t] /\ sent'[t] = sent[t]
    BY <1>1 DEF Serves, TypeOK
  <2>. QED
    BY <2>1 DEF Awaiting, Outstanding, Last, Sent
<1>5. Pending(s) = <<Last(s)>> /\ Pending(s)' = <<>>
  BY <1>1, <1>3 DEF PendingIsAwaiting, Awaiting
<1>6. \A t \in Sessions \ {s} : Pending(t)' = Pending(t)
  BY <1>4 DEF PendingIsAwaiting
<1>7. /\ Pending(s) # <<>>
      /\ Head(Pending(s)) = Last(s)
      /\ Tail(Pending(s)) = <<>>
  BY <1>5
<1>8. [t \in Sessions |-> Pending(t)]'
        = [[t \in Sessions |-> Pending(t)] EXCEPT ![s] = Tail(Pending(s))]
  BY <1>5, <1>6, <1>7
<1>9. \/ gone[s] /\ [t \in Sessions |-> Texts(t)]' = [t \in Sessions |-> Texts(t)]
      \/ /\ ~gone[s]
         /\ [t \in Sessions |-> Texts(t)]'
              = [[t \in Sessions |-> Texts(t)] EXCEPT ![s] = Append(Texts(s), Last(s))]
  <2>1. CASE gone[s] /\ UNCHANGED replies
    BY <2>1 DEF Texts
  <2>2. CASE ~gone[s] /\ Into(s, Last(s), Last(s))
    <3>1. /\ replies'[s] = Append(replies[s], [text |-> Last(s), of |-> Last(s)])
          /\ replies[s] \in Seq(Answer)
          /\ \A t \in Sessions \ {s} : replies'[t] = replies[t]
      BY <1>1, <2>2 DEF Into, TypeOK
    <3>2. \A t \in Sessions \ {s} : Texts(t)' = Texts(t)
      BY <3>1 DEF Texts
    <3>3. Texts(s)' = Append(Texts(s), Last(s))
      BY <3>1 DEF Texts
    <3>. QED
      BY <2>2, <3>2, <3>3
  <2>. QED
    BY <2>1, <2>2 DEF Serves
<1>10. \/ Last(s) = "INITIALIZE" /\ status' = "INITIALIZED"
       \/ Last(s) = "TRAIN" /\ status # "UNINITIALIZED" /\ status' = "READY"
       \/ Last(s) \notin {"INITIALIZE", "TRAIN"} /\ status = "READY" /\ UNCHANGED status
  BY <1>1, <1>2 DEF Serves, Allowed, TypeOK
<1>. QED
  BY <1>1, <1>7, <1>8, <1>9, <1>10 DEF Serial!Serve

LEMMA IdlesStep ==
    ASSUME Idles, PendingIsAwaiting, PendingIsAwaiting'
    PROVE  UNCHANGED Serial!vars
<1>1. ASSUME NEW t \in Sessions PROVE Pending(t)' = Pending(t) /\ Texts(t)' = Texts(t)
  BY DEF Idles, PendingIsAwaiting, Awaiting, Last, Sent, Texts
<1>. QED
  BY <1>1 DEF Idles, Serial!vars

LEMMA SendStep ==
    ASSUME IInv, DInv, NEW s \in Sessions, NEW c \in Commands, Coordinated(s, c), Send(s, c),
           PendingIsAwaiting, PendingIsAwaiting'
    PROVE  Serial!Issue(s)
<1>1. TypeOK /\ SessionOK(s) /\ Steady(s)
  BY DEF IInv, DInv
<1>2. /\ ~gone[s]
      /\ sent' = [sent EXCEPT ![s] = Append(sent[s], c)]
      /\ UNCHANGED <<status, pc, begun, replies, gone>>
      /\ taken[s] = Sent(s)
  BY DEF Send, Coordinated, cache, output, Sent
<1>3. /\ sent[s] \in Seq(Commands)
      /\ sent'[s] = Append(sent[s], c)
      /\ \A t \in Sessions \ {s} : sent'[t] = sent[t]
  BY <1>1, <1>2 DEF TypeOK
<1>4. Sent(s)' = Sent(s) + 1 /\ Last(s)' = c
  BY <1>3 DEF Sent, Last
<1>5. pc[s] # "ended" /\ ~Busy(s) /\ begun[s] = Sent(s)
  BY <1>1, <1>2, Counts DEF Steady, SessionOK
<1>6. ~Outstanding(s)
  BY <1>5, Counts DEF Outstanding, Busy, Sent
<1>7. Outstanding(s)'
  <2>1. begun'[s] < Sent(s)' /\ pc'[s] # "ended"
    BY <1>2, <1>4, <1>5, Counts
  <2>. QED
    BY <2>1 DEF Outstanding, Sent
<1>8. Pending(s) = <<>> /\ Pending(s)' = <<c>>
  BY <1>4, <1>6, <1>7 DEF PendingIsAwaiting, Awaiting
<1>9. ASSUME NEW t \in Sessions \ {s} PROVE Pending(t)' = Pending(t)
  <2>1. Awaiting(t)' = Awaiting(t)
    BY <1>2, <1>3 DEF Awaiting, Outstanding, Last, Sent
  <2>. QED
    BY <2>1 DEF PendingIsAwaiting
<1>10. [t \in Sessions |-> Pending(t)]'
         = [[t \in Sessions |-> Pending(t)] EXCEPT ![s] = Append(Pending(s), c)]
  <2>1. Append(<<>>, c) = <<c>>
    OBVIOUS
  <2>2. Append(Pending(s), c) = Pending(s)'
    BY <1>8, <2>1, Zenon
  <2>. QED
    BY <1>9, <2>2
<1>11. [t \in Sessions |-> Texts(t)]' = [t \in Sessions |-> Texts(t)]
  BY <1>2 DEF Texts
<1>. QED
  BY <1>2, <1>10, <1>11 DEF Serial!Issue, Commands

LEMMA HangupStep ==
    ASSUME NEW s \in Sessions, Hangup(s), PendingIsAwaiting, PendingIsAwaiting'
    PROVE  Serial!Leave(s)
<1>1. UNCHANGED <<status, pc, sent, begun, replies>> /\ gone' = [gone EXCEPT ![s] = TRUE]
  BY DEF Hangup, cache, output
<1>2. \A t \in Sessions : Pending(t)' = Pending(t) /\ Texts(t)' = Texts(t)
  BY <1>1 DEF PendingIsAwaiting, Awaiting, Outstanding, Last, Sent, Texts
<1>. QED
  BY <1>1, <1>2 DEF Serial!Leave

LEMMA ReadErrorStep ==
    ASSUME TypeOK, NEW s \in Sessions, ReadError(s), PendingIsAwaiting, PendingIsAwaiting'
    PROVE  Serial!Forget(s)
<1>1. /\ gone[s] /\ pc'[s] = "ended"
      /\ \A t \in Sessions \ {s} : pc'[t] = pc[t]
      /\ UNCHANGED <<status, sent, begun, replies, gone>>
  BY DEF ReadError, At, cache, output, TypeOK
<1>2. Pending(s)' = <<>>
  BY <1>1 DEF PendingIsAwaiting, Awaiting, Outstanding
<1>3. \A t \in Sessions \ {s} : Pending(t)' = Pending(t)
  BY <1>1 DEF PendingIsAwaiting, Awaiting, Outstanding, Last, Sent
<1>4. \A t \in Sessions : Texts(t)' = Texts(t)
  BY <1>1 DEF Texts
<1>. QED
  BY <1>1, <1>2, <1>3, <1>4 DEF Serial!Forget

(* A command whose arguments are there takes effect, or waits unseen.       *)
LEMMA ExecuteKind ==
    ASSUME IInv, DInv, NEW s \in Sessions, Outstanding(s), Execute(s, Last(s)),
           begun' = [begun EXCEPT ![s] = Sent(s)], UNCHANGED <<sent, gone>>
    PROVE  Serves(s) \/ Idles
<1>1. TypeOK /\ StatusOfCore /\ Steady(s) /\ Orderly(s)
  BY DEF IInv, DInv
<1>2. Last(s) \in Commands /\ Last(s) \in Allowed[status] /\ Sent(s) \in Nat \ {0}
  BY <1>1, OneOutstanding DEF Orderly
<1>3. Last(s) \in CoreCommands => core = "trained"
  BY <1>1, <1>2 DEF Allowed, CoreCommands, TypeOK, StatusOfCore
<1>4. CASE /\ Last(s) \in {"INITIALIZE", "TRAIN"}
           /\ status' = StatusAfter(Last(s))
           /\ Reply(s, Last(s))
  BY <1>4, ReplyAtOnce DEF Serves, StatusAfter
<1>5. CASE Last(s) \in {"ADD", "EVICT"} /\ Reply(s, Last(s)) /\ UNCHANGED <<cache, down>>
  BY <1>5, ReplyAtOnce DEF Serves, cache
<1>6. CASE /\ Last(s) \in {"LOAD", "SEARCH"}
           /\ At(s, IF Last(s) = "LOAD" THEN "proxy" ELSE "writing")
           /\ UNCHANGED <<cache, output, down>>
  <2>1. PICK p \in Running : pc' = [pc EXCEPT ![s] = p]
    BY <1>6 DEF At, Running
  <2>2. pc'[s] \in Running /\ pc'[s] # "ended" /\ \A t \in Sessions \ {s} : pc'[t] = pc[t]
    BY <1>1, <2>1 DEF TypeOK, Running
  <2>3. Outstanding(s)'
    BY <2>2 DEF Outstanding
  <2>4. \A t \in Sessions \ {s} : begun'[t] = begun[t]
    BY <1>1 DEF TypeOK
  <2>5. \A t \in Sessions \ {s} : Outstanding(t)' <=> Outstanding(t)
    BY <2>2, <2>4 DEF Outstanding
  <2>. QED
    BY <1>6, <2>3, <2>5 DEF Idles, cache, output
<1>. QED
  BY <1>3, <1>4, <1>5, <1>6 DEF Execute

(* What each step of the server is to its clients. *)
LEMMA StepKinds ==
    ASSUME IInv, DInv, [DisciplinedNext]_vars
    PROVE  \/ \E s \in Sessions : Serves(s)
           \/ Idles
           \/ \E s \in Sessions, c \in Commands : Coordinated(s, c) /\ Send(s, c)
           \/ \E s \in Sessions : Hangup(s)
           \/ \E s \in Sessions : ReadError(s)
<1>1. TypeOK /\ \A s \in Sessions : Steady(s) /\ Orderly(s)
  BY DEF IInv, DInv
<1>2. CASE UNCHANGED vars
  BY <1>2 DEF vars, cache, output, Idles, Outstanding
<1>3. ASSUME NEW s \in Sessions, Connect(s) \/ Accept(s) PROVE Idles
  <2>1. PICK p \in {"backlog", "line"} : pc' = [pc EXCEPT ![s] = p]
    BY <1>3 DEF Connect, Accept, At
  <2>2. pc[s] \in {"new", "backlog"} /\ UNCHANGED <<status, sent, begun, replies, gone>>
    BY <1>3 DEF Connect, Accept, cache, output
  <2>3. pc'[s] = p /\ \A t \in Sessions \ {s} : pc'[t] = pc[t]
    BY <1>1, <2>1 DEF TypeOK
  <2>4. \A t \in Sessions : Outstanding(t)' <=> Outstanding(t)
    BY <2>2, <2>3 DEF Outstanding, Reading, Running
  <2>. QED
    BY <2>2, <2>4 DEF Idles
<1>4. ASSUME NEW s \in Sessions, Receive(s) PROVE Idles
  BY <1>4 DEF Receive, Idles, Outstanding, cache, output
<1>5. ASSUME NEW s \in Sessions, ReadDynamic(s) \/ ProxyAnswers(s) \/ SearchWrites(s)
      PROVE  Serves(s) \/ Idles
  <2>1. /\ Outstanding(s) /\ Busy(s) /\ UNCHANGED <<sent, begun, gone>>
    BY <1>5 DEF ReadDynamic, ProxyAnswers, SearchWrites, Outstanding, Busy, Reading, Running
  <2>2. begun[s] = Sent(s) /\ begun' = [begun EXCEPT ![s] = Sent(s)]
    BY <1>1, <2>1, OneOutstanding DEF TypeOK
  <2>3. CASE ReadDynamic(s)
    <3>1. Execute(s, Last(s))
      BY <2>2, <2>3 DEF ReadDynamic, Current, Last
    <3>. QED
      BY <2>1, <2>2, <3>1, ExecuteKind
  <2>4. CASE ProxyAnswers(s)
    <3>1. Last(s) = "LOAD" /\ Reply(s, Last(s)) /\ UNCHANGED cache
      BY <1>1, <2>4 DEF ProxyAnswers, Orderly
    <3>. QED
      BY <2>1, <2>2, <3>1, ReplyAtOnce DEF Serves, cache
  <2>5. CASE SearchWrites(s)
    <3>1. /\ Last(s) = "SEARCH"
          /\ UNCHANGED cache
          /\ pc' = [pc EXCEPT ![s] = "line"]
          /\ \/ gone[s] /\ UNCHANGED replies
             \/ ~gone[s] /\ Into(s, Last(s), Last(s))
      BY <1>1, <2>5 DEF SearchWrites, Orderly, At
    <3>. QED
      BY <2>1, <2>2, <3>1 DEF Serves, cache
  <2>. QED
    BY <1>5, <2>3, <2>4, <2>5
<1>6. ASSUME NEW s \in Sessions, WholeLine(s) PROVE Serves(s) \/ Idles
  <2>1. PICK n \in 1 .. 3 : /\ begun[s] < Len(sent[s])
                            /\ n >= HeadParts(sent[s][begun[s] + 1])
                            /\ ReadLine(s, n)
    BY <1>6 DEF WholeLine
  <2>2. /\ pc[s] = "line" /\ UNCHANGED <<sent, gone>>
        /\ begun' = [begun EXCEPT ![s] = begun[s] + 1]
    BY <2>1 DEF ReadLine
  <2>3. Outstanding(s) /\ ~Busy(s)
    BY <2>1, <2>2 DEF Outstanding, Busy, Reading, Running
  <2>4. begun[s] + 1 = Sent(s) /\ Last(s) = sent[s][begun[s] + 1]
    BY <1>1, <2>3, OneOutstanding DEF Last
  <2>5. begun' = [begun EXCEPT ![s] = Sent(s)]
    BY <2>2, <2>4
  <2>6. ~Terminate
    <3>1. ~down'
      BY <1>6, DisciplinedDInv DEF DisciplinedNext, DInv
    <3>. QED
      BY <3>1 DEF Terminate
  <2>7. (\E p \in Reading : At(s, p) /\ UNCHANGED <<cache, output, down>>) \/ Execute(s, Last(s))
    <3>1. \/ Terminate
          \/ \E p \in Reading : At(s, p) /\ UNCHANGED <<cache, output, down>>
          \/ Execute(s, Last(s))
      BY <2>1, <2>4, Zenon DEF ReadLine, Reading
    <3>. QED
      BY <2>6, <3>1
  <2>8. ASSUME NEW p \in Reading, At(s, p), UNCHANGED <<cache, output, down>> PROVE Idles
    <3>1. pc'[s] \in Reading /\ pc'[s] # "ended" /\ \A t \in Sessions \ {s} : pc'[t] = pc[t]
      BY <1>1, <2>8 DEF At, TypeOK, Reading
    <3>2. \A t \in Sessions \ {s} : begun'[t] = begun[t]
      BY <1>1, <2>2 DEF TypeOK
    <3>3. \A t \in Sessions : Outstanding(t)' <=> Outstanding(t)
      BY <2>2, <2>3, <3>1, <3>2 DEF Outstanding
    <3>. QED
      BY <2>2, <2>8, <3>3 DEF Idles, cache, output
  <2>. QED
    BY <2>2, <2>3, <2>5, <2>7, <2>8, ExecuteKind
<1>7. \A s \in Sessions : ~Transmit(s)
  BY <1>1 DEF Transmit, Steady
<1>8. ASSUME NEW s \in Sessions, Common(s)
      PROVE  Serves(s) \/ Idles \/ Hangup(s) \/ ReadError(s)
  BY <1>3, <1>4, <1>5, <1>7, <1>8 DEF Common
<1>. QED
  BY <1>2, <1>6, <1>8 DEF DisciplinedNext

LEMMA SerialStep ==
    ASSUME IInv, DInv, [DisciplinedNext]_vars,
           PendingIsAwaiting, PendingIsAwaiting', TextsTyped
    PROVE  [Serial!Next]_(Serial!vars)
<1>1. TypeOK
  BY DEF IInv
<1>2. ASSUME NEW s \in Sessions, Serves(s) PROVE Serial!Next
  BY <1>2, ServesStep DEF Serial!Next
<1>3. CASE Idles
  BY <1>3, IdlesStep
<1>4. ASSUME NEW s \in Sessions, NEW c \in Commands, Coordinated(s, c), Send(s, c)
      PROVE  Serial!Next
  BY <1>4, SendStep DEF Serial!Next
<1>5. ASSUME NEW s \in Sessions, Hangup(s) PROVE Serial!Next
  BY <1>5, HangupStep DEF Serial!Next
<1>6. ASSUME NEW s \in Sessions, ReadError(s) PROVE Serial!Next
  BY <1>1, <1>6, ReadErrorStep DEF Serial!Next
<1>. QED
  BY <1>2, <1>3, <1>4, <1>5, <1>6, StepKinds

LEMMA SerialInit == Init => Serial!Init
<1>. SUFFICES ASSUME Init PROVE Serial!Init
  OBVIOUS
<1>1. ASSUME NEW s \in Sessions PROVE Pending(s) = <<>> /\ Texts(s) = <<>>
  <2>1. Pending(s) = Awaiting(s)
    BY PendingOne, InitInv, InitDInv DEF PendingIsAwaiting
  <2>2. ~Outstanding(s) /\ replies[s] = <<>>
    BY DEF Init, Outstanding, Reading, Running
  <2>. QED
    BY <2>1, <2>2 DEF Awaiting, Texts
<1>. QED
  BY <1>1 DEF Init, Serial!Init

(* Under the contract the sessions, the dispatcher and the sockets are one  *)
(* server that runs whole commands one at a time, each in a status that     *)
(* allows it, and answers each with its own reply (session.cpp, cache.cpp). *)
THEOREM ServerImplementsSerialServer == DisciplinedSpec => ImplementsSerialServer
<1>1. IInv /\ DInv => PendingIsAwaiting /\ TextsTyped
  BY PendingOne, TextsType
<1>2. /\ IInv /\ DInv /\ PendingIsAwaiting /\ TextsTyped /\ PendingIsAwaiting'
      /\ [DisciplinedNext]_vars
      => [Serial!Next]_(Serial!vars)
  BY SerialStep
<1>. QED
  BY <1>1, <1>2, SerialInit, ContractInvariance, PTL
     DEF DisciplinedSpec, ImplementsSerialServer, Serial!Spec

=============================================================================
