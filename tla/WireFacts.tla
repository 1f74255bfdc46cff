------------------------------ MODULE WireFacts ------------------------------
(***************************************************************************)
(* What the operators of Wire compute, for any call: first facts about     *)
(* joined sequences, then where the parts of a message lie in it, and last *)
(* that the Args structs read each message back as its caller meant it.    *)
(***************************************************************************)
EXTENDS Wire, SequenceTheorems, FiniteSetTheorems, TLAPS

(* A set of numbers with 0 and the successor of each of its elements is Nat: *)
(* otherwise the successor would map the part of it below a missing number  *)
(* into itself, one to one, without reaching 0.                             *)
LEMMA SetInduction ==
    ASSUME NEW T \in SUBSET Nat, 0 \in T, \A n \in T : n + 1 \in T
    PROVE  T = Nat
<1> SUFFICES ASSUME NEW x \in Nat, x \notin T PROVE FALSE
  OBVIOUS
<1> DEFINE A == T \cap (0 .. x)
<1> DEFINE f == [n \in A |-> n + 1]
<1>1. IsFiniteSet(A)
  <2>1. IsFiniteSet(0 .. x)
    BY FS_Interval
  <2> QED
    BY <2>1, FS_Subset
<1>2. 0 \in A /\ A \subseteq Nat
  OBVIOUS
<1>3. IsFiniteSet(A \ {0}) /\ Cardinality(A \ {0}) = Cardinality(A) - 1 /\ Cardinality(A) \in Nat
  BY <1>1, <1>2, FS_RemoveElement, FS_CardinalityType
<1>4. f \in [A -> A \ {0}]
  <2>1. ASSUME NEW n \in A PROVE n + 1 \in A \ {0}
    OBVIOUS
  <2> QED
    BY <2>1
<1> HIDE DEF A
<1>5. \E m, n \in A : m # n /\ f[m] = f[n]
  <2>1. Cardinality(A \ {0}) < Cardinality(A)
    BY <1>3
  <2> HIDE DEF f
  <2> QED
    BY <1>1, <1>3, <1>4, <2>1, FS_PigeonHole
<1>6. PICK m \in A, n \in A : m # n /\ f[m] = f[n]
  BY <1>5
<1> QED
  BY <1>2, <1>6

(* The function FlattenSeq is defined by: the concatenations of prefixes.   *)
JoinsTo(s, g, n) == g = [i \in 1 .. n |-> IF i = 1 THEN s[i] ELSE g[i - 1] \o s[i]]

LEMMA JoinsAt ==
    ASSUME NEW s, NEW g, NEW n \in Nat, JoinsTo(s, g, n), NEW i \in 1 .. n
    PROVE  g[i] = IF i = 1 THEN s[i] ELSE g[i - 1] \o s[i]
  BY Zenon DEF JoinsTo

LEMMA JoinsOneMore ==
    ASSUME NEW s, NEW n \in Nat, NEW g, JoinsTo(s, g, n)
    PROVE  \E h : JoinsTo(s, h, n + 1)
<1> DEFINE h == [i \in 1 .. n + 1 |-> IF i <= n THEN g[i] ELSE IF n = 0 THEN s[1] ELSE g[n] \o s[n + 1]]
<1>1. ASSUME NEW i \in 1 .. n + 1 PROVE h[i] = IF i = 1 THEN s[i] ELSE h[i - 1] \o s[i]
  <2>1. CASE i <= n
    <3>1. i \in 1 .. n /\ (i # 1 => i - 1 \in 1 .. n /\ i - 1 <= n)
      BY <2>1
    <3>2. g[i] = IF i = 1 THEN s[i] ELSE g[i - 1] \o s[i]
      BY <3>1, JoinsAt
    <3> QED
      BY <3>1, <3>2, <2>1
  <2>2. CASE i = n + 1
    BY <2>2
  <2> QED
    BY <2>1, <2>2
<1>2. h = [i \in 1 .. n + 1 |-> IF i = 1 THEN s[i] ELSE h[i - 1] \o s[i]]
  BY <1>1
<1> QED
  BY <1>2 DEF JoinsTo

LEMMA JoinsExists ==
    ASSUME NEW s, NEW k \in Nat
    PROVE  \E g : JoinsTo(s, g, k)
<1> DEFINE T == {n \in Nat : \E g : JoinsTo(s, g, n)}
<1>1. 0 \in T
  <2>1. JoinsTo(s, <<>>, 0)
    BY DEF JoinsTo
  <2> QED
    BY <2>1
<1>2. ASSUME NEW n \in T PROVE n + 1 \in T
  BY JoinsOneMore
<1> HIDE DEF T
<1>3. T = Nat
  BY <1>1, <1>2, SetInduction DEF T
<1> QED
  BY <1>3 DEF T

Alike(s, t, k) == \A i \in 1 .. k : s[i] = t[i]

(* They are the same for sequences that begin alike. *)
LEMMA JoinsAgree ==
    ASSUME NEW s, NEW t, NEW m \in Nat, NEW n \in Nat, NEW g, NEW h,
           JoinsTo(s, g, m), JoinsTo(t, h, n),
           NEW k \in Nat, k <= m, k <= n, Alike(s, t, k)
    PROVE  Alike(g, h, k)
<1> DEFINE T == {j \in Nat : j \in 1 .. k => g[j] = h[j]}
<1>1. 0 \in T
  OBVIOUS
<1>2. ASSUME NEW j \in T PROVE j + 1 \in T
  <2> SUFFICES ASSUME j + 1 \in 1 .. k PROVE g[j + 1] = h[j + 1]
    OBVIOUS
  <2>1. j + 1 \in 1 .. m /\ j + 1 \in 1 .. n /\ j \in Nat
    OBVIOUS
  <2>2. g[j + 1] = IF j + 1 = 1 THEN s[j + 1] ELSE g[j + 1 - 1] \o s[j + 1]
    BY <2>1, JoinsAt
  <2>3. h[j + 1] = IF j + 1 = 1 THEN t[j + 1] ELSE h[j + 1 - 1] \o t[j + 1]
    BY <2>1, JoinsAt
  <2>4. CASE j = 0
    BY <2>2, <2>3, <2>4 DEF Alike
  <2>5. CASE j # 0
    <3>1. g[j] = h[j]
      BY <2>5, <2>1
    <3>2. j + 1 # 1 /\ j + 1 - 1 = j /\ s[j + 1] = t[j + 1]
      BY <2>1, <2>5 DEF Alike
    <3> QED
      BY <2>2, <2>3, <3>1, <3>2
  <2> QED
    BY <2>4, <2>5
<1> HIDE DEF T
<1>3. T = Nat
  BY <1>1, <1>2, SetInduction DEF T
<1> QED
  BY <1>3 DEF T, Alike

LEMMA FlattenByJoins ==
    ASSUME NEW s, Len(s) \in Nat \ {0}
    PROVE  \E g : JoinsTo(s, g, Len(s)) /\ FlattenSeq(s) = g[Len(s)]
<1> DEFINE g == CHOOSE g : g = [i \in 1 .. Len(s) |-> IF i = 1 THEN s[i] ELSE g[i - 1] \o s[i]]
<1>1. JoinsTo(s, g, Len(s))
  <2>1. \E h : h = [i \in 1 .. Len(s) |-> IF i = 1 THEN s[i] ELSE h[i - 1] \o s[i]]
    BY JoinsExists DEF JoinsTo
  <2> QED
    BY <2>1, Zenon DEF JoinsTo
<1>2. FlattenSeq(s) = g[Len(s)]
  BY Zenon DEF FlattenSeq
<1> QED
  BY <1>1, <1>2

LEMMA FlattenEmpty == FlattenSeq(<<>>) = <<>>
  BY DEF FlattenSeq

LEMMA FlattenAppend ==
    ASSUME NEW S, NEW s \in Seq(Seq(S)), NEW e \in Seq(S)
    PROVE  FlattenSeq(Append(s, e)) = FlattenSeq(s) \o e
<1> DEFINE u == Append(s, e)
<1> DEFINE m == Len(u)
<1> DEFINE n == Len(s)
<1>1. n \in Nat /\ m = n + 1 /\ u[m] = e /\ \A i \in 1 .. n : u[i] = s[i]
  BY AppendProperties, LenProperties
<1>2. m \in Nat \ {0} /\ m \in 1 .. m /\ m - 1 = n /\ n <= m
  BY <1>1
<1> HIDE DEF u
<1>3. PICK g : JoinsTo(u, g, m) /\ FlattenSeq(u) = g[m]
  BY <1>2, FlattenByJoins
<1> HIDE DEF m, n
<1>4. g[m] = IF m = 1 THEN u[m] ELSE g[m - 1] \o u[m]
  BY <1>2, <1>3, JoinsAt
<1>5. CASE n = 0
  <2>1. s = <<>>
    BY <1>5, EmptySeq DEF n
  <2>2. FlattenSeq(s) \o e = e
    BY <2>1, FlattenEmpty, ConcatEmptySeq
  <2> QED
    BY <1>1, <1>3, <1>4, <1>5, <2>2 DEF u
<1>6. CASE n # 0
  <2>1. PICK h : JoinsTo(s, h, n) /\ FlattenSeq(s) = h[n]
    BY <1>1, <1>6, FlattenByJoins DEF n
  <2>2. Alike(g, h, n)
    <3>1. Alike(u, s, n)
      BY <1>1 DEF Alike
    <3>2. n <= n /\ n \in Nat /\ m \in Nat
      BY <1>1, <1>2
    <3> QED
      BY <1>2, <1>3, <2>1, <3>1, <3>2, JoinsAgree
  <2>3. n \in 1 .. n /\ m # 1
    BY <1>1, <1>6
  <2>4. FlattenSeq(u) = FlattenSeq(s) \o u[m]
    BY <1>2, <1>3, <1>4, <2>1, <2>2, <2>3 DEF Alike
  <2> QED
    BY <1>1, <2>4 DEF u
<1> QED
  BY <1>1, <1>5, <1>6

LEMMA FlattenType ==
    ASSUME NEW S, NEW s \in Seq(Seq(S))
    PROVE  FlattenSeq(s) \in Seq(S)
<1> DEFINE T == {n \in Nat : \A t \in Seq(Seq(S)) : Len(t) = n => FlattenSeq(t) \in Seq(S)}
<1>1. 0 \in T
  <2>1. ASSUME NEW t \in Seq(Seq(S)), Len(t) = 0 PROVE FlattenSeq(t) \in Seq(S)
    <3>1. t = <<>>
      BY <2>1, EmptySeq
    <3>2. <<>> \in Seq(S)
      BY EmptySeq
    <3> HIDE DEF T
    <3> QED
      BY <3>1, <3>2, FlattenEmpty, Zenon
  <2> QED
    BY <2>1
<1>2. ASSUME NEW n \in T PROVE n + 1 \in T
  <2>1. ASSUME NEW t \in Seq(Seq(S)), Len(t) = n + 1 PROVE FlattenSeq(t) \in Seq(S)
    <3>1. t # <<>>
      BY <2>1
    <3>2. PICK r \in Seq(Seq(S)), e \in Seq(S) : t = Append(r, e)
      BY <3>1, SequenceEmptyOrAppend
    <3>3. Len(r) = n
      BY <3>2, <2>1, AppendProperties, LenProperties
    <3>4. FlattenSeq(r) \in Seq(S)
      BY <3>3
    <3> HIDE DEF T
    <3>5. FlattenSeq(t) = FlattenSeq(r) \o e
      BY <3>2, FlattenAppend
    <3> QED
      BY <3>4, <3>5, ConcatProperties
  <2> QED
    BY <2>1
<1> HIDE DEF T
<1>3. T = Nat
  BY <1>1, <1>2, SetInduction DEF T
<1>4. Len(s) \in T
  BY <1>3, LenProperties
<1> QED
  BY <1>4 DEF T

(* Joining is associative; the conclusion is named to be cited. *)
Regroups(x, y, z) == (x \o y) \o z = x \o (y \o z)

LEMMA Regroup ==
    ASSUME NEW S, NEW x \in Seq(S), NEW y \in Seq(S), NEW z \in Seq(S)
    PROVE  Regroups(x, y, z)
  BY ConcatAssociative DEF Regroups

LEMMA FlattenConcat ==
    ASSUME NEW S, NEW s \in Seq(Seq(S)), NEW t \in Seq(Seq(S))
    PROVE  FlattenSeq(s \o t) = FlattenSeq(s) \o FlattenSeq(t)
<1> DEFINE T == {n \in Nat : \A u \in Seq(Seq(S)) : Len(u) = n =>
                     FlattenSeq(s \o u) = FlattenSeq(s) \o FlattenSeq(u)}
<1>1. 0 \in T
  <2>1. ASSUME NEW u \in Seq(Seq(S)), Len(u) = 0 PROVE FlattenSeq(s \o u) = FlattenSeq(s) \o FlattenSeq(u)
    <3>1. u = <<>>
      BY <2>1, EmptySeq
    <3>2. s \o u = s
      BY <3>1, ConcatEmptySeq
    <3>3. FlattenSeq(s) \o FlattenSeq(u) = FlattenSeq(s)
      BY <3>1, FlattenEmpty, FlattenType, ConcatEmptySeq
    <3> QED
      BY <3>2, <3>3
  <2> QED
    BY <2>1
<1>2. ASSUME NEW n \in T PROVE n + 1 \in T
  <2>1. ASSUME NEW u \in Seq(Seq(S)), Len(u) = n + 1 PROVE FlattenSeq(s \o u) = FlattenSeq(s) \o FlattenSeq(u)
    <3>1. u # <<>>
      BY <2>1
    <3>2. PICK r \in Seq(Seq(S)), e \in Seq(S) : u = Append(r, e)
      BY <3>1, SequenceEmptyOrAppend
    <3>3. Len(r) = n
      BY <3>2, <2>1, AppendProperties, LenProperties
    <3>4. FlattenSeq(s \o r) = FlattenSeq(s) \o FlattenSeq(r)
      BY <3>3
    <3> HIDE DEF T
    <3>5. s \o u = Append(s \o r, e) /\ s \o r \in Seq(Seq(S))
      BY <3>2, ConcatProperties
    <3>6. FlattenSeq(s \o u) = FlattenSeq(s \o r) \o e
      BY <3>5, FlattenAppend
    <3>7. FlattenSeq(u) = FlattenSeq(r) \o e
      BY <3>2, FlattenAppend
    <3>8. (FlattenSeq(s) \o FlattenSeq(r)) \o e = FlattenSeq(s) \o (FlattenSeq(r) \o e)
      <4>1. FlattenSeq(s) \in Seq(S) /\ FlattenSeq(r) \in Seq(S)
        BY FlattenType
      <4> DEFINE x == FlattenSeq(s)
                 y == FlattenSeq(r)
      <4> HIDE DEF x, y
      <4>2. x \in Seq(S) /\ y \in Seq(S) /\ e \in Seq(S)
        BY <3>2, <4>1 DEF x, y
      <4>3. Regroups(x, y, e)
        BY <4>2, Regroup, Zenon
      <4> QED
        BY <4>3 DEF x, y, Regroups
    <3> QED
      BY <3>4, <3>6, <3>7, <3>8
  <2> QED
    BY <2>1
<1> HIDE DEF T
<1>3. T = Nat
  BY <1>1, <1>2, SetInduction DEF T
<1>4. Len(t) \in T
  BY <1>3, LenProperties
<1> QED
  BY <1>4 DEF T

LEMMA FlattenOne ==
    ASSUME NEW S, NEW e \in Seq(S)
    PROVE  FlattenSeq(<<e>>) = e
<1>1. <<e>> = Append(<<>>, e) /\ <<>> \in Seq(Seq(S))
  OBVIOUS
<1>2. FlattenSeq(<<e>>) = FlattenSeq(<<>>) \o e
  BY <1>1, FlattenAppend
<1> QED
  BY <1>2, FlattenEmpty, ConcatEmptySeq

(* The i-th piece, between those before it and those after it. *)
LEMMA FlattenSplit ==
    ASSUME NEW S, NEW s \in Seq(Seq(S)), NEW i \in 1 .. Len(s)
    PROVE  /\ FlattenSeq(SubSeq(s, 1, i - 1)) \in Seq(S)
           /\ FlattenSeq(SubSeq(s, i, Len(s))) = s[i] \o FlattenSeq(SubSeq(s, i + 1, Len(s)))
           /\ FlattenSeq(SubSeq(s, 1, i)) = FlattenSeq(SubSeq(s, 1, i - 1)) \o s[i]
           /\ FlattenSeq(s) = FlattenSeq(SubSeq(s, 1, i - 1)) \o FlattenSeq(SubSeq(s, i, Len(s)))
<1> DEFINE n == Len(s)
<1> DEFINE p == SubSeq(s, 1, i - 1)
<1> DEFINE q == SubSeq(s, i + 1, n)
<1>1. n \in Nat /\ s[i] \in Seq(S)
  BY LenProperties, ElementOfSeq
<1>2. p \in Seq(Seq(S)) /\ q \in Seq(Seq(S)) /\ SubSeq(s, i, n) \in Seq(Seq(S)) /\ <<s[i]>> \in Seq(Seq(S))
  BY <1>1
<1>3. SubSeq(s, i, n) = <<s[i]>> \o q
  BY <1>1, SubSeqRecursiveFirst
<1>4. SubSeq(s, 1, i) = p \o <<s[i]>>
  BY <1>1, SubSeqRecursiveSecond
<1>5. s = p \o SubSeq(s, i, n)
  <2>1. p \o SubSeq(s, i - 1 + 1, n) = SubSeq(s, 1, n)
    <3>1. 1 \in 1 .. Len(s) + 1 /\ i - 1 \in 1 - 1 .. Len(s) /\ n \in i - 1 .. Len(s)
      BY <1>1
    <3> HIDE DEF p, n
    <3>2. SubSeq(s, 1, i - 1) \o SubSeq(s, i - 1 + 1, n) = SubSeq(s, 1, n)
      BY <3>1, ConcatAdjacentSubSeq
    <3> QED
      BY <3>2 DEF p
  <2>2. SubSeq(s, 1, n) = s
    BY SubSeqFull
  <2>3. i - 1 + 1 = i
    OBVIOUS
  <2> QED
    BY <2>1, <2>2, <2>3
<1>6. FlattenSeq(<<s[i]>>) = s[i]
  BY <1>1, FlattenOne
<1>7. FlattenSeq(p) \in Seq(S)
  BY <1>2, FlattenType
<1> HIDE DEF p, q, n
<1>8. FlattenSeq(SubSeq(s, i, n)) = s[i] \o FlattenSeq(q)
  BY <1>2, <1>3, <1>6, FlattenConcat
<1>9. FlattenSeq(SubSeq(s, 1, i)) = FlattenSeq(p) \o s[i]
  BY <1>2, <1>4, <1>6, FlattenConcat
<1>10. FlattenSeq(s) = FlattenSeq(p) \o FlattenSeq(SubSeq(s, i, n))
  <2>1. FlattenSeq(p \o SubSeq(s, i, n)) = FlattenSeq(p) \o FlattenSeq(SubSeq(s, i, n))
    BY <1>2, FlattenConcat
  <2> QED
    BY <2>1, <1>5
<1> QED
  BY <1>7, <1>8, <1>9, <1>10 DEF p, q, n

-----------------------------------------------------------------------------
(* Items, values and bytes *)

Items ==
    {"line", "newline", "end", "size", "float",
     "d", "max_mem", "nTotal", "use_flat", "db_url", "num_docs", "id_len", "id", "nload",
     "n", "k", "nprobe", "require_all", "nevict",
     "count", "embedding_len", "document_len", "document", "metadata_len", "metadata", "text"}
Names ==
    {"INITIALIZE", "TRAIN", "ADD", "LOAD", "SEARCH", "EVICT", "url", "id", "document", "metadata"}
Values == Int \cup Names \cup BOOLEAN
Byte == [item : Items, value : Values, width : Nat, at : Nat]

-----------------------------------------------------------------------------
(* Bytes and what they stand for *)

LEMMA BytesType ==
    ASSUME NEW item \in Items, NEW value \in Values, NEW width \in Nat
    PROVE  /\ Bytes(item, value, width) \in Seq(Byte)
           /\ Len(Bytes(item, value, width)) = width
           /\ \A i \in 1 .. width : Bytes(item, value, width)[i] =
                 [item |-> item, value |-> value, width |-> width, at |-> i]
<1>1. \A i \in 1 .. width : [item |-> item, value |-> value, width |-> width, at |-> i] \in Byte
  BY DEF Byte
<1> QED
  BY <1>1 DEF Bytes

(* b is a string of n bytes. *)
Sized(b, n) == b \in Seq(Byte) /\ Len(b) = n

LEMMA BytesSized ==
    ASSUME NEW item \in Items, NEW value \in Values, NEW width \in Nat
    PROVE  Sized(Bytes(item, value, width), width)
<1>1. Bytes(item, value, width) \in Seq(Byte) /\ Len(Bytes(item, value, width)) = width
  BY BytesType, Zenon
<1> QED
  BY <1>1 DEF Sized

(* The part of s after the first off bytes begins with b. *)
Lies(b, s, off) == off + Len(b) <= Len(s) /\ \A i \in 1 .. Len(b) : s[off + i] = b[i]

LEMMA LiesWhole ==
    ASSUME NEW s \in Seq(Byte)
    PROVE  Lies(s, s, 0)
  BY LenProperties DEF Lies

LEMMA LiesLeft ==
    ASSUME NEW b \in Seq(Byte), NEW s \in Seq(Byte), NEW t \in Seq(Byte), NEW off \in Nat, Lies(b, s, off)
    PROVE  Lies(b, s \o t, off)
  BY ConcatProperties, LenProperties DEF Lies

LEMMA LiesRight ==
    ASSUME NEW b \in Seq(Byte), NEW s \in Seq(Byte), NEW t \in Seq(Byte), NEW off \in Nat, Lies(b, t, off)
    PROVE  Lies(b, s \o t, Len(s) + off)
  BY ConcatProperties, LenProperties DEF Lies

LEMMA LiesWithin ==
    ASSUME NEW b \in Seq(Byte), NEW s \in Seq(Byte), NEW t \in Seq(Byte), NEW o1 \in Nat, NEW o2 \in Nat,
           Lies(b, s, o1), Lies(s, t, o2)
    PROVE  Lies(b, t, o2 + o1)
  BY LenProperties DEF Lies

LEMMA LiesSubSeq ==
    ASSUME NEW b \in Seq(Byte), NEW s \in Seq(Byte), NEW off \in Nat, Lies(b, s, off)
    PROVE  SubSeq(s, off + 1, off + Len(b)) = b
<1> DEFINE q == SubSeq(s, off + 1, off + Len(b))
<1>1. Len(b) \in Nat /\ off + Len(b) <= Len(s)
  BY LenProperties DEF Lies
<1>2. q \in Seq(Byte) /\ Len(q) = Len(b) /\ \A i \in 1 .. Len(b) : q[i] = s[off + i]
  BY <1>1
<1>3. \A i \in 1 .. Len(b) : q[i] = b[i]
  BY <1>2 DEF Lies
<1> HIDE DEF q
<1>4. q = b
  BY <1>2, <1>3, SeqEqual
<1> QED
  BY <1>4 DEF q

LEMMA ValueLies ==
    ASSUME NEW item \in Items, NEW value \in Values, NEW width \in Nat \ {0},
           NEW s \in Seq(Byte), NEW off \in Nat, Lies(Bytes(item, value, width), s, off)
    PROVE  Value(s, off, width) = value
<1> DEFINE b == Bytes(item, value, width)
<1>1. /\ b \in Seq(Byte) /\ Len(b) = width
      /\ b[1] = [item |-> item, value |-> value, width |-> width, at |-> 1]
  BY BytesType
<1> HIDE DEF b
<1>2. Lies(b, s, off)
  BY DEF b
<1>3. SubSeq(s, off + 1, off + width) = b
  BY <1>1, <1>2, LiesSubSeq
<1>4. s[off + 1] = b[1]
  BY <1>1, <1>2 DEF Lies
<1>5. s[off + 1].item = item /\ s[off + 1].value = value
  BY <1>1, <1>4
<1> QED
  BY <1>3, <1>5 DEF Value, b

(* What stands in the part of a stream that has arrived. *)
LEMMA ValueOfPrefix ==
    ASSUME NEW s \in Seq(Byte), NEW t \in Seq(Byte), NEW off \in Nat, NEW width \in Nat \ {0},
           off + width <= Len(s)
    PROVE  Value(s \o t, off, width) = Value(s, off, width)
<1>1. (s \o t)[off + 1] = s[off + 1]
  BY ConcatProperties, LenProperties
<1>2. SubSeq(s \o t, off + 1, off + width) = SubSeq(s, off + 1, off + width)
  BY SubSeqOfConcat1, LenProperties
<1> QED
  BY <1>1, <1>2 DEF Value

-----------------------------------------------------------------------------
(* Sums *)

SumsTo(s, g, n) == g = [i \in 0 .. n |-> IF i = 0 THEN 0 ELSE g[i - 1] + s[i]]

LEMMA SumsAt ==
    ASSUME NEW s, NEW g, NEW n \in Nat, SumsTo(s, g, n), NEW i \in 0 .. n
    PROVE  g[i] = IF i = 0 THEN 0 ELSE g[i - 1] + s[i]
  BY Zenon DEF SumsTo

LEMMA SumsOneMore ==
    ASSUME NEW s, NEW n \in Nat, NEW g, SumsTo(s, g, n)
    PROVE  \E h : SumsTo(s, h, n + 1)
<1> DEFINE h == [i \in 0 .. n + 1 |-> IF i <= n THEN g[i] ELSE g[n] + s[n + 1]]
<1>1. ASSUME NEW i \in 0 .. n + 1 PROVE h[i] = IF i = 0 THEN 0 ELSE h[i - 1] + s[i]
  <2>1. CASE i <= n
    <3>1. i \in 0 .. n /\ (i # 0 => i - 1 \in 0 .. n + 1 /\ i - 1 <= n)
      BY <2>1
    <3>2. g[i] = IF i = 0 THEN 0 ELSE g[i - 1] + s[i]
      BY <3>1, SumsAt
    <3> QED
      BY <3>1, <3>2, <2>1
  <2>2. CASE i = n + 1
    BY <2>2
  <2> QED
    BY <2>1, <2>2
<1>2. h = [i \in 0 .. n + 1 |-> IF i = 0 THEN 0 ELSE h[i - 1] + s[i]]
  BY <1>1
<1> QED
  BY <1>2 DEF SumsTo

LEMMA SumsExists ==
    ASSUME NEW s, NEW k \in Nat
    PROVE  \E g : SumsTo(s, g, k)
<1> DEFINE T == {n \in Nat : \E g : SumsTo(s, g, n)}
<1>1. 0 \in T
  <2> DEFINE g == [i \in 0 .. 0 |-> 0]
  <2>1. SumsTo(s, g, 0)
    BY DEF SumsTo
  <2> QED
    BY <2>1
<1>2. ASSUME NEW n \in T PROVE n + 1 \in T
  BY SumsOneMore
<1> HIDE DEF T
<1>3. T = Nat
  BY <1>1, <1>2, SetInduction DEF T
<1> QED
  BY <1>3 DEF T

LEMMA SumBySums ==
    ASSUME NEW s, Len(s) \in Nat
    PROVE  \E g : SumsTo(s, g, Len(s)) /\ Sum(s) = g[Len(s)]
<1> DEFINE g == CHOOSE g : g = [i \in 0 .. Len(s) |-> IF i = 0 THEN 0 ELSE g[i - 1] + s[i]]
<1>1. SumsTo(s, g, Len(s))
  <2>1. \E h : h = [i \in 0 .. Len(s) |-> IF i = 0 THEN 0 ELSE h[i - 1] + s[i]]
    BY SumsExists DEF SumsTo
  <2> QED
    BY <2>1, Zenon DEF SumsTo
<1>2. Sum(s) = g[Len(s)]
  BY Zenon DEF Sum
<1> QED
  BY <1>1, <1>2

AlikeFrom0(g, h, k) == \A i \in 0 .. k : g[i] = h[i]

LEMMA SumsAgree ==
    ASSUME NEW s, NEW t, NEW m \in Nat, NEW n \in Nat, NEW g, NEW h,
           SumsTo(s, g, m), SumsTo(t, h, n),
           NEW k \in Nat, k <= m, k <= n, Alike(s, t, k)
    PROVE  AlikeFrom0(g, h, k)
<1> DEFINE T == {j \in Nat : j <= k => g[j] = h[j]}
<1>1. 0 \in T
  <2>1. 0 \in 0 .. m /\ 0 \in 0 .. n
    OBVIOUS
  <2> QED
    BY <2>1, SumsAt
<1>2. ASSUME NEW j \in T PROVE j + 1 \in T
  <2> SUFFICES ASSUME j + 1 <= k PROVE g[j + 1] = h[j + 1]
    OBVIOUS
  <2>1. j + 1 \in 0 .. m /\ j + 1 \in 0 .. n /\ j \in Nat /\ j + 1 # 0 /\ j + 1 - 1 = j /\ j + 1 \in 1 .. k
    OBVIOUS
  <2>2. g[j + 1] = IF j + 1 = 0 THEN 0 ELSE g[j + 1 - 1] + s[j + 1]
    BY <2>1, SumsAt
  <2>3. h[j + 1] = IF j + 1 = 0 THEN 0 ELSE h[j + 1 - 1] + t[j + 1]
    BY <2>1, SumsAt
  <2>4. g[j] = h[j] /\ s[j + 1] = t[j + 1]
    BY <2>1 DEF Alike
  <2> QED
    BY <2>1, <2>2, <2>3, <2>4
<1> HIDE DEF T
<1>3. T = Nat
  BY <1>1, <1>2, SetInduction DEF T
<1> QED
  BY <1>3 DEF T, AlikeFrom0

LEMMA SumEmpty == Sum(<<>>) = 0
<1>1. PICK g : SumsTo(<<>>, g, Len(<<>>)) /\ Sum(<<>>) = g[Len(<<>>)]
  BY SumBySums
<1>2. Len(<<>>) = 0 /\ 0 \in 0 .. 0
  OBVIOUS
<1> QED
  BY <1>1, <1>2, SumsAt

LEMMA SumAppend ==
    ASSUME NEW s \in Seq(Nat), NEW e \in Nat
    PROVE  Sum(Append(s, e)) = Sum(s) + e
<1> DEFINE u == Append(s, e)
<1> DEFINE m == Len(u)
<1> DEFINE n == Len(s)
<1>1. n \in Nat /\ m = n + 1 /\ u[m] = e /\ \A i \in 1 .. n : u[i] = s[i]
  BY AppendProperties, LenProperties
<1>2. m \in Nat /\ m \in 0 .. m /\ m - 1 = n /\ n <= m /\ m # 0 /\ n \in 0 .. n
  BY <1>1
<1> HIDE DEF u
<1>3. PICK g : SumsTo(u, g, m) /\ Sum(u) = g[m]
  BY <1>2, SumBySums
<1>4. PICK h : SumsTo(s, h, n) /\ Sum(s) = h[n]
  BY <1>1, SumBySums
<1> HIDE DEF m, n
<1>5. g[m] = g[n] + u[m]
  BY <1>2, <1>3, SumsAt
<1>6. AlikeFrom0(g, h, n)
  <2>1. Alike(u, s, n)
    BY <1>1 DEF Alike
  <2>2. n <= n /\ n \in Nat /\ m \in Nat
    BY <1>1, <1>2
  <2> QED
    BY <1>2, <1>3, <1>4, <2>1, <2>2, SumsAgree
<1>7. g[n] = h[n]
  BY <1>2, <1>6 DEF AlikeFrom0
<1>8. Sum(u) = Sum(s) + e
  BY <1>1, <1>3, <1>4, <1>5, <1>7
<1> QED
  BY <1>8 DEF u

LEMMA SumType ==
    ASSUME NEW s \in Seq(Nat)
    PROVE  Sum(s) \in Nat
<1> DEFINE T == {n \in Nat : \A t \in Seq(Nat) : Len(t) = n => Sum(t) \in Nat}
<1>1. 0 \in T
  <2>1. ASSUME NEW t \in Seq(Nat), Len(t) = 0 PROVE Sum(t) \in Nat
    BY <2>1, EmptySeq, SumEmpty
  <2> QED
    BY <2>1
<1>2. ASSUME NEW n \in T PROVE n + 1 \in T
  <2>1. ASSUME NEW t \in Seq(Nat), Len(t) = n + 1 PROVE Sum(t) \in Nat
    <3>1. t # <<>>
      BY <2>1
    <3>2. PICK r \in Seq(Nat), e \in Nat : t = Append(r, e)
      BY <3>1, SequenceEmptyOrAppend
    <3>3. Len(r) = n
      BY <3>2, <2>1, AppendProperties, LenProperties
    <3>4. Sum(r) \in Nat
      BY <3>3
    <3> HIDE DEF T
    <3>5. Sum(t) = Sum(r) + e
      BY <3>2, SumAppend
    <3> QED
      BY <3>4, <3>5
  <2> QED
    BY <2>1
<1> HIDE DEF T
<1>3. T = Nat
  BY <1>1, <1>2, SetInduction DEF T
<1>4. Len(s) \in T
  BY <1>3, LenProperties
<1> QED
  BY <1>4 DEF T

(* The floats of embeddings of one length. *)
LEMMA SumOfEqual ==
    ASSUME NEW c \in Nat, NEW s \in Seq(Nat), \A i \in DOMAIN s : s[i] = c
    PROVE  Sum(s) = Len(s) * c
<1> DEFINE T == {n \in Nat : \A t \in Seq(Nat) : Len(t) = n /\ (\A i \in 1 .. n : t[i] = c) => Sum(t) = n * c}
<1>1. 0 \in T
  <2>1. ASSUME NEW t \in Seq(Nat), Len(t) = 0 PROVE Sum(t) = 0 * c
    BY <2>1, EmptySeq, SumEmpty
  <2> QED
    BY <2>1
<1>2. ASSUME NEW n \in T PROVE n + 1 \in T
  <2>1. ASSUME NEW t \in Seq(Nat), Len(t) = n + 1, \A i \in 1 .. n + 1 : t[i] = c PROVE Sum(t) = (n + 1) * c
    <3>1. t # <<>>
      BY <2>1
    <3>2. PICK r \in Seq(Nat), e \in Nat : t = Append(r, e)
      BY <3>1, SequenceEmptyOrAppend
    <3>3. Len(r) = n /\ e = t[n + 1] /\ \A i \in 1 .. n : r[i] = t[i]
      BY <3>2, <2>1, AppendProperties, LenProperties
    <3>4. e = c /\ \A i \in 1 .. n : r[i] = c
      BY <2>1, <3>3
    <3>5. Sum(r) = n * c
      BY <3>3, <3>4
    <3> HIDE DEF T
    <3>6. Sum(t) = Sum(r) + e
      BY <3>2, SumAppend
    <3>7. n \in Nat
      BY DEF T
    <3>8. (n + 1) * c = n * c + c
      BY <3>7
    <3> QED
      BY <3>4, <3>5, <3>6, <3>8
  <2> QED
    BY <2>1
<1> HIDE DEF T
<1>3. T = Nat
  BY <1>1, <1>2, SetInduction DEF T
<1>4. Len(s) \in T /\ DOMAIN s = 1 .. Len(s)
  BY <1>3, LenProperties
<1> QED
  BY <1>4 DEF T

-----------------------------------------------------------------------------
(* Floats *)

EqualPieces(s, w) == \A i \in DOMAIN s : Len(s[i]) = w

LEMMA FlattenEqualPieces ==
    ASSUME NEW w \in Nat, NEW s \in Seq(Seq(Byte)), EqualPieces(s, w)
    PROVE  Len(FlattenSeq(s)) = Len(s) * w
<1> DEFINE T == {n \in Nat : \A t \in Seq(Seq(Byte)) :
                     Len(t) = n /\ (\A i \in 1 .. n : Len(t[i]) = w) => Len(FlattenSeq(t)) = n * w}
<1>1. 0 \in T
  <2>1. ASSUME NEW t \in Seq(Seq(Byte)), Len(t) = 0 PROVE Len(FlattenSeq(t)) = 0 * w
    <3>1. t = <<>>
      BY <2>1, EmptySeq
    <3>2. FlattenSeq(t) = <<>>
      BY <3>1, FlattenEmpty
    <3> QED
      BY <3>2
  <2> QED
    BY <2>1
<1>2. ASSUME NEW n \in T PROVE n + 1 \in T
  <2>1. ASSUME NEW t \in Seq(Seq(Byte)), Len(t) = n + 1, \A i \in 1 .. n + 1 : Len(t[i]) = w
        PROVE  Len(FlattenSeq(t)) = (n + 1) * w
    <3>1. t # <<>>
      BY <2>1
    <3>2. PICK r \in Seq(Seq(Byte)), e \in Seq(Byte) : t = Append(r, e)
      BY <3>1, SequenceEmptyOrAppend
    <3>3. Len(r) = n /\ e = t[n + 1] /\ \A i \in 1 .. n : r[i] = t[i]
      BY <3>2, <2>1, AppendProperties, LenProperties
    <3>4. Len(e) = w /\ \A i \in 1 .. n : Len(r[i]) = w
      BY <2>1, <3>3
    <3>5. Len(FlattenSeq(r)) = n * w
      BY <3>3, <3>4
    <3> HIDE DEF T
    <3>6. FlattenSeq(t) = FlattenSeq(r) \o e /\ FlattenSeq(r) \in Seq(Byte)
      BY <3>2, FlattenAppend, FlattenType
    <3>7. Len(FlattenSeq(t)) = Len(FlattenSeq(r)) + Len(e)
      BY <3>6, ConcatProperties
    <3>8. n \in Nat
      BY DEF T
    <3>9. (n + 1) * w = n * w + w
      BY <3>8
    <3> QED
      BY <3>4, <3>5, <3>7, <3>9
  <2> QED
    BY <2>1
<1> HIDE DEF T
<1>3. T = Nat
  BY <1>1, <1>2, SetInduction DEF T
<1>4. Len(s) \in T /\ DOMAIN s = 1 .. Len(s)
  BY <1>3, LenProperties
<1> QED
  BY <1>4 DEF T, EqualPieces

LEMMA FloatBytes ==
    ASSUME NEW i \in Nat
    PROVE  /\ "float" \in Items /\ i \in Values /\ FloatSize \in Nat \ {0} /\ FloatSize = 4
           /\ Bytes("float", i, FloatSize) \in Seq(Byte)
           /\ Len(Bytes("float", i, FloatSize)) = 4
<1>1. "float" \in Items
  BY DEF Items
<1>2. i \in Values
  BY DEF Values
<1>3. FloatSize \in Nat \ {0} /\ FloatSize = 4
  BY DEF FloatSize
<1>4. Sized(Bytes("float", i, FloatSize), FloatSize)
  BY <1>1, <1>2, <1>3, BytesSized
<1> QED
  BY <1>1, <1>2, <1>3, <1>4 DEF Sized

FloatPieces(n) == [i \in 1 .. n |-> Bytes("float", i, FloatSize)]

LEMMA FloatPiecesType ==
    ASSUME NEW n \in Nat
    PROVE  /\ FloatPieces(n) \in Seq(Seq(Byte))
           /\ Len(FloatPieces(n)) = n
           /\ \A i \in 1 .. n : /\ FloatPieces(n)[i] = Bytes("float", i, FloatSize)
                                /\ Len(FloatPieces(n)[i]) = 4
<1>1. \A i \in 1 .. n : Bytes("float", i, FloatSize) \in Seq(Byte) /\ Len(Bytes("float", i, FloatSize)) = 4
  <2>1. ASSUME NEW i \in 1 .. n
        PROVE  Bytes("float", i, FloatSize) \in Seq(Byte) /\ Len(Bytes("float", i, FloatSize)) = 4
    BY FloatBytes
  <2> QED
    BY <2>1
<1> QED
  BY <1>1 DEF FloatPieces

LEMMA FloatsType ==
    ASSUME NEW n \in Nat
    PROVE  Floats(n) \in Seq(Byte) /\ Len(Floats(n)) = 4 * n
<1>1. Floats(n) = FlattenSeq(FloatPieces(n))
  BY DEF Floats, FloatPieces
<1>2. DOMAIN FloatPieces(n) = 1 .. n
  BY FloatPiecesType, LenProperties
<1>3. Len(FlattenSeq(FloatPieces(n))) = n * 4
  <2> DEFINE P == FloatPieces(n)
  <2>1. P \in Seq(Seq(Byte)) /\ Len(P) = n /\ DOMAIN P = 1 .. n /\ \A i \in 1 .. n : Len(P[i]) = 4
    BY <1>2, FloatPiecesType
  <2> HIDE DEF P
  <2>2. EqualPieces(P, 4) /\ 4 \in Nat
    BY <2>1 DEF EqualPieces
  <2>3. Len(FlattenSeq(P)) = Len(P) * 4
    BY <2>1, <2>2, FlattenEqualPieces
  <2> QED
    BY <2>1, <2>3 DEF P
<1> QED
  BY <1>1, <1>3, FloatPiecesType, FlattenType

LEMMA FloatLies ==
    ASSUME NEW n \in Nat, NEW i \in 1 .. n
    PROVE  Lies(Bytes("float", i, FloatSize), Floats(n), 4 * (i - 1))
<1> DEFINE P == FloatPieces(n)
<1> DEFINE Q == SubSeq(P, 1, i - 1)
<1> DEFINE before == FlattenSeq(Q)
<1> DEFINE after == FlattenSeq(SubSeq(P, i + 1, n))
<1> DEFINE b == Bytes("float", i, FloatSize)
<1>1. P \in Seq(Seq(Byte)) /\ Len(P) = n /\ P[i] = b /\ \A j \in 1 .. n : Len(P[j]) = 4
  BY FloatPiecesType
<1>2. b \in Seq(Byte)
  BY FloatBytes
<1>3. Floats(n) = FlattenSeq(P)
  BY DEF Floats, FloatPieces
<1> HIDE DEF P, b
<1>4. /\ Q \in Seq(Seq(Byte)) /\ Len(Q) = i - 1 /\ \A j \in 1 .. i - 1 : Q[j] = P[j]
      /\ SubSeq(P, i + 1, n) \in Seq(Seq(Byte))
  BY <1>1
<1>5. EqualPieces(Q, 4)
  <2>1. DOMAIN Q = 1 .. i - 1
    BY <1>4, LenProperties
  <2> HIDE DEF Q
  <2> QED
    BY <1>1, <1>4, <2>1 DEF EqualPieces
<1>6. before \in Seq(Byte) /\ after \in Seq(Byte)
  BY <1>4, FlattenType
<1>7. Floats(n) = before \o (b \o after)
  BY <1>1, <1>3, FlattenSplit
<1> HIDE DEF Q
<1>8. Len(before) = (i - 1) * 4
  <2>1. Q \in Seq(Seq(Byte)) /\ 4 \in Nat
    BY <1>4
  <2>2. Len(FlattenSeq(Q)) = Len(Q) * 4
    BY <1>5, <2>1, FlattenEqualPieces
  <2> QED
    BY <1>4, <2>2
<1> HIDE DEF before, after
<1>9. Lies(b, b \o after, 0) /\ b \o after \in Seq(Byte)
  BY <1>2, <1>6, LiesWhole, LiesLeft, ConcatProperties
<1>10. Lies(b, before \o (b \o after), Len(before) + 0)
  <2> DEFINE t == b \o after
  <2>1. Lies(b, t, 0) /\ t \in Seq(Byte)
    BY <1>9
  <2> HIDE DEF t
  <2>2. Lies(b, before \o t, Len(before) + 0)
    BY <1>2, <1>6, <2>1, LiesRight
  <2> QED
    BY <2>2 DEF t
<1>11. Len(before) + 0 = 4 * (i - 1)
  BY <1>8
<1>12. Lies(b, Floats(n), 4 * (i - 1))
  BY <1>7, <1>10, <1>11
<1> QED
  BY <1>12 DEF b

LEMMA FloatsRead ==
    ASSUME NEW n \in Nat, NEW s \in Seq(Byte), NEW off \in Nat, Lies(Floats(n), s, off)
    PROVE  FloatsAt(s, off, n) = UpTo(n)
<1>1. ASSUME NEW i \in 1 .. n PROVE Value(s, off + FloatSize * (i - 1), FloatSize) = i
  <2> DEFINE o1 == 4 * (i - 1)
  <2>1. o1 \in Nat /\ off + o1 \in Nat
    OBVIOUS
  <2>2. Lies(Bytes("float", i, FloatSize), Floats(n), o1)
    BY FloatLies
  <2> HIDE DEF o1
  <2>3. /\ "float" \in Items /\ i \in Values /\ FloatSize \in Nat \ {0} /\ FloatSize = 4
        /\ Bytes("float", i, FloatSize) \in Seq(Byte)
    BY FloatBytes
  <2>4. Lies(Bytes("float", i, FloatSize), s, off + o1)
    BY <2>1, <2>2, <2>3, FloatsType, LiesWithin
  <2>5. Value(s, off + o1, FloatSize) = i
    BY <2>1, <2>3, <2>4, ValueLies
  <2> QED
    BY <2>3, <2>5 DEF o1
<1>2. FloatsAt(s, off, n) = UpTo(n)
  BY <1>1, Zenon DEF FloatsAt, UpTo
<1> QED
  BY <1>2

-----------------------------------------------------------------------------
(* The static arguments *)

LEMMA WidthType ==
    ASSUME NEW m
    PROVE  Width(m) \in Nat \ {0}
  BY DEF Width, SizeT

LEMMA OffsetNext ==
    ASSUME NEW ms
    PROVE  /\ Offset(ms, 1) = 0
           /\ \A i \in Nat \ {0} : Offset(ms, i + 1) = Offset(ms, i) + Width(ms[i])
<1> DEFINE w(n) == [j \in 1 .. n |-> Width(ms[j])]
<1>1. \A n \in Nat : w(n) \in Seq(Nat) /\ Len(w(n)) = n
  BY WidthType
<1>2. Offset(ms, 1) = 0
  <2>1. w(1 - 1) = <<>>
    OBVIOUS
  <2>2. Offset(ms, 1) = Sum(w(1 - 1))
    BY DEF Offset
  <2> QED
    BY <2>1, <2>2, SumEmpty
<1>3. ASSUME NEW i \in Nat \ {0} PROVE Offset(ms, i + 1) = Offset(ms, i) + Width(ms[i])
  <2>1. i - 1 \in Nat /\ i + 1 - 1 = i
    OBVIOUS
  <2>2. w(i) = Append(w(i - 1), Width(ms[i]))
    <3>1. w(i - 1) \in Seq(Nat) /\ Len(w(i - 1)) = i - 1 /\ w(i) \in Seq(Nat) /\ Len(w(i)) = i
      BY <1>1, <2>1
    <3>2. Width(ms[i]) \in Nat
      BY WidthType
    <3>3. \A j \in 1 .. i : w(i)[j] = Append(w(i - 1), Width(ms[i]))[j]
      BY <3>1, <3>2
    <3>4. Append(w(i - 1), Width(ms[i])) \in Seq(Nat) /\ Len(Append(w(i - 1), Width(ms[i]))) = i
      BY <3>1, <3>2, AppendProperties
    <3> HIDE DEF w
    <3> QED
      BY <3>1, <3>3, <3>4, SeqEqual
  <2>3. Offset(ms, i + 1) = Sum(w(i)) /\ Offset(ms, i) = Sum(w(i - 1))
    BY <2>1 DEF Offset
  <2>4. w(i - 1) \in Seq(Nat) /\ Width(ms[i]) \in Nat
    BY <1>1, <2>1, WidthType
  <2> HIDE DEF w
  <2> QED
    BY <2>2, <2>3, <2>4, SumAppend
<1> QED
  BY <1>2, <1>3

Commands == {"INITIALIZE", "TRAIN", "ADD", "LOAD", "SEARCH", "EVICT"}

(* Where each member is, and where they end. *)
LEMMA OffsetTable ==
    /\ LET ms == Members["INITIALIZE"]
       IN  Offset(ms, 1) = 0 /\ Offset(ms, 2) = 8 /\ Offset(ms, 3) = 16 /\ Offset(ms, 4) = 24 /\ Offset(ms, 5) = 25
    /\ Offset(Members["TRAIN"], 1) = 0
    /\ Offset(Members["ADD"], 1) = 0 /\ Offset(Members["ADD"], 2) = 8
    /\ Offset(Members["LOAD"], 1) = 0 /\ Offset(Members["LOAD"], 2) = 8
    /\ LET ms == Members["SEARCH"]
       IN  Offset(ms, 1) = 0 /\ Offset(ms, 2) = 8 /\ Offset(ms, 3) = 16 /\ Offset(ms, 4) = 24 /\ Offset(ms, 5) = 25
    /\ Offset(Members["EVICT"], 1) = 0 /\ Offset(Members["EVICT"], 2) = 8
    /\ StaticLength("INITIALIZE") = 34 /\ StaticLength("TRAIN") = 9 /\ StaticLength("ADD") = 17
    /\ StaticLength("LOAD") = 17 /\ StaticLength("SEARCH") = 34 /\ StaticLength("EVICT") = 17
<1>1. ASSUME NEW ms
      PROVE  /\ Offset(ms, 1) = 0
             /\ Offset(ms, 2) = Offset(ms, 1) + Width(ms[1])
             /\ Offset(ms, 3) = Offset(ms, 2) + Width(ms[2])
             /\ Offset(ms, 4) = Offset(ms, 3) + Width(ms[3])
             /\ Offset(ms, 5) = Offset(ms, 4) + Width(ms[4])
             /\ Offset(ms, 6) = Offset(ms, 5) + Width(ms[5])
  <2>1. \A i \in Nat \ {0} : Offset(ms, i + 1) = Offset(ms, i) + Width(ms[i])
    BY OffsetNext
  <2>2. /\ Offset(ms, 1 + 1) = Offset(ms, 1) + Width(ms[1])
        /\ Offset(ms, 2 + 1) = Offset(ms, 2) + Width(ms[2])
        /\ Offset(ms, 3 + 1) = Offset(ms, 3) + Width(ms[3])
        /\ Offset(ms, 4 + 1) = Offset(ms, 4) + Width(ms[4])
        /\ Offset(ms, 5 + 1) = Offset(ms, 5) + Width(ms[5])
    BY <2>1
  <2> QED
    BY <2>2, OffsetNext
<1>2. Width("use_flat") = 1 /\ Width("require_all") = 1
  BY DEF Width
<1>3. \A m \in {"d", "max_mem", "nTotal", "size", "num_docs", "nload", "n", "k", "nprobe", "nevict"} : Width(m) = 8
  BY DEF Width, SizeT
<1>4. /\ Members["INITIALIZE"] = <<"d", "max_mem", "nTotal", "use_flat", "size">>
      /\ Members["TRAIN"] = <<"size">>
      /\ Members["ADD"] = <<"num_docs", "size">>
      /\ Members["LOAD"] = <<"nload", "size">>
      /\ Members["SEARCH"] = <<"n", "k", "nprobe", "require_all", "size">>
      /\ Members["EVICT"] = <<"nevict", "size">>
  BY DEF Members
<1>5. ASSUME NEW ms, Len(ms) = 2, Width(ms[1]) = 8, Width(ms[2]) = 8
      PROVE  Offset(ms, 1) = 0 /\ Offset(ms, 2) = 8 /\ Offset(ms, Len(ms) + 1) + 1 = 17
  <2>1. Len(ms) + 1 = 3
    BY <1>5
  <2> QED
    BY <1>1, <1>5, <2>1
<1>6. ASSUME NEW ms, Len(ms) = 5, Width(ms[1]) = 8, Width(ms[2]) = 8, Width(ms[3]) = 8, Width(ms[4]) = 1,
             Width(ms[5]) = 8
      PROVE  /\ Offset(ms, 1) = 0 /\ Offset(ms, 2) = 8 /\ Offset(ms, 3) = 16 /\ Offset(ms, 4) = 24
             /\ Offset(ms, 5) = 25 /\ Offset(ms, Len(ms) + 1) + 1 = 34
  <2>1. Len(ms) + 1 = 6
    BY <1>6
  <2> QED
    BY <1>1, <1>6, <2>1
<1>7. ASSUME NEW ms, Len(ms) = 1, Width(ms[1]) = 8
      PROVE  Offset(ms, 1) = 0 /\ Offset(ms, Len(ms) + 1) + 1 = 9
  <2>1. Len(ms) + 1 = 2
    BY <1>7
  <2> QED
    BY <1>1, <1>7, <2>1
<1>8. \A c \in Commands : StaticLength(c) = Offset(Members[c], Len(Members[c]) + 1) + 1
  BY DEF StaticLength
<1>9. LET ms == Members["INITIALIZE"]
      IN  /\ Len(ms) = 5 /\ Width(ms[1]) = 8 /\ Width(ms[2]) = 8 /\ Width(ms[3]) = 8 /\ Width(ms[4]) = 1
          /\ Width(ms[5]) = 8
  BY <1>2, <1>3, <1>4
<1>10. LET ms == Members["SEARCH"]
       IN  /\ Len(ms) = 5 /\ Width(ms[1]) = 8 /\ Width(ms[2]) = 8 /\ Width(ms[3]) = 8 /\ Width(ms[4]) = 1
           /\ Width(ms[5]) = 8
  BY <1>2, <1>3, <1>4
<1>11. \A c \in {"ADD", "LOAD", "EVICT"} :
          Len(Members[c]) = 2 /\ Width(Members[c][1]) = 8 /\ Width(Members[c][2]) = 8
  BY <1>3, <1>4
<1>12. Len(Members["TRAIN"]) = 1 /\ Width(Members["TRAIN"][1]) = 8
  BY <1>3, <1>4
<1>13. Commands = {"INITIALIZE", "TRAIN", "ADD", "LOAD", "SEARCH", "EVICT"}
  BY DEF Commands
<1>14. LET ms == Members["INITIALIZE"]
       IN  /\ Offset(ms, 1) = 0 /\ Offset(ms, 2) = 8 /\ Offset(ms, 3) = 16 /\ Offset(ms, 4) = 24
           /\ Offset(ms, 5) = 25 /\ Offset(ms, Len(ms) + 1) + 1 = 34
  BY <1>6, <1>9
<1>15. LET ms == Members["SEARCH"]
       IN  /\ Offset(ms, 1) = 0 /\ Offset(ms, 2) = 8 /\ Offset(ms, 3) = 16 /\ Offset(ms, 4) = 24
           /\ Offset(ms, 5) = 25 /\ Offset(ms, Len(ms) + 1) + 1 = 34
  BY <1>6, <1>10
<1>16. \A c \in {"ADD", "LOAD", "EVICT"} :
          /\ Offset(Members[c], 1) = 0 /\ Offset(Members[c], 2) = 8
          /\ Offset(Members[c], Len(Members[c]) + 1) + 1 = 17
  BY <1>5, <1>11
<1>17. Offset(Members["TRAIN"], 1) = 0 /\ Offset(Members["TRAIN"], Len(Members["TRAIN"]) + 1) + 1 = 9
  BY <1>7, <1>12
<1>18. /\ StaticLength("INITIALIZE") = 34 /\ StaticLength("SEARCH") = 34
       /\ StaticLength("ADD") = 17 /\ StaticLength("LOAD") = 17 /\ StaticLength("EVICT") = 17
       /\ StaticLength("TRAIN") = 9
  BY <1>8, <1>13, <1>14, <1>15, <1>16, <1>17
<1> QED
  BY <1>14, <1>15, <1>16, <1>17, <1>18

LEMMA StaticField ==
    ASSUME NEW command, NEW s, NEW i \in DOMAIN Members[command],
           \A j \in DOMAIN Members[command] : Members[command][j] = Members[command][i] => j = i
    PROVE  StaticArgs(command, s)[Members[command][i]] =
               Value(s, Offset(Members[command], i), Width(Members[command][i]))
<1> DEFINE ms == Members[command]
<1>1. (CHOOSE j \in DOMAIN ms : ms[j] = ms[i]) = i
  OBVIOUS
<1>2. ms[i] \in {ms[j] : j \in DOMAIN ms}
  OBVIOUS
<1>3. StaticArgs(command, s) = [m \in {ms[j] : j \in DOMAIN ms} |->
          LET j == CHOOSE j \in DOMAIN ms : ms[j] = m IN Value(s, Offset(ms, j), Width(m))]
  BY DEF StaticArgs
<1> HIDE DEF ms
<1>4. StaticArgs(command, s)[ms[i]] = Value(s, Offset(ms, i), Width(ms[i]))
  BY <1>1, <1>2, <1>3
<1> QED
  BY <1>4 DEF ms

LEMMA FieldWithin ==
    ASSUME NEW command \in Commands, NEW i \in DOMAIN Members[command]
    PROVE  /\ Offset(Members[command], i) \in Nat
           /\ Offset(Members[command], i) + Width(Members[command][i]) < StaticLength(command)
<1>1. /\ Members["INITIALIZE"] = <<"d", "max_mem", "nTotal", "use_flat", "size">>
      /\ Members["TRAIN"] = <<"size">>
      /\ Members["ADD"] = <<"num_docs", "size">>
      /\ Members["LOAD"] = <<"nload", "size">>
      /\ Members["SEARCH"] = <<"n", "k", "nprobe", "require_all", "size">>
      /\ Members["EVICT"] = <<"nevict", "size">>
  BY DEF Members
<1>2. Width("use_flat") = 1 /\ Width("require_all") = 1
  BY DEF Width
<1>3. \A m \in {"d", "max_mem", "nTotal", "size", "num_docs", "nload", "n", "k", "nprobe", "nevict"} : Width(m) = 8
  BY DEF Width, SizeT
<1>4. CASE command \in {"ADD", "LOAD", "EVICT"}
  <2>1. i \in {1, 2}
    BY <1>1, <1>4
  <2> QED
    BY <1>1, <1>3, <1>4, <2>1, OffsetTable
<1>5. CASE command = "TRAIN"
  <2>1. i = 1
    BY <1>1, <1>5
  <2> QED
    BY <1>1, <1>3, <1>5, <2>1, OffsetTable
<1>6. CASE command = "INITIALIZE"
  <2>1. i \in {1, 2, 3, 4, 5}
    BY <1>1, <1>6
  <2> QED
    BY <1>1, <1>2, <1>3, <1>6, <2>1, OffsetTable
<1>7. CASE command = "SEARCH"
  <2>1. i \in {1, 2, 3, 4, 5}
    BY <1>1, <1>7
  <2> QED
    BY <1>1, <1>2, <1>3, <1>7, <2>1, OffsetTable
<1> QED
  BY <1>4, <1>5, <1>6, <1>7 DEF Commands

(* More bytes behind the static arguments do not change what they are read as. *)
LEMMA StaticOfPrefix ==
    ASSUME NEW command \in Commands, NEW s \in Seq(Byte), NEW t \in Seq(Byte), Len(s) >= StaticLength(command)
    PROVE  StaticArgs(command, s \o t) = StaticArgs(command, s)
<1> DEFINE ms == Members[command]
<1> DEFINE at(m) == CHOOSE j \in DOMAIN ms : ms[j] = m
<1>1. ASSUME NEW m \in {ms[j] : j \in DOMAIN ms}
      PROVE  Value(s \o t, Offset(ms, at(m)), Width(m)) = Value(s, Offset(ms, at(m)), Width(m))
  <2>1. at(m) \in DOMAIN ms /\ ms[at(m)] = m
    OBVIOUS
  <2> HIDE DEF at
  <2>2. /\ Offset(ms, at(m)) \in Nat /\ Offset(ms, at(m)) + Width(m) < StaticLength(command)
    BY <2>1, FieldWithin
  <2>3. Width(m) \in Nat \ {0} /\ Len(s) \in Nat
    BY WidthType, LenProperties
  <2>4. StaticLength(command) \in Nat
    BY OffsetTable DEF Commands
  <2> DEFINE off == Offset(ms, at(m))
  <2>5. off \in Nat /\ off + Width(m) <= Len(s)
    BY <2>2, <2>3, <2>4
  <2> HIDE DEF off
  <2>6. Value(s \o t, off, Width(m)) = Value(s, off, Width(m))
    BY <2>3, <2>5, ValueOfPrefix
  <2> QED
    BY <2>6 DEF off
<1> HIDE DEF at
<1>2. \A u : StaticArgs(command, u) = [m \in {ms[j] : j \in DOMAIN ms} |-> Value(u, Offset(ms, at(m)), Width(m))]
  BY DEF StaticArgs, at
<1> HIDE DEF ms
<1> QED
  BY <1>1, <1>2

-----------------------------------------------------------------------------
(* Where the parts of a concatenation are *)

LEMMA Pair ==
    ASSUME NEW a \in Seq(Byte), NEW b \in Seq(Byte)
    PROVE  /\ a \o b \in Seq(Byte) /\ Len(a \o b) = Len(a) + Len(b)
           /\ Lies(a, a \o b, 0) /\ Lies(b, a \o b, Len(a))
           /\ Len(a) \in Nat /\ Len(b) \in Nat
<1>1. Len(a) \in Nat /\ Len(b) \in Nat
  BY LenProperties
<1>2. Lies(b, a \o b, Len(a) + 0) /\ Len(a) + 0 = Len(a)
  BY <1>1, LiesWhole, LiesRight
<1> QED
  BY <1>1, <1>2, LiesWhole, LiesLeft, ConcatProperties

ThreeParts(s, a, b, c) ==
    /\ s \in Seq(Byte) /\ Len(s) = Len(a) + Len(b) + Len(c)
    /\ Lies(a, s, 0) /\ Lies(b, s, Len(a)) /\ Lies(c, s, Len(a) + Len(b))
    /\ Len(a) \in Nat /\ Len(b) \in Nat /\ Len(c) \in Nat

LEMMA Triple ==
    ASSUME NEW a \in Seq(Byte), NEW b \in Seq(Byte), NEW c \in Seq(Byte)
    PROVE  ThreeParts(a \o b \o c, a, b, c)
<1> DEFINE ab == a \o b
<1>1. /\ ab \in Seq(Byte) /\ Len(ab) = Len(a) + Len(b) /\ Lies(a, ab, 0) /\ Lies(b, ab, Len(a))
      /\ Len(a) \in Nat /\ Len(b) \in Nat
  BY Pair
<1> HIDE DEF ab
<1>2. /\ ab \o c \in Seq(Byte) /\ Len(ab \o c) = Len(ab) + Len(c) /\ Lies(c, ab \o c, Len(ab)) /\ Len(c) \in Nat
  BY <1>1, Pair
<1>3. Lies(a, ab \o c, 0) /\ Lies(b, ab \o c, Len(a))
  BY <1>1, LiesLeft
<1>4. Len(ab \o c) = Len(a) + Len(b) + Len(c)
  BY <1>1, <1>2
<1>5. ThreeParts(ab \o c, a, b, c)
  BY <1>1, <1>2, <1>3, <1>4 DEF ThreeParts
<1> QED
  BY <1>5 DEF ab

FiveParts(s, a, b, c, d, e) ==
    /\ s \in Seq(Byte) /\ Len(s) = Len(a) + Len(b) + Len(c) + Len(d) + Len(e)
    /\ Lies(a, s, 0) /\ Lies(b, s, Len(a)) /\ Lies(c, s, Len(a) + Len(b))
    /\ Lies(d, s, Len(a) + Len(b) + Len(c)) /\ Lies(e, s, Len(a) + Len(b) + Len(c) + Len(d))

LEMMA Five ==
    ASSUME NEW a \in Seq(Byte), NEW b \in Seq(Byte), NEW c \in Seq(Byte), NEW d \in Seq(Byte), NEW e \in Seq(Byte)
    PROVE  FiveParts(a \o b \o c \o d \o e, a, b, c, d, e)
<1> DEFINE t == a \o b \o c
<1> DEFINE la == Len(a)
<1> DEFINE lab == la + Len(b)
<1> DEFINE labc == lab + Len(c)
<1>1. /\ t \in Seq(Byte) /\ Len(t) = labc /\ Lies(a, t, 0) /\ Lies(b, t, la) /\ Lies(c, t, lab)
      /\ la \in Nat /\ lab \in Nat /\ labc \in Nat
  <2>1. ThreeParts(t, a, b, c)
    BY Triple
  <2> HIDE DEF t
  <2> QED
    BY <2>1 DEF ThreeParts
<1> HIDE DEF t
<1> DEFINE u == t \o d \o e
<1>2. /\ u \in Seq(Byte) /\ Len(u) = Len(t) + Len(d) + Len(e) /\ Lies(t, u, 0) /\ Lies(d, u, Len(t))
      /\ Lies(e, u, Len(t) + Len(d))
  <2>1. ThreeParts(u, t, d, e)
    BY <1>1, Triple
  <2> HIDE DEF t, u, la, lab, labc
  <2> QED
    BY <2>1 DEF ThreeParts
<1> HIDE DEF u, la, lab, labc
<1>3. Lies(a, u, 0 + 0) /\ Lies(b, u, 0 + la) /\ Lies(c, u, 0 + lab)
  BY <1>1, <1>2, LiesWithin
<1>4. 0 + 0 = 0 /\ 0 + la = la /\ 0 + lab = lab
  BY <1>1
<1>5. /\ u \in Seq(Byte) /\ Len(u) = labc + Len(d) + Len(e)
      /\ Lies(a, u, 0) /\ Lies(b, u, la) /\ Lies(c, u, lab) /\ Lies(d, u, labc) /\ Lies(e, u, labc + Len(d))
  BY <1>1, <1>2, <1>3, <1>4
<1> QED
  BY <1>5 DEF t, u, la, lab, labc, FiveParts

LEMMA LineBytes ==
    ASSUME NEW command \in Commands
    PROVE  /\ Line(command) \in Seq(Byte) /\ Len(Line(command)) = 1
           /\ Newline \in Seq(Byte) /\ Len(Newline) = 1
           /\ End \in Seq(Byte) /\ Len(End) = 2
<1>1. "line" \in Items /\ "newline" \in Items /\ "end" \in Items
  BY DEF Items
<1>2. command \in Values /\ 0 \in Values
  BY DEF Commands, Values, Names
<1>3. [item |-> "line", value |-> command, width |-> 1, at |-> 1] \in Byte
  BY <1>1, <1>2 DEF Byte
<1> QED
  <2>1. Line(command) \in Seq(Byte) /\ Len(Line(command)) = 1
    BY <1>3 DEF Line
  <2>2. 0 \in Values /\ 1 \in Nat /\ 2 \in Nat
    BY <1>2
  <2>3. Bytes("newline", 0, 1) \in Seq(Byte) /\ Len(Bytes("newline", 0, 1)) = 1
    BY <1>1, <1>2, <2>2, BytesSized DEF Sized
  <2>4. Bytes("end", 0, 2) \in Seq(Byte) /\ Len(Bytes("end", 0, 2)) = 2
    BY <1>1, <1>2, <2>2, BytesSized DEF Sized
  <2> QED
    BY <2>1, <2>3, <2>4 DEF Newline, End

LEMMA NumberBytes ==
    ASSUME NEW item \in Items, NEW value \in Nat
    PROVE  Number(item, value) \in Seq(Byte) /\ Len(Number(item, value)) = 8
<1>1. value \in Values
  BY DEF Values
<1> QED
  <2>1. SizeT \in Nat /\ SizeT = 8
    BY DEF SizeT
  <2>2. Bytes(item, value, SizeT) \in Seq(Byte) /\ Len(Bytes(item, value, SizeT)) = SizeT
    BY <1>1, <2>1, BytesSized DEF Sized
  <2> QED
    BY <2>1, <2>2 DEF Number

LEMMA FlagBytes ==
    ASSUME NEW item \in Items, NEW value \in BOOLEAN
    PROVE  Flag(item, value) \in Seq(Byte) /\ Len(Flag(item, value)) = 1
<1>1. value \in Values
  BY DEF Values
<1> QED
  <2>1. 1 \in Nat
    OBVIOUS
  <2>2. Bytes(item, value, 1) \in Seq(Byte) /\ Len(Bytes(item, value, 1)) = 1
    BY <1>1, <2>1, BytesSized DEF Sized
  <2> QED
    BY <2>2 DEF Flag

FormatParts(m, a, b) ==
    /\ m \in Seq(Byte) /\ Len(m) = 1 + Len(a) + 1 + Len(b) + 2
    /\ Lies(a, m, 1) /\ Lies(b, m, 1 + Len(a) + 1)

LEMMA FormatBytes ==
    ASSUME NEW command \in Commands, NEW a \in Seq(Byte), NEW b \in Seq(Byte)
    PROVE  FormatParts(_format_command(command, a, b), a, b)
<1> DEFINE x == Line(command)
<1>1. /\ x \in Seq(Byte) /\ Len(x) = 1 /\ Newline \in Seq(Byte) /\ Len(Newline) = 1
      /\ End \in Seq(Byte) /\ Len(End) = 2
  BY LineBytes
<1> HIDE DEF x
<1> DEFINE m == x \o a \o Newline \o b \o End
<1>2. /\ m \in Seq(Byte) /\ Len(m) = Len(x) + Len(a) + Len(Newline) + Len(b) + Len(End)
      /\ Lies(a, m, Len(x)) /\ Lies(b, m, Len(x) + Len(a) + Len(Newline))
  <2>1. FiveParts(m, x, a, Newline, b, End)
    BY <1>1, Five
  <2> HIDE DEF m
  <2> QED
    BY <2>1 DEF FiveParts
<1>3. m = _format_command(command, a, b)
  BY DEF x, _format_command
<1> HIDE DEF m
<1> QED
  BY <1>1, <1>2, <1>3 DEF FormatParts

-----------------------------------------------------------------------------
(* What the server reads of each message *)

(* The message without its line, and without its static arguments. *)
Rest(p) == SubSeq(Message(p), 2, Len(Message(p)))
Body(p) == SubSeq(Message(p), StaticLength(p.command) + 2, Len(Message(p)))
Args(p) == StaticArgs(p.command, Rest(p))

LEMMA LiesAfter ==
    ASSUME NEW m \in Seq(Byte), NEW k \in Nat, NEW b \in Seq(Byte), NEW off \in Nat, k <= Len(m),
           Lies(b, m, k + off)
    PROVE  /\ SubSeq(m, k + 1, Len(m)) \in Seq(Byte)
           /\ Len(SubSeq(m, k + 1, Len(m))) = Len(m) - k
           /\ Lies(b, SubSeq(m, k + 1, Len(m)), off)
<1> DEFINE q == SubSeq(m, k + 1, Len(m))
<1>1. Len(m) \in Nat /\ Len(b) \in Nat /\ k + off + Len(b) <= Len(m)
  BY LenProperties DEF Lies
<1>2. q \in Seq(Byte) /\ Len(q) = Len(m) - k /\ \A i \in 1 .. Len(m) - k : q[i] = m[k + i]
  BY <1>1
<1> HIDE DEF q
<1>3. ASSUME NEW i \in 1 .. Len(b) PROVE q[off + i] = b[i]
  <2>1. off + i \in 1 .. Len(m) - k /\ k + (off + i) = k + off + i
    BY <1>1
  <2>2. q[off + i] = m[k + off + i]
    BY <1>2, <2>1
  <2>3. m[k + off + i] = b[i]
    BY DEF Lies
  <2> QED
    BY <2>2, <2>3
<1>4. off + Len(b) <= Len(q)
  BY <1>1, <1>2
<1>5. Lies(b, q, off)
  BY <1>3, <1>4 DEF Lies
<1> QED
  BY <1>2, <1>5 DEF q

(* A member is read from the bytes the client packed it in. *)
Packed(p, i, item, value, width) ==
    /\ item \in Items /\ value \in Values
    /\ Lies(Bytes(item, value, width), Message(p), 1 + Offset(Members[p.command], i))

Distinct(command) ==
    \A i, j \in DOMAIN Members[command] : Members[command][i] = Members[command][j] => i = j

LEMMA MembersDistinct ==
    ASSUME NEW command \in Commands
    PROVE  Distinct(command)
<1>1. /\ Members["INITIALIZE"] = <<"d", "max_mem", "nTotal", "use_flat", "size">>
      /\ Members["TRAIN"] = <<"size">>
      /\ Members["ADD"] = <<"num_docs", "size">>
      /\ Members["LOAD"] = <<"nload", "size">>
      /\ Members["SEARCH"] = <<"n", "k", "nprobe", "require_all", "size">>
      /\ Members["EVICT"] = <<"nevict", "size">>
  BY DEF Members
<1> QED
  BY <1>1 DEF Distinct, Commands

LEMMA ReadsMember ==
    ASSUME NEW p, p.command \in Commands, Message(p) \in Seq(Byte), Len(Message(p)) > 0,
           NEW i \in DOMAIN Members[p.command], NEW item, NEW value, NEW width,
           width = Width(Members[p.command][i]), Packed(p, i, item, value, width)
    PROVE  Args(p)[Members[p.command][i]] = value
<1> DEFINE off == Offset(Members[p.command], i)
<1> DEFINE b == Bytes(item, value, width)
<1>1. off \in Nat /\ width \in Nat \ {0}
  BY FieldWithin, WidthType
<1>2. item \in Items /\ value \in Values /\ b \in Seq(Byte) /\ Lies(b, Message(p), 1 + off)
  BY <1>1, BytesType DEF Packed
<1> HIDE DEF off, b
<1>3. Rest(p) \in Seq(Byte) /\ Lies(b, Rest(p), off)
  <2>1. 1 \in Nat /\ 1 <= Len(Message(p)) /\ 1 + 1 = 2
    BY LenProperties
  <2> DEFINE m == Message(p)
  <2>2. m \in Seq(Byte) /\ 1 <= Len(m) /\ Lies(b, m, 1 + off)
    BY <1>2, <2>1
  <2> HIDE DEF m
  <2>3. SubSeq(m, 1 + 1, Len(m)) \in Seq(Byte) /\ Lies(b, SubSeq(m, 1 + 1, Len(m)), off)
    BY <1>1, <1>2, <2>1, <2>2, LiesAfter
  <2> QED
    BY <2>1, <2>3 DEF Rest, m
<1>4. Value(Rest(p), off, width) = value
  BY <1>1, <1>2, <1>3, ValueLies DEF b
<1>5. Args(p)[Members[p.command][i]] = Value(Rest(p), off, width)
  BY StaticField, MembersDistinct DEF Args, off, Distinct
<1> QED
  BY <1>4, <1>5

(* A message of five static arguments. *)
FiveArgsLie(m, a, b, c, d, e, dynamic) ==
    /\ m \in Seq(Byte) /\ Len(m) = 37 + Len(dynamic)
    /\ Lies(a, m, 1 + 0) /\ Lies(b, m, 1 + 8) /\ Lies(c, m, 1 + 16) /\ Lies(d, m, 1 + 24)
    /\ Lies(e, m, 1 + 25) /\ Lies(dynamic, m, 35)

LEMMA FiveArgs ==
    ASSUME NEW command \in Commands, NEW a \in Seq(Byte), NEW b \in Seq(Byte), NEW c \in Seq(Byte),
           NEW d \in Seq(Byte), NEW e \in Seq(Byte), NEW dynamic \in Seq(Byte),
           Len(a) = 8, Len(b) = 8, Len(c) = 8, Len(d) = 1, Len(e) = 8,
           NEW m, m = _format_command(command, a \o b \o c \o d \o e, dynamic)
    PROVE  FiveArgsLie(m, a, b, c, d, e, dynamic)
<1> DEFINE s == a \o b \o c \o d \o e
<1>1. FiveParts(s, a, b, c, d, e)
  BY Five
<1> HIDE DEF s
<1>2. /\ s \in Seq(Byte) /\ Len(s) = 33
      /\ Lies(a, s, 0) /\ Lies(b, s, 8) /\ Lies(c, s, 16) /\ Lies(d, s, 24) /\ Lies(e, s, 25)
  <2>1. /\ s \in Seq(Byte) /\ Len(s) = Len(a) + Len(b) + Len(c) + Len(d) + Len(e)
        /\ Lies(a, s, 0) /\ Lies(b, s, Len(a)) /\ Lies(c, s, Len(a) + Len(b))
        /\ Lies(d, s, Len(a) + Len(b) + Len(c)) /\ Lies(e, s, Len(a) + Len(b) + Len(c) + Len(d))
    BY <1>1 DEF FiveParts
  <2>2. /\ Len(a) + Len(b) = 16 /\ Len(a) + Len(b) + Len(c) = 24 /\ Len(a) + Len(b) + Len(c) + Len(d) = 25
        /\ Len(a) + Len(b) + Len(c) + Len(d) + Len(e) = 33
    OBVIOUS
  <2> QED
    BY <2>1, <2>2
<1>3. m \in Seq(Byte) /\ Len(m) = 1 + Len(s) + 1 + Len(dynamic) + 2 /\ Lies(s, m, 1)
      /\ Lies(dynamic, m, 1 + Len(s) + 1)
  <2>1. m = _format_command(command, s, dynamic)
    BY DEF s
  <2>2. FormatParts(_format_command(command, s, dynamic), s, dynamic)
    BY <1>2, FormatBytes
  <2> QED
    BY <2>1, <2>2 DEF FormatParts
<1>4. Lies(a, m, 1 + 0) /\ Lies(b, m, 1 + 8) /\ Lies(c, m, 1 + 16) /\ Lies(d, m, 1 + 24) /\ Lies(e, m, 1 + 25)
  <2>1. \A x \in Seq(Byte) : \A off \in Nat : Lies(x, s, off) => Lies(x, m, 1 + off)
    BY <1>2, <1>3, LiesWithin
  <2> QED
    BY <1>2, <2>1
<1>5. 1 + Len(s) + 1 = 35 /\ 1 + Len(s) + 1 + Len(dynamic) + 2 = 37 + Len(dynamic)
  BY <1>2, LenProperties
<1> QED
  BY <1>3, <1>4, <1>5 DEF FiveArgsLie

(* A message of two. *)
TwoArgsLie(m, a, b, dynamic) ==
    /\ m \in Seq(Byte) /\ Len(m) = 20 + Len(dynamic)
    /\ Lies(a, m, 1 + 0) /\ Lies(b, m, 1 + 8) /\ Lies(dynamic, m, 18)

LEMMA TwoArgs ==
    ASSUME NEW command \in Commands, NEW a \in Seq(Byte), NEW b \in Seq(Byte), NEW dynamic \in Seq(Byte),
           Len(a) = 8, Len(b) = 8,
           NEW m, m = _format_command(command, a \o b, dynamic)
    PROVE  TwoArgsLie(m, a, b, dynamic)
<1> DEFINE s == a \o b
<1>1. s \in Seq(Byte) /\ Len(s) = 16 /\ Lies(a, s, 0) /\ Lies(b, s, 8)
  <2>1. s \in Seq(Byte) /\ Len(s) = Len(a) + Len(b) /\ Lies(a, s, 0) /\ Lies(b, s, Len(a))
    BY Pair
  <2> HIDE DEF s
  <2> QED
    BY <2>1
<1> HIDE DEF s
<1>2. m \in Seq(Byte) /\ Len(m) = 1 + Len(s) + 1 + Len(dynamic) + 2 /\ Lies(s, m, 1)
      /\ Lies(dynamic, m, 1 + Len(s) + 1)
  <2>1. m = _format_command(command, s, dynamic)
    BY DEF s
  <2>2. FormatParts(_format_command(command, s, dynamic), s, dynamic)
    BY <1>1, FormatBytes
  <2> QED
    BY <2>1, <2>2 DEF FormatParts
<1>3. Lies(a, m, 1 + 0) /\ Lies(b, m, 1 + 8)
  <2>1. \A x \in Seq(Byte) : \A off \in Nat : Lies(x, s, off) => Lies(x, m, 1 + off)
    BY <1>1, <1>2, LiesWithin
  <2> QED
    BY <1>1, <2>1
<1>4. 1 + Len(s) + 1 = 18 /\ 1 + Len(s) + 1 + Len(dynamic) + 2 = 20 + Len(dynamic)
  BY <1>1, LenProperties
<1> QED
  BY <1>2, <1>3, <1>4 DEF TwoArgsLie

LEMMA OneArg ==
    ASSUME NEW command \in Commands, NEW a \in Seq(Byte), NEW dynamic \in Seq(Byte), Len(a) = 8,
           NEW m, m = _format_command(command, a, dynamic)
    PROVE  /\ m \in Seq(Byte) /\ Len(m) = 12 + Len(dynamic)
           /\ Lies(a, m, 1 + 0) /\ Lies(dynamic, m, 10)
<1>1. m \in Seq(Byte) /\ Len(m) = 1 + Len(a) + 1 + Len(dynamic) + 2 /\ Lies(a, m, 1)
      /\ Lies(dynamic, m, 1 + Len(a) + 1)
  BY FormatBytes DEF FormatParts
<1>2. 1 + Len(a) + 1 = 10 /\ 1 + 0 = 1 /\ 1 + Len(a) + 1 + Len(dynamic) + 2 = 12 + Len(dynamic)
  BY LenProperties
<1> QED
  BY <1>1, <1>2

-----------------------------------------------------------------------------
(* The ids of an ADD *)

IdPiece(ids, i) == Number("id_len", ids[i]) \o Bytes("id", i, ids[i])
IdPieces(ids) == [i \in DOMAIN ids |-> IdPiece(ids, i)]
IdBytes(ids) == FlattenSeq(IdPieces(ids))

(* Where the bytes of the first i ids end. *)
IdEnd(ids, i) == Len(FlattenSeq(SubSeq(IdPieces(ids), 1, i)))

LEMMA IdPieceType ==
    ASSUME NEW ids \in Seq(Nat), NEW i \in 1 .. Len(ids)
    PROVE  /\ IdPiece(ids, i) \in Seq(Byte) /\ Len(IdPiece(ids, i)) = 8 + ids[i] /\ ids[i] \in Nat
           /\ Number("id_len", ids[i]) \in Seq(Byte) /\ Len(Number("id_len", ids[i])) = 8
           /\ Bytes("id", i, ids[i]) \in Seq(Byte) /\ Len(Bytes("id", i, ids[i])) = ids[i]
           /\ Lies(Number("id_len", ids[i]), IdPiece(ids, i), 0)
           /\ Lies(Bytes("id", i, ids[i]), IdPiece(ids, i), 8)
<1> DEFINE a == Number("id_len", ids[i])
<1> DEFINE b == Bytes("id", i, ids[i])
<1>1. ids[i] \in Nat
  BY ElementOfSeq
<1>2. a \in Seq(Byte) /\ Len(a) = 8
  <2>1. "id_len" \in Items
    BY DEF Items
  <2> QED
    BY <1>1, <2>1, NumberBytes
<1>3. b \in Seq(Byte) /\ Len(b) = ids[i]
  <2>1. "id" \in Items
    BY DEF Items
  <2>2. i \in Values
    BY DEF Values
  <2> QED
    BY <1>1, <2>1, <2>2, BytesSized DEF Sized
<1>4. IdPiece(ids, i) = a \o b
  BY DEF IdPiece
<1> HIDE DEF a, b
<1>5. a \o b \in Seq(Byte) /\ Len(a \o b) = Len(a) + Len(b) /\ Lies(a, a \o b, 0) /\ Lies(b, a \o b, Len(a))
  BY <1>2, <1>3, Pair
<1>6. /\ IdPiece(ids, i) \in Seq(Byte) /\ Len(IdPiece(ids, i)) = 8 + ids[i]
      /\ Lies(a, IdPiece(ids, i), 0) /\ Lies(b, IdPiece(ids, i), 8)
  BY <1>2, <1>3, <1>4, <1>5
<1> QED
  BY <1>1, <1>2, <1>3, <1>6 DEF a, b

LEMMA IdPiecesType ==
    ASSUME NEW ids \in Seq(Nat)
    PROVE  /\ IdPieces(ids) \in Seq(Seq(Byte)) /\ Len(IdPieces(ids)) = Len(ids) /\ Len(ids) \in Nat
           /\ \A i \in 1 .. Len(ids) : IdPieces(ids)[i] = IdPiece(ids, i)
           /\ IdBytes(ids) \in Seq(Byte)
<1>1. Len(ids) \in Nat /\ DOMAIN ids = 1 .. Len(ids)
  BY LenProperties
<1>2. \A i \in 1 .. Len(ids) : IdPiece(ids, i) \in Seq(Byte)
  BY IdPieceType
<1>3. /\ IdPieces(ids) \in Seq(Seq(Byte)) /\ Len(IdPieces(ids)) = Len(ids)
      /\ \A i \in 1 .. Len(ids) : IdPieces(ids)[i] = IdPiece(ids, i)
  BY <1>1, <1>2 DEF IdPieces
<1> QED
  BY <1>1, <1>3, FlattenType DEF IdBytes

LEMMA IdEndStep ==
    ASSUME NEW ids \in Seq(Nat), NEW i \in 1 .. Len(ids)
    PROVE  /\ IdEnd(ids, i - 1) \in Nat /\ ids[i] \in Nat
           /\ IdEnd(ids, i) = IdEnd(ids, i - 1) + 8 + ids[i]
           /\ Lies(IdPiece(ids, i), IdBytes(ids), IdEnd(ids, i - 1))
<1> DEFINE P == IdPieces(ids)
<1> DEFINE n == Len(ids)
<1> DEFINE e == IdPiece(ids, i)
<1>1. P \in Seq(Seq(Byte)) /\ Len(P) = n /\ P[i] = e /\ n \in Nat /\ IdBytes(ids) = FlattenSeq(P)
  BY IdPiecesType DEF IdBytes
<1>2. e \in Seq(Byte) /\ Len(e) = 8 + ids[i] /\ ids[i] \in Nat
  BY IdPieceType
<1> HIDE DEF e, P
<1> DEFINE before == FlattenSeq(SubSeq(P, 1, i - 1))
<1> DEFINE after == FlattenSeq(SubSeq(P, i + 1, n))
<1>3. /\ before \in Seq(Byte)
      /\ FlattenSeq(SubSeq(P, 1, i)) = before \o e
      /\ FlattenSeq(P) = before \o (e \o after)
  <2>1. i \in 1 .. Len(P) /\ P \in Seq(Seq(Byte))
    BY <1>1
  <2>2. /\ FlattenSeq(SubSeq(P, 1, i - 1)) \in Seq(Byte)
        /\ FlattenSeq(SubSeq(P, i, Len(P))) = P[i] \o FlattenSeq(SubSeq(P, i + 1, Len(P)))
        /\ FlattenSeq(SubSeq(P, 1, i)) = FlattenSeq(SubSeq(P, 1, i - 1)) \o P[i]
        /\ FlattenSeq(P) = FlattenSeq(SubSeq(P, 1, i - 1)) \o FlattenSeq(SubSeq(P, i, Len(P)))
    BY <2>1, FlattenSplit
  <2> QED
    BY <1>1, <2>2
<1>4. after \in Seq(Byte)
  <2>1. SubSeq(P, i + 1, n) \in Seq(Seq(Byte))
    BY <1>1
  <2> QED
    BY <2>1, FlattenType
<1>5. IdEnd(ids, i - 1) = Len(before) /\ IdEnd(ids, i) = Len(FlattenSeq(SubSeq(P, 1, i)))
  BY DEF IdEnd, P
<1> HIDE DEF before, after
<1>6. Len(before) \in Nat /\ Len(before \o e) = Len(before) + Len(e)
  BY <1>2, <1>3, Pair
<1>7. e \o after \in Seq(Byte) /\ Lies(e, e \o after, 0)
  BY <1>2, <1>4, Pair
<1>8. Lies(e, FlattenSeq(P), Len(before) + 0)
  <2> DEFINE t == e \o after
  <2>1. t \in Seq(Byte) /\ Lies(e, t, 0)
    BY <1>7
  <2> HIDE DEF t
  <2>2. Lies(e, before \o t, Len(before) + 0)
    BY <1>2, <1>3, <2>1, LiesRight
  <2> QED
    BY <1>3, <2>2 DEF t
<1>9. /\ IdEnd(ids, i - 1) \in Nat /\ IdEnd(ids, i) = IdEnd(ids, i - 1) + 8 + ids[i]
      /\ Lies(e, IdBytes(ids), IdEnd(ids, i - 1))
  <2>1. Len(before) + 0 = Len(before)
    BY <1>6
  <2>2. Lies(e, IdBytes(ids), IdEnd(ids, i - 1))
    <3>1. Lies(e, IdBytes(ids), Len(before) + 0)
      BY <1>1, <1>8
    <3> QED
      BY <1>5, <2>1, <3>1, Zenon
  <2>3. IdEnd(ids, i) = Len(before) + Len(e)
    BY <1>3, <1>5, <1>6
  <2> QED
    BY <1>2, <1>5, <1>6, <2>2, <2>3
<1> QED
  BY <1>2, <1>9 DEF e

LEMMA IdEndFirst ==
    ASSUME NEW ids \in Seq(Nat)
    PROVE  IdEnd(ids, 0) = 0
<1>1. SubSeq(IdPieces(ids), 1, 0) = <<>>
  BY SubSeqEmpty
<1>2. FlattenSeq(SubSeq(IdPieces(ids), 1, 0)) = <<>>
  BY <1>1, FlattenEmpty, Zenon
<1>3. Len(FlattenSeq(SubSeq(IdPieces(ids), 1, 0))) = 0
  BY <1>2
<1> QED
  BY <1>3, Zenon DEF IdEnd

LEMMA IdEndLast ==
    ASSUME NEW ids \in Seq(Nat)
    PROVE  /\ IdEnd(ids, Len(ids)) = Len(IdBytes(ids))
           /\ Len(IdBytes(ids)) = Sum(ids) + 8 * Len(ids)
<1> DEFINE n == Len(ids)
<1>1. n \in Nat
  BY LenProperties
<1>2. IdEnd(ids, n) = Len(IdBytes(ids))
  <2>1. SubSeq(IdPieces(ids), 1, Len(IdPieces(ids))) = IdPieces(ids)
    BY IdPiecesType, SubSeqFull
  <2> QED
    BY <2>1, IdPiecesType DEF IdEnd, IdBytes
<1> HIDE DEF n
<1> DEFINE T == {i \in Nat : i <= n => IdEnd(ids, i) = Sum(SubSeq(ids, 1, i)) + 8 * i}
<1>3. 0 \in T
  <2>1. SubSeq(ids, 1, 0) = <<>>
    BY SubSeqEmpty
  <2>2. Sum(SubSeq(ids, 1, 0)) = 0
    BY <2>1, SumEmpty, Zenon
  <2> QED
    BY <2>2, IdEndFirst
<1>4. ASSUME NEW i \in T PROVE i + 1 \in T
  <2> SUFFICES ASSUME i + 1 <= n PROVE IdEnd(ids, i + 1) = Sum(SubSeq(ids, 1, i + 1)) + 8 * (i + 1)
    OBVIOUS
  <2>1. i \in Nat /\ i <= n /\ i + 1 \in 1 .. n /\ i + 1 - 1 = i
    BY <1>1
  <2>2. IdEnd(ids, i) = Sum(SubSeq(ids, 1, i)) + 8 * i
    BY <2>1
  <2> DEFINE k == i + 1
  <2>3. k \in 1 .. n /\ k - 1 = i /\ k \in Nat
    BY <2>1
  <2> HIDE DEF T, k
  <2>4. /\ IdEnd(ids, k) = IdEnd(ids, i) + 8 + ids[k] /\ ids[k] \in Nat
    <3>1. k \in 1 .. Len(ids)
      BY <2>3 DEF n
    <3>2. IdEnd(ids, k) = IdEnd(ids, k - 1) + 8 + ids[k] /\ ids[k] \in Nat
      BY <3>1, IdEndStep
    <3> QED
      BY <2>3, <3>2
  <2> DEFINE pre == SubSeq(ids, 1, i)
  <2>5. pre \in Seq(Nat)
    BY <2>1 DEF n
  <2>6. SubSeq(ids, 1, k) = Append(pre, ids[k])
    <3>1. 1 \in 1 .. Len(ids) /\ k \in 1 .. Len(ids)
      BY <1>1, <2>3 DEF n
    <3>2. SubSeq(ids, 1, k) = SubSeq(ids, 1, k - 1) \o <<ids[k]>>
      BY <3>1, SubSeqRecursiveSecond
    <3>3. SubSeq(ids, 1, k) = pre \o <<ids[k]>>
      BY <2>3, <3>2
    <3> HIDE DEF pre
    <3> QED
      BY <2>4, <2>5, <3>3, AppendIsConcat
  <2> HIDE DEF pre
  <2>7. Sum(Append(pre, ids[k])) = Sum(pre) + ids[k] /\ Sum(pre) \in Nat
    BY <2>4, <2>5, SumAppend, SumType
  <2>8. IdEnd(ids, k) = Sum(SubSeq(ids, 1, k)) + 8 * k
    <3>1. IdEnd(ids, i) = Sum(pre) + 8 * i
      BY <2>2 DEF pre
    <3>2. 8 * k = 8 * i + 8
      BY <2>1, <2>3
    <3>3. Sum(SubSeq(ids, 1, k)) = Sum(pre) + ids[k]
      BY <2>6, <2>7
    <3> DEFINE total == Sum(SubSeq(ids, 1, k))
    <3>4. total = Sum(pre) + ids[k]
      BY <3>3
    <3> HIDE DEF total
    <3>5. IdEnd(ids, k) = total + 8 * k
      BY <2>1, <2>4, <2>7, <3>1, <3>2, <3>4
    <3> QED
      BY <3>5 DEF total
  <2> QED
    BY <2>8 DEF k
<1> HIDE DEF T
<1>5. T = Nat
  BY <1>3, <1>4, SetInduction DEF T
<1>6. IdEnd(ids, n) = Sum(SubSeq(ids, 1, n)) + 8 * n
  BY <1>1, <1>5 DEF T
<1>7. SubSeq(ids, 1, n) = ids
  BY SubSeqFull DEF n
<1> QED
  BY <1>2, <1>6, <1>7 DEF n

(* The server finds where each id starts, from the length of the one before. *)
LEMMA IdOffsetsFound ==
    ASSUME NEW ids \in Seq(Nat), NEW a, a.num_docs = Len(ids), NEW s \in Seq(Byte), Lies(IdBytes(ids), s, 0)
    PROVE  \A i \in 0 .. Len(ids) : IdOffsets(a, s)[i] = IdEnd(ids, i)
<1> DEFINE n == Len(ids)
<1>1. n \in Nat
  BY LenProperties
<1>2. ASSUME NEW i \in 1 .. n PROVE Value(s, IdEnd(ids, i - 1), SizeT) = ids[i]
  <2> DEFINE b == Number("id_len", ids[i])
  <2> DEFINE off == IdEnd(ids, i - 1)
  <2>1. off \in Nat /\ ids[i] \in Nat /\ Lies(IdPiece(ids, i), IdBytes(ids), off)
    BY IdEndStep
  <2>2. b \in Seq(Byte) /\ Lies(b, IdPiece(ids, i), 0) /\ IdPiece(ids, i) \in Seq(Byte)
    BY IdPieceType
  <2>3. IdBytes(ids) \in Seq(Byte)
    BY IdPiecesType
  <2> HIDE DEF b, off
  <2>4. Lies(b, IdBytes(ids), off + 0)
    BY <2>1, <2>2, <2>3, LiesWithin
  <2>5. off + 0 = off /\ 0 + off = off
    BY <2>1
  <2>6. Lies(b, s, 0 + off)
    BY <2>1, <2>2, <2>3, <2>4, <2>5, LiesWithin
  <2>7. Lies(Bytes("id_len", ids[i], SizeT), s, off)
    BY <2>5, <2>6 DEF b, Number
  <2>8. "id_len" \in Items
    BY DEF Items
  <2>9. ids[i] \in Values
    BY <2>1 DEF Values
  <2>10. SizeT \in Nat \ {0}
    BY DEF SizeT
  <2>11. Value(s, off, SizeT) = ids[i]
    BY <2>1, <2>7, <2>8, <2>9, <2>10, ValueLies
  <2> QED
    BY <2>11 DEF off
<1> DEFINE h == [i \in 0 .. n |-> IdEnd(ids, i)]
<1> DEFINE solves(g) == g = [i \in 0 .. n |-> IF i = 0 THEN 0 ELSE g[i - 1] + SizeT + Value(s, g[i - 1], SizeT)]
<1>3. \A i \in 1 .. n : IdEnd(ids, i) = IdEnd(ids, i - 1) + SizeT + ids[i]
  BY IdEndStep DEF SizeT
<1> HIDE DEF n
<1>4. solves(h)
  <2>1. ASSUME NEW i \in 0 .. n
        PROVE  h[i] = IF i = 0 THEN 0 ELSE h[i - 1] + SizeT + Value(s, h[i - 1], SizeT)
    <3>1. CASE i = 0
      BY <1>1, <3>1, IdEndFirst
    <3>2. CASE i # 0
      <4>1. i \in 1 .. n /\ i - 1 \in 0 .. n
        BY <1>1, <3>2
      <4>2. h[i] = IdEnd(ids, i) /\ h[i - 1] = IdEnd(ids, i - 1)
        BY <4>1
      <4> HIDE DEF h
      <4> QED
        BY <3>2, <4>1, <4>2, <1>2, <1>3
    <3> QED
      BY <3>1, <3>2
  <2> QED
    BY <2>1
<1> DEFINE g == CHOOSE g : solves(g)
<1>5. solves(g)
  <2> HIDE DEF h, solves
  <2> QED
    BY <1>4
<1>6. IdOffsets(a, s) = g
  BY Zenon DEF IdOffsets, n
<1> HIDE DEF g
<1>7. \A i \in 0 .. n : g[i] = IF i = 0 THEN 0 ELSE g[i - 1] + SizeT + Value(s, g[i - 1], SizeT)
  BY <1>5, Zenon
<1> HIDE DEF solves
<1> DEFINE T == {i \in Nat : i <= n => g[i] = IdEnd(ids, i)}
<1>8. 0 \in T
  BY <1>1, <1>7, IdEndFirst
<1>9. ASSUME NEW i \in T PROVE i + 1 \in T
  <2> SUFFICES ASSUME i + 1 <= n PROVE g[i + 1] = IdEnd(ids, i + 1)
    OBVIOUS
  <2> DEFINE k == i + 1
  <2>1. k \in 1 .. n /\ k \in 0 .. n /\ k # 0 /\ k - 1 = i
    BY <1>1
  <2>2. g[i] = IdEnd(ids, i)
    <3>1. i \in Nat /\ i <= n
      BY <1>1
    <3> QED
      BY <3>1
  <2> HIDE DEF k
  <2>3. g[k] = g[k - 1] + SizeT + Value(s, g[k - 1], SizeT)
    BY <1>7, <2>1
  <2>4. g[k] = IdEnd(ids, k)
    BY <1>2, <1>3, <2>1, <2>2, <2>3
  <2> QED
    BY <2>4 DEF k
<1> HIDE DEF T
<1>10. T = Nat
  BY <1>8, <1>9, SetInduction DEF T
<1>11. \A i \in 0 .. n : g[i] = IdEnd(ids, i)
  BY <1>1, <1>10 DEF T
<1> QED
  BY <1>6, <1>11 DEF n

-----------------------------------------------------------------------------
(* Each command is understood *)

LEMMA OptionType ==
    ASSUME NEW p \in Calls, p.command \in {"INITIALIZE", "LOAD", "SEARCH", "EVICT"}
    PROVE  /\ \A name \in {"max_mem", "n_records", "n_load", "n_probe", "n_evict"} : \A default \in Nat :
                 Option(p, name, default) \in Nat
           /\ \A name \in {"use_flat", "require_all"} : \A default \in BOOLEAN :
                 Option(p, name, default) \in BOOLEAN
<1>1. \A name \in DOMAIN p.options :
          p.options[name] \in IF name \in {"use_flat", "require_all"} THEN BOOLEAN ELSE Nat
  BY CallsAssumption
<1>2. ASSUME NEW name \in {"max_mem", "n_records", "n_load", "n_probe", "n_evict"}, NEW default \in Nat
      PROVE  Option(p, name, default) \in Nat
  <2>1. name \notin {"use_flat", "require_all"}
    OBVIOUS
  <2> QED
    BY <1>1, <2>1 DEF Option
<1>3. ASSUME NEW name \in {"use_flat", "require_all"}, NEW default \in BOOLEAN
      PROVE  Option(p, name, default) \in BOOLEAN
  <2>1. name \in DOMAIN p.options => p.options[name] \in BOOLEAN
    BY <1>1
  <2> QED
    BY <2>1, Zenon DEF Option
<1> QED
  BY <1>2, <1>3

(* A message is whole, and what is read of it is what its caller meant. *)
Whole(p) ==
    /\ Message(p) \in Seq(Byte)
    /\ Args(p).size \in Nat
    /\ Len(Message(p)) = StaticLength(p.command) + 1 + Args(p).size + 2
    /\ p.command = "SEARCH" => Args(p).n = Len(p.vectors)
Dynamic(p) == DynamicArgs(p.command, Args(p), Body(p))
Understood(p) == Whole(p) /\ (args = Args(p) /\ data = Dynamic(p) => Meant(p))

LEMMA BodyLies ==
    ASSUME NEW p, p.command \in Commands, Whole(p),
           NEW b \in Seq(Byte), NEW off \in Nat, Lies(b, Message(p), StaticLength(p.command) + 1 + off)
    PROVE  Body(p) \in Seq(Byte) /\ Len(Body(p)) = Args(p).size + 2 /\ Lies(b, Body(p), off)
<1> DEFINE m == Message(p)
<1> DEFINE k == StaticLength(p.command) + 1
<1>1. k \in Nat
  BY OffsetTable DEF Commands
<1>2. /\ m \in Seq(Byte) /\ Len(m) = k + Args(p).size + 2 /\ Args(p).size \in Nat
      /\ Lies(b, m, k + off)
  BY DEF Whole
<1>3. Body(p) = SubSeq(m, k + 1, Len(m))
  <2>1. StaticLength(p.command) + 2 = k + 1
    BY OffsetTable DEF Commands
  <2> QED
    BY <2>1 DEF Body
<1> HIDE DEF m, k
<1>4. k <= Len(m) /\ Len(m) - k = Args(p).size + 2
  BY <1>1, <1>2
<1>5. /\ SubSeq(m, k + 1, Len(m)) \in Seq(Byte) /\ Len(SubSeq(m, k + 1, Len(m))) = Len(m) - k
      /\ Lies(b, SubSeq(m, k + 1, Len(m)), off)
  BY <1>1, <1>2, <1>4, LiesAfter
<1> QED
  BY <1>3, <1>4, <1>5

LEMMA UniformSum ==
    ASSUME NEW p \in Calls, p.command # "INITIALIZE"
    PROVE  /\ p.vectors \in Seq(Nat) /\ Len(p.vectors) \in Nat \ {0} /\ p.vectors[1] \in Nat
           /\ Sum(p.vectors) \in Nat
           /\ FloatSize * Len(p.vectors) * p.vectors[1] = 4 * Sum(p.vectors)
           /\ (p.command \in {"LOAD", "EVICT"} => Sum(p.vectors) = p.vectors[1])
<1>1. p.vectors \in Seq(Nat) /\ p.vectors # <<>> /\ \A i \in DOMAIN p.vectors : p.vectors[i] = p.vectors[1]
  BY UniformAssumption
<1> DEFINE v == p.vectors
<1> DEFINE c == v[1]
<1>2. v \in Seq(Nat) /\ Len(v) \in Nat \ {0} /\ c \in Nat
  BY <1>1, EmptySeq, ElementOfSeq, LenProperties
<1>3. \A i \in DOMAIN v : v[i] = c
  BY <1>1
<1> HIDE DEF v
<1>4. Sum(v) = Len(v) * c /\ Sum(v) \in Nat
  <2> HIDE DEF c
  <2> QED
    BY <1>2, <1>3, SumOfEqual, SumType
<1>5. 4 * Len(v) * c = 4 * (Len(v) * c)
  <2> DEFINE n == Len(v)
  <2>1. n \in Nat
    BY <1>2
  <2> HIDE DEF n, c
  <2>2. 4 * n * c = 4 * (n * c)
    BY <1>2, <2>1
  <2> QED
    BY <2>2 DEF n
<1>6. p.command \in {"LOAD", "EVICT"} => Len(v) = 1
  BY CallsAssumption DEF v
<1>7. p.command \in {"LOAD", "EVICT"} => Sum(v) = c
  <2> SUFFICES ASSUME p.command \in {"LOAD", "EVICT"} PROVE Sum(v) = c
    OBVIOUS
  <2>1. Len(v) = 1
    BY <1>6
  <2>2. Sum(v) = 1 * c /\ c \in Nat
    BY <1>2, <1>4, <2>1
  <2> HIDE DEF c
  <2> QED
    BY <2>2
<1> QED
  BY <1>2, <1>4, <1>5, <1>7 DEF v, FloatSize

LEMMA FloatsPacked ==
    ASSUME NEW n \in Nat, NEW s \in Seq(Byte), NEW off \in Nat, Lies(Floats(n), s, off), NEW size, size = 4 * n
    PROVE  FloatsAt(s, off, size \div FloatSize) = UpTo(n)
<1>1. size \div FloatSize = n
  BY DEF FloatSize
<1> QED
  BY <1>1, FloatsRead

LEMMA ReadsPacked ==
    ASSUME NEW p, p.command \in Commands, Message(p) \in Seq(Byte), Len(Message(p)) > 0,
           NEW i \in DOMAIN Members[p.command], NEW off, off = Offset(Members[p.command], i),
           NEW width, width = Width(Members[p.command][i]),
           NEW item \in Items, NEW value \in Values, Lies(Bytes(item, value, width), Message(p), 1 + off)
    PROVE  Args(p)[Members[p.command][i]] = value
<1>1. Packed(p, i, item, value, width)
  BY DEF Packed
<1> QED
  BY <1>1, ReadsMember

LEMMA ReadsNumber ==
    ASSUME NEW p, p.command \in Commands, Message(p) \in Seq(Byte), Len(Message(p)) > 0,
           NEW i \in DOMAIN Members[p.command], NEW off, off = Offset(Members[p.command], i),
           Members[p.command][i] \notin {"use_flat", "require_all"},
           NEW item \in Items, NEW value \in Nat, Lies(Number(item, value), Message(p), 1 + off)
    PROVE  Args(p)[Members[p.command][i]] = value
<1>1. SizeT = Width(Members[p.command][i])
  BY DEF Width
<1>2. Lies(Bytes(item, value, SizeT), Message(p), 1 + off)
  BY DEF Number
<1>3. value \in Values
  BY DEF Values
<1> QED
  BY <1>1, <1>2, <1>3, ReadsPacked

LEMMA ReadsFlag ==
    ASSUME NEW p, p.command \in Commands, Message(p) \in Seq(Byte), Len(Message(p)) > 0,
           NEW i \in DOMAIN Members[p.command], NEW off, off = Offset(Members[p.command], i),
           Members[p.command][i] \in {"use_flat", "require_all"},
           NEW item \in Items, NEW value \in BOOLEAN, Lies(Flag(item, value), Message(p), 1 + off)
    PROVE  Args(p)[Members[p.command][i]] = value
<1>1. 1 = Width(Members[p.command][i])
  BY DEF Width
<1>2. Lies(Bytes(item, value, 1), Message(p), 1 + off)
  BY DEF Flag
<1>3. value \in Values
  BY DEF Values
<1> QED
  BY <1>1, <1>2, <1>3, ReadsPacked

LEMMA MessageCases ==
    ASSUME NEW p
    PROVE  /\ p.command = "INITIALIZE" => Message(p) = initialize(p)
           /\ p.command = "TRAIN" => Message(p) = train(p)
           /\ p.command = "ADD" => Message(p) = add(p)
           /\ p.command = "LOAD" => Message(p) = load(p)
           /\ p.command = "SEARCH" => Message(p) = search(p)
           /\ p.command = "EVICT" => Message(p) = evict(p)
  BY SMT DEF Message

LEMMA DynamicCases ==
    ASSUME NEW p
    PROVE  /\ p.command = "INITIALIZE" => Dynamic(p) = <<SubSeq(Body(p), 1, Args(p).size)>>
           /\ p.command \in {"TRAIN", "LOAD", "SEARCH", "EVICT"} =>
                 Dynamic(p) = FloatsAt(Body(p), 0, Args(p).size \div FloatSize)
<1>1. p.command = "INITIALIZE" => Dynamic(p) = <<SubSeq(Body(p), 1, Args(p).size)>>
  BY SMT DEF Dynamic, DynamicArgs
<1>2. p.command \in {"TRAIN", "LOAD", "SEARCH", "EVICT"} =>
          Dynamic(p) = FloatsAt(Body(p), 0, Args(p).size \div FloatSize)
  BY SMT DEF Dynamic, DynamicArgs
<1> QED
  BY <1>1, <1>2

LEMMA DynamicFloats ==
    ASSUME NEW p, p.command \in {"TRAIN", "LOAD", "SEARCH", "EVICT"}, Whole(p), NEW n \in Nat,
           Args(p).size = 4 * n, Lies(Floats(n), Message(p), StaticLength(p.command) + 1)
    PROVE  Dynamic(p) = UpTo(n)
<1>1. p.command \in Commands
  BY DEF Commands
<1>2. StaticLength(p.command) \in Nat
  BY <1>1, OffsetTable DEF Commands
<1>3. StaticLength(p.command) + 1 + 0 = StaticLength(p.command) + 1
  BY <1>2
<1>4. Floats(n) \in Seq(Byte)
  BY FloatsType
<1>5. Body(p) \in Seq(Byte) /\ Lies(Floats(n), Body(p), 0)
  <2>1. Lies(Floats(n), Message(p), StaticLength(p.command) + 1 + 0)
    BY <1>3
  <2> QED
    BY <1>1, <1>4, <2>1, BodyLies
<1>6. FloatsAt(Body(p), 0, Args(p).size \div FloatSize) = UpTo(n)
  BY <1>5, FloatsPacked
<1> QED
  BY <1>6, DynamicCases

LEMMA UrlBytes ==
    ASSUME NEW n \in Nat
    PROVE  Bytes("db_url", "url", n) \in Seq(Byte) /\ Len(Bytes("db_url", "url", n)) = n
<1>1. "url" \in Names
  BY DEF Names
<1>2. "url" \in Values
  BY <1>1 DEF Values
<1>3. "db_url" \in Items
  BY DEF Items
<1> QED
  BY <1>2, <1>3, BytesType

LEMMA INITIALIZEUnderstood ==
    ASSUME NEW p \in Calls, p.command = "INITIALIZE"
    PROVE  Understood(p)
<1> DEFINE max_mem == Option(p, "max_mem", 1024)
<1> DEFINE nTotal == Option(p, "n_records", 250000)
<1> DEFINE use_flat == Option(p, "use_flat", FALSE)
<1> DEFINE url == Bytes("db_url", "url", p.url)
<1>1. p.d \in Nat /\ p.url \in Nat /\ p.command \in Commands
  BY CallsAssumption DEF Commands
<1>2. max_mem \in Nat /\ nTotal \in Nat /\ use_flat \in BOOLEAN
  <2>1. p.command \in {"INITIALIZE", "LOAD", "SEARCH", "EVICT"}
    OBVIOUS
  <2>2. /\ \A default \in Nat : /\ Option(p, "max_mem", default) \in Nat
                               /\ Option(p, "n_records", default) \in Nat
        /\ \A default \in BOOLEAN : Option(p, "use_flat", default) \in BOOLEAN
    BY <2>1, OptionType
  <2>3. max_mem \in Nat
    BY <2>2
  <2>4. nTotal \in Nat
    BY <2>2
  <2>5. use_flat \in BOOLEAN
    BY <2>2, Zenon
  <2> HIDE DEF max_mem, nTotal, use_flat
  <2> QED
    BY <2>3, <2>4, <2>5
<1>3. {"d", "max_mem", "nTotal", "use_flat", "size", "db_url"} \subseteq Items
  BY DEF Items
<1>4. url \in Seq(Byte) /\ Len(url) = p.url
  BY <1>1, UrlBytes
<1>7. Message(p) = initialize(p) /\ Dynamic(p) = <<SubSeq(Body(p), 1, Args(p).size)>>
  BY MessageCases, DynamicCases
<1> DEFINE a == Number("d", p.d)
<1> DEFINE b == Number("max_mem", max_mem)
<1> DEFINE c == Number("nTotal", nTotal)
<1> DEFINE d == Flag("use_flat", use_flat)
<1> DEFINE e == Number("size", p.url)
<1>8. Message(p) = _format_command("INITIALIZE", a \o b \o c \o d \o e, url)
  BY <1>7 DEF initialize
<1> HIDE DEF max_mem, nTotal, use_flat, url
<1>9. /\ a \in Seq(Byte) /\ Len(a) = 8 /\ b \in Seq(Byte) /\ Len(b) = 8 /\ c \in Seq(Byte) /\ Len(c) = 8
      /\ d \in Seq(Byte) /\ Len(d) = 1 /\ e \in Seq(Byte) /\ Len(e) = 8
  BY <1>1, <1>2, <1>3, NumberBytes, FlagBytes
<1> DEFINE m == Message(p)
<1>10. "INITIALIZE" \in Commands /\ m = _format_command("INITIALIZE", a \o b \o c \o d \o e, url)
  BY <1>1, <1>8
<1>11. /\ m \in Seq(Byte) /\ Len(m) = 37 + Len(url)
       /\ Lies(a, m, 1 + 0) /\ Lies(b, m, 1 + 8) /\ Lies(c, m, 1 + 16) /\ Lies(d, m, 1 + 24)
       /\ Lies(e, m, 1 + 25) /\ Lies(url, m, 35)
  <2> HIDE DEF a, b, c, d, e, m
  <2>1. FiveArgsLie(_format_command("INITIALIZE", a \o b \o c \o d \o e, url), a, b, c, d, e, url)
    BY <1>4, <1>9, <1>10, FiveArgs
  <2> QED
    BY <1>10, <2>1 DEF FiveArgsLie
<1> DEFINE ms == Members[p.command]
<1>12. /\ ms[1] = "d" /\ ms[2] = "max_mem" /\ ms[3] = "nTotal" /\ ms[4] = "use_flat" /\ ms[5] = "size"
       /\ DOMAIN ms = 1 .. 5
  BY DEF Members
<1>13. /\ Offset(ms, 1) = 0 /\ Offset(ms, 2) = 8 /\ Offset(ms, 3) = 16 /\ Offset(ms, 4) = 24 /\ Offset(ms, 5) = 25
       /\ StaticLength(p.command) = 34
  BY OffsetTable
<1>14. /\ Message(p) \in Seq(Byte) /\ Len(Message(p)) = 37 + p.url /\ Len(Message(p)) > 0
  BY <1>1, <1>4, <1>11
<1> HIDE DEF m, ms
<1>15. \A i \in DOMAIN ms : \A off, item, value :
          /\ off = Offset(ms, i) /\ ms[i] # "use_flat" /\ ms[i] # "require_all"
          /\ item \in Items /\ value \in Nat /\ Lies(Number(item, value), m, 1 + off)
          => Args(p)[ms[i]] = value
  BY <1>1, <1>14, ReadsNumber DEF m, ms
<1>16. Args(p).d = p.d
  <2>1. Lies(Number("d", p.d), m, 1 + 0) /\ "d" \in Items /\ p.d \in Nat
    BY <1>1, <1>3, <1>11
  <2>2. 1 \in DOMAIN ms /\ ms[1] = "d" /\ Offset(ms, 1) = 0
    BY <1>12, <1>13
  <2>3. Args(p)[ms[1]] = p.d
    BY <1>15, <2>1, <2>2
  <2> QED
    BY <2>2, <2>3
<1>17. Args(p).max_mem = max_mem
  <2>1. Lies(Number("max_mem", max_mem), m, 1 + 8) /\ "max_mem" \in Items /\ max_mem \in Nat
    BY <1>2, <1>3, <1>11
  <2>2. 2 \in DOMAIN ms /\ ms[2] = "max_mem" /\ Offset(ms, 2) = 8
    BY <1>12, <1>13
  <2>3. Args(p)[ms[2]] = max_mem
    BY <1>15, <2>1, <2>2
  <2> QED
    BY <2>2, <2>3
<1>18. Args(p).nTotal = nTotal
  <2>1. Lies(Number("nTotal", nTotal), m, 1 + 16) /\ "nTotal" \in Items /\ nTotal \in Nat
    BY <1>2, <1>3, <1>11
  <2>2. 3 \in DOMAIN ms /\ ms[3] = "nTotal" /\ Offset(ms, 3) = 16
    BY <1>12, <1>13
  <2>3. Args(p)[ms[3]] = nTotal
    BY <1>15, <2>1, <2>2
  <2> QED
    BY <2>2, <2>3
<1>19. Args(p).use_flat = use_flat
  <2>1. Args(p)[Members[p.command][4]] = use_flat
    <3>1. 4 \in DOMAIN Members[p.command] /\ 24 = Offset(Members[p.command], 4) /\ Members[p.command][4] = "use_flat"
      BY <1>12, <1>13 DEF ms
    <3>2. Lies(Flag("use_flat", use_flat), Message(p), 1 + 24) /\ "use_flat" \in Items
      BY <1>3, <1>11 DEF m
    <3> QED
      BY <1>1, <1>2, <1>14, <3>1, <3>2, ReadsFlag
  <2> QED
    BY <1>12, <2>1 DEF ms
<1>20. Args(p).size = p.url
  <2>1. Lies(Number("size", p.url), m, 1 + 25) /\ "size" \in Items /\ p.url \in Nat
    BY <1>1, <1>3, <1>11
  <2>2. 5 \in DOMAIN ms /\ ms[5] = "size" /\ Offset(ms, 5) = 25
    BY <1>12, <1>13
  <2>3. Args(p)[ms[5]] = p.url
    BY <1>15, <2>1, <2>2
  <2> QED
    BY <2>2, <2>3
<1>21. Whole(p)
  BY <1>1, <1>13, <1>14, <1>20 DEF Whole
<1>22. SubSeq(Body(p), 1, p.url) = url
  <2>1. Lies(url, Message(p), StaticLength(p.command) + 1 + 0)
    BY <1>11, <1>13 DEF m
  <2>2. Body(p) \in Seq(Byte) /\ Lies(url, Body(p), 0)
    BY <1>1, <1>4, <1>21, <2>1, BodyLies
  <2>3. SubSeq(Body(p), 0 + 1, 0 + Len(url)) = url
    BY <1>4, <2>2, LiesSubSeq
  <2> QED
    BY <1>1, <1>4, <2>3
<1>23. Dynamic(p) = <<url>>
  BY <1>7, <1>20, <1>22
<1>24. args = Args(p) /\ data = Dynamic(p) => Meant(p)
  <2> SUFFICES ASSUME args = Args(p), data = Dynamic(p) PROVE Meant(p)
    OBVIOUS
  <2>1. args.d = p.d /\ args.max_mem = max_mem /\ args.nTotal = nTotal
    BY <1>16, <1>17, <1>18
  <2>2. args.use_flat = use_flat
    BY <1>19
  <2>3. data = <<url>>
    BY <1>23
  <2> QED
    BY <2>1, <2>2, <2>3, SMT DEF Meant, max_mem, nTotal, use_flat, url
<1> QED
  BY <1>21, <1>24 DEF Understood

LEMMA LOADUnderstood ==
    ASSUME NEW p \in Calls, p.command = "LOAD"
    PROVE  Understood(p)
<1> DEFINE nload == Option(p, "n_load", 1)
<1> DEFINE n == Sum(p.vectors)
<1> DEFINE floats == Floats(n)
<1>1. p.command \in Commands /\ "LOAD" \in Commands
  BY DEF Commands
<1>2. nload \in Nat
  <2>1. p.command \in {"INITIALIZE", "LOAD", "SEARCH", "EVICT"}
    OBVIOUS
  <2> QED
    BY <2>1, OptionType
<1>3. "nload" \in Items /\ "size" \in Items
  BY DEF Items
<1>4. n \in Nat /\ p.vectors[1] = n /\ 4 * n \in Nat
  BY UniformSum
<1>5. floats \in Seq(Byte) /\ Len(floats) = 4 * n
  BY <1>4, FloatsType
<1> DEFINE a == Number("nload", nload)
<1> DEFINE b == Number("size", 4 * n)
<1> DEFINE m == Message(p)
<1>6. m = _format_command("LOAD", a \o b, floats)
  <2>1. m = load(p)
    BY MessageCases
  <2> QED
    BY <1>4, <2>1 DEF load, FloatSize
<1> HIDE DEF nload, floats, n
<1>7. a \in Seq(Byte) /\ Len(a) = 8 /\ b \in Seq(Byte) /\ Len(b) = 8
  BY <1>2, <1>3, <1>4, NumberBytes
<1>8. /\ m \in Seq(Byte) /\ Len(m) = 20 + Len(floats)
      /\ Lies(a, m, 1 + 0) /\ Lies(b, m, 1 + 8) /\ Lies(floats, m, 18)
  <2> HIDE DEF a, b, m
  <2>1. TwoArgsLie(_format_command("LOAD", a \o b, floats), a, b, floats)
    BY <1>1, <1>5, <1>7, TwoArgs
  <2> QED
    BY <1>6, <2>1 DEF TwoArgsLie
<1> DEFINE ms == Members[p.command]
<1>9. ms[1] = "nload" /\ ms[2] = "size" /\ DOMAIN ms = 1 .. 2
  BY DEF Members
<1>10. Offset(ms, 1) = 0 /\ Offset(ms, 2) = 8 /\ StaticLength(p.command) = 17
  BY OffsetTable
<1>11. Message(p) \in Seq(Byte) /\ Len(Message(p)) = 20 + 4 * n /\ Len(Message(p)) > 0
  BY <1>4, <1>5, <1>8
<1> HIDE DEF m, ms
<1>12. Args(p).nload = nload
  <2>1. 1 \in DOMAIN Members[p.command] /\ 0 = Offset(Members[p.command], 1) /\ Members[p.command][1] = "nload"
    BY <1>9, <1>10 DEF ms
  <2>2. Lies(Number("nload", nload), Message(p), 1 + 0)
    BY <1>8 DEF m
  <2>3. Args(p)[Members[p.command][1]] = nload
    BY <1>1, <1>2, <1>3, <1>11, <2>1, <2>2, ReadsNumber
  <2> QED
    BY <2>1, <2>3
<1>13. Args(p).size = 4 * n
  <2>1. 2 \in DOMAIN Members[p.command] /\ 8 = Offset(Members[p.command], 2) /\ Members[p.command][2] = "size"
    BY <1>9, <1>10 DEF ms
  <2>2. Lies(Number("size", 4 * n), Message(p), 1 + 8)
    BY <1>8 DEF m
  <2>3. Args(p)[Members[p.command][2]] = 4 * n
    BY <1>1, <1>3, <1>4, <1>11, <2>1, <2>2, ReadsNumber
  <2> QED
    BY <2>1, <2>3
<1>14. Whole(p)
  BY <1>4, <1>10, <1>11, <1>13 DEF Whole
<1>15. Dynamic(p) = UpTo(n)
  <2>1. Lies(Floats(n), Message(p), StaticLength(p.command) + 1)
    BY <1>8, <1>10 DEF m, floats
  <2>2. p.command \in {"TRAIN", "LOAD", "SEARCH", "EVICT"}
    OBVIOUS
  <2> QED
    BY <1>4, <1>13, <1>14, <2>1, <2>2, DynamicFloats
<1>16. args = Args(p) /\ data = Dynamic(p) => Meant(p)
  <2> SUFFICES ASSUME args = Args(p), data = Dynamic(p) PROVE Meant(p)
    OBVIOUS
  <2>1. args.nload = nload /\ data = UpTo(n)
    BY <1>12, <1>15
  <2> QED
    BY <2>1, SMT DEF Meant, nload, n
<1> QED
  BY <1>14, <1>16 DEF Understood

LEMMA EVICTUnderstood ==
    ASSUME NEW p \in Calls, p.command = "EVICT"
    PROVE  Understood(p)
<1> DEFINE nevict == Option(p, "n_evict", 1)
<1> DEFINE n == Sum(p.vectors)
<1> DEFINE floats == Floats(n)
<1>1. p.command \in Commands /\ "EVICT" \in Commands
  BY DEF Commands
<1>2. nevict \in Nat
  <2>1. p.command \in {"INITIALIZE", "LOAD", "SEARCH", "EVICT"}
    OBVIOUS
  <2> QED
    BY <2>1, OptionType
<1>3. "nevict" \in Items /\ "size" \in Items
  BY DEF Items
<1>4. n \in Nat /\ p.vectors[1] = n /\ 4 * n \in Nat
  BY UniformSum
<1>5. floats \in Seq(Byte) /\ Len(floats) = 4 * n
  BY <1>4, FloatsType
<1> DEFINE a == Number("nevict", nevict)
<1> DEFINE b == Number("size", 4 * n)
<1> DEFINE m == Message(p)
<1>6. m = _format_command("EVICT", a \o b, floats)
  <2>1. m = evict(p)
    BY MessageCases
  <2> QED
    BY <1>4, <2>1 DEF evict, FloatSize
<1> HIDE DEF nevict, floats, n
<1>7. a \in Seq(Byte) /\ Len(a) = 8 /\ b \in Seq(Byte) /\ Len(b) = 8
  BY <1>2, <1>3, <1>4, NumberBytes
<1>8. /\ m \in Seq(Byte) /\ Len(m) = 20 + Len(floats)
      /\ Lies(a, m, 1 + 0) /\ Lies(b, m, 1 + 8) /\ Lies(floats, m, 18)
  <2> HIDE DEF a, b, m
  <2>1. TwoArgsLie(_format_command("EVICT", a \o b, floats), a, b, floats)
    BY <1>1, <1>5, <1>7, TwoArgs
  <2> QED
    BY <1>6, <2>1 DEF TwoArgsLie
<1> DEFINE ms == Members[p.command]
<1>9. ms[1] = "nevict" /\ ms[2] = "size" /\ DOMAIN ms = 1 .. 2
  BY DEF Members
<1>10. Offset(ms, 1) = 0 /\ Offset(ms, 2) = 8 /\ StaticLength(p.command) = 17
  BY OffsetTable
<1>11. Message(p) \in Seq(Byte) /\ Len(Message(p)) = 20 + 4 * n /\ Len(Message(p)) > 0
  BY <1>4, <1>5, <1>8
<1> HIDE DEF m, ms
<1>12. Args(p).nevict = nevict
  <2>1. 1 \in DOMAIN Members[p.command] /\ 0 = Offset(Members[p.command], 1) /\ Members[p.command][1] = "nevict"
    BY <1>9, <1>10 DEF ms
  <2>2. Lies(Number("nevict", nevict), Message(p), 1 + 0)
    BY <1>8 DEF m
  <2>3. Args(p)[Members[p.command][1]] = nevict
    BY <1>1, <1>2, <1>3, <1>11, <2>1, <2>2, ReadsNumber
  <2> QED
    BY <2>1, <2>3
<1>13. Args(p).size = 4 * n
  <2>1. 2 \in DOMAIN Members[p.command] /\ 8 = Offset(Members[p.command], 2) /\ Members[p.command][2] = "size"
    BY <1>9, <1>10 DEF ms
  <2>2. Lies(Number("size", 4 * n), Message(p), 1 + 8)
    BY <1>8 DEF m
  <2>3. Args(p)[Members[p.command][2]] = 4 * n
    BY <1>1, <1>3, <1>4, <1>11, <2>1, <2>2, ReadsNumber
  <2> QED
    BY <2>1, <2>3
<1>14. Whole(p)
  BY <1>4, <1>10, <1>11, <1>13 DEF Whole
<1>15. Dynamic(p) = UpTo(n)
  <2>1. Lies(Floats(n), Message(p), StaticLength(p.command) + 1)
    BY <1>8, <1>10 DEF m, floats
  <2>2. p.command \in {"TRAIN", "LOAD", "SEARCH", "EVICT"}
    OBVIOUS
  <2> QED
    BY <1>4, <1>13, <1>14, <2>1, <2>2, DynamicFloats
<1>16. args = Args(p) /\ data = Dynamic(p) => Meant(p)
  <2> SUFFICES ASSUME args = Args(p), data = Dynamic(p) PROVE Meant(p)
    OBVIOUS
  <2>1. args.nevict = nevict /\ data = UpTo(n)
    BY <1>12, <1>15
  <2> QED
    BY <2>1, SMT DEF Meant, nevict, n
<1> QED
  BY <1>14, <1>16 DEF Understood

LEMMA TRAINUnderstood ==
    ASSUME NEW p \in Calls, p.command = "TRAIN"
    PROVE  Understood(p)
<1> DEFINE n == Sum(p.vectors)
<1> DEFINE floats == Floats(n)
<1>1. p.command \in Commands /\ "TRAIN" \in Commands
  BY DEF Commands
<1>2. "size" \in Items
  BY DEF Items
<1>3. n \in Nat /\ FloatSize * Len(p.vectors) * p.vectors[1] = 4 * n /\ 4 * n \in Nat
  BY UniformSum
<1>4. floats \in Seq(Byte) /\ Len(floats) = 4 * n
  BY <1>3, FloatsType
<1> DEFINE a == Number("size", 4 * n)
<1> DEFINE m == Message(p)
<1>5. m = _format_command("TRAIN", a, floats)
  <2>1. m = train(p)
    BY MessageCases
  <2>2. train(p) = _format_command("TRAIN", Number("size", FloatSize * Len(p.vectors) * p.vectors[1]), floats)
    BY DEF train
  <2> HIDE DEF floats
  <2> QED
    BY <1>3, <2>1, <2>2
<1> HIDE DEF floats, n
<1>6. a \in Seq(Byte) /\ Len(a) = 8
  BY <1>2, <1>3, NumberBytes
<1>7. m \in Seq(Byte) /\ Len(m) = 12 + Len(floats) /\ Lies(a, m, 1 + 0) /\ Lies(floats, m, 10)
  <2> HIDE DEF a, m
  <2> QED
    BY <1>1, <1>4, <1>5, <1>6, OneArg
<1> DEFINE ms == Members[p.command]
<1>8. ms[1] = "size" /\ DOMAIN ms = 1 .. 1
  BY DEF Members
<1>9. Offset(ms, 1) = 0 /\ StaticLength(p.command) = 9
  BY OffsetTable
<1>10. Message(p) \in Seq(Byte) /\ Len(Message(p)) = 12 + 4 * n /\ Len(Message(p)) > 0
  BY <1>3, <1>4, <1>7
<1> HIDE DEF m, ms
<1>11. Args(p).size = 4 * n
  <2>1. 1 \in DOMAIN Members[p.command] /\ 0 = Offset(Members[p.command], 1) /\ Members[p.command][1] = "size"
    BY <1>8, <1>9 DEF ms
  <2>2. Lies(Number("size", 4 * n), Message(p), 1 + 0)
    BY <1>7 DEF m
  <2>3. Args(p)[Members[p.command][1]] = 4 * n
    BY <1>1, <1>2, <1>3, <1>10, <2>1, <2>2, ReadsNumber
  <2> QED
    BY <2>1, <2>3
<1>12. Whole(p)
  BY <1>3, <1>9, <1>10, <1>11 DEF Whole
<1>13. Dynamic(p) = UpTo(n)
  <2>1. Lies(Floats(n), Message(p), StaticLength(p.command) + 1)
    BY <1>7, <1>9 DEF m, floats
  <2>2. p.command \in {"TRAIN", "LOAD", "SEARCH", "EVICT"}
    OBVIOUS
  <2> QED
    BY <1>3, <1>11, <1>12, <2>1, <2>2, DynamicFloats
<1>14. args = Args(p) /\ data = Dynamic(p) => Meant(p)
  <2> SUFFICES ASSUME args = Args(p), data = Dynamic(p) PROVE Meant(p)
    OBVIOUS
  <2>1. data = UpTo(n)
    BY <1>13
  <2> QED
    BY <2>1, SMT DEF Meant, n
<1> QED
  BY <1>12, <1>14 DEF Understood

LEMMA SEARCHUnderstood ==
    ASSUME NEW p \in Calls, p.command = "SEARCH"
    PROVE  Understood(p)
<1> DEFINE nprobe == Option(p, "n_probe", 1)
<1> DEFINE require_all == Option(p, "require_all", TRUE)
<1> DEFINE n == Sum(p.vectors)
<1> DEFINE floats == Floats(n)
<1> DEFINE queries == Len(p.vectors)
<1>1. p.command \in Commands /\ "SEARCH" \in Commands
  BY DEF Commands
<1>2. nprobe \in Nat /\ require_all \in BOOLEAN
  <2>1. p.command \in {"INITIALIZE", "LOAD", "SEARCH", "EVICT"}
    OBVIOUS
  <2>2. /\ \A default \in Nat : Option(p, "n_probe", default) \in Nat
        /\ \A default \in BOOLEAN : Option(p, "require_all", default) \in BOOLEAN
    BY <2>1, OptionType
  <2>3. nprobe \in Nat
    BY <2>2
  <2>4. require_all \in BOOLEAN
    BY <2>2, Zenon
  <2> HIDE DEF nprobe, require_all
  <2> QED
    BY <2>3, <2>4
<1>3. {"n", "k", "nprobe", "require_all", "size"} \subseteq Items
  BY DEF Items
<1>4. n \in Nat /\ queries \in Nat /\ 4 * n \in Nat
  BY UniformSum
<1>5. p.k \in Nat
  BY CallsAssumption
<1>6. floats \in Seq(Byte) /\ Len(floats) = 4 * n
  BY <1>4, FloatsType
<1> DEFINE a == Number("n", queries)
<1> DEFINE b == Number("k", p.k)
<1> DEFINE c == Number("nprobe", nprobe)
<1> DEFINE d == Flag("require_all", require_all)
<1> DEFINE e == Number("size", 4 * n)
<1> DEFINE m == Message(p)
<1>7. m = _format_command("SEARCH", a \o b \o c \o d \o e, floats)
  <2>1. m = search(p)
    BY MessageCases
  <2> QED
    BY <2>1 DEF search, FloatSize
<1> HIDE DEF nprobe, require_all, floats, n, queries
<1>8. /\ a \in Seq(Byte) /\ Len(a) = 8 /\ b \in Seq(Byte) /\ Len(b) = 8 /\ c \in Seq(Byte) /\ Len(c) = 8
      /\ d \in Seq(Byte) /\ Len(d) = 1 /\ e \in Seq(Byte) /\ Len(e) = 8
  BY <1>2, <1>3, <1>4, <1>5, NumberBytes, FlagBytes
<1>9. /\ m \in Seq(Byte) /\ Len(m) = 37 + Len(floats)
      /\ Lies(a, m, 1 + 0) /\ Lies(b, m, 1 + 8) /\ Lies(c, m, 1 + 16) /\ Lies(d, m, 1 + 24)
      /\ Lies(e, m, 1 + 25) /\ Lies(floats, m, 35)
  <2> HIDE DEF a, b, c, d, e, m
  <2>1. FiveArgsLie(_format_command("SEARCH", a \o b \o c \o d \o e, floats), a, b, c, d, e, floats)
    BY <1>1, <1>6, <1>8, FiveArgs
  <2> QED
    BY <1>7, <2>1 DEF FiveArgsLie
<1> DEFINE ms == Members[p.command]
<1>10. /\ ms[1] = "n" /\ ms[2] = "k" /\ ms[3] = "nprobe" /\ ms[4] = "require_all" /\ ms[5] = "size"
       /\ DOMAIN ms = 1 .. 5
  BY DEF Members
<1>11. /\ Offset(ms, 1) = 0 /\ Offset(ms, 2) = 8 /\ Offset(ms, 3) = 16 /\ Offset(ms, 4) = 24 /\ Offset(ms, 5) = 25
       /\ StaticLength(p.command) = 34
  BY OffsetTable
<1>12. /\ Message(p) \in Seq(Byte) /\ Len(Message(p)) = 37 + 4 * n /\ Len(Message(p)) > 0
  BY <1>4, <1>6, <1>9
<1> HIDE DEF m, ms
<1>13. \A i \in DOMAIN ms : \A off, item, value :
          /\ off = Offset(ms, i) /\ ms[i] # "use_flat" /\ ms[i] # "require_all"
          /\ item \in Items /\ value \in Nat /\ Lies(Number(item, value), m, 1 + off)
          => Args(p)[ms[i]] = value
  BY <1>1, <1>12, ReadsNumber DEF m, ms
<1>14. Args(p).n = queries
  <2>1. Lies(Number("n", queries), m, 1 + 0) /\ "n" \in Items /\ queries \in Nat
    BY <1>4, <1>3, <1>9
  <2>2. 1 \in DOMAIN ms /\ ms[1] = "n" /\ Offset(ms, 1) = 0
    BY <1>10, <1>11
  <2>3. Args(p)[ms[1]] = queries
    BY <1>13, <2>1, <2>2
  <2> QED
    BY <2>2, <2>3
<1>15. Args(p).k = p.k
  <2>1. Lies(Number("k", p.k), m, 1 + 8) /\ "k" \in Items /\ p.k \in Nat
    BY <1>5, <1>3, <1>9
  <2>2. 2 \in DOMAIN ms /\ ms[2] = "k" /\ Offset(ms, 2) = 8
    BY <1>10, <1>11
  <2>3. Args(p)[ms[2]] = p.k
    BY <1>13, <2>1, <2>2
  <2> QED
    BY <2>2, <2>3
<1>16. Args(p).nprobe = nprobe
  <2>1. Lies(Number("nprobe", nprobe), m, 1 + 16) /\ "nprobe" \in Items /\ nprobe \in Nat
    BY <1>2, <1>3, <1>9
  <2>2. 3 \in DOMAIN ms /\ ms[3] = "nprobe" /\ Offset(ms, 3) = 16
    BY <1>10, <1>11
  <2>3. Args(p)[ms[3]] = nprobe
    BY <1>13, <2>1, <2>2
  <2> QED
    BY <2>2, <2>3
<1>17. Args(p).require_all = require_all
  <2>1. Args(p)[Members[p.command][4]] = require_all
    <3>1. 4 \in DOMAIN Members[p.command] /\ 24 = Offset(Members[p.command], 4) /\ Members[p.command][4] = "require_all"
      BY <1>10, <1>11 DEF ms
    <3>2. Lies(Flag("require_all", require_all), Message(p), 1 + 24) /\ "require_all" \in Items
      BY <1>3, <1>9 DEF m
    <3> QED
      BY <1>1, <1>2, <1>12, <3>1, <3>2, ReadsFlag
  <2> QED
    BY <1>10, <2>1 DEF ms
<1>18. Args(p).size = 4 * n
  <2>1. Lies(Number("size", 4 * n), m, 1 + 25) /\ "size" \in Items /\ 4 * n \in Nat
    BY <1>4, <1>3, <1>9
  <2>2. 5 \in DOMAIN ms /\ ms[5] = "size" /\ Offset(ms, 5) = 25
    BY <1>10, <1>11
  <2>3. Args(p)[ms[5]] = 4 * n
    BY <1>13, <2>1, <2>2
  <2> QED
    BY <2>2, <2>3
<1>19. Whole(p)
  BY <1>4, <1>11, <1>12, <1>14, <1>18 DEF Whole, queries
<1>20. Dynamic(p) = UpTo(n)
  <2>1. Lies(Floats(n), Message(p), StaticLength(p.command) + 1)
    BY <1>9, <1>11 DEF m, floats
  <2>2. p.command \in {"TRAIN", "LOAD", "SEARCH", "EVICT"}
    OBVIOUS
  <2> QED
    BY <1>4, <1>18, <1>19, <2>1, <2>2, DynamicFloats
<1>21. args = Args(p) /\ data = Dynamic(p) => Meant(p)
  <2> SUFFICES ASSUME args = Args(p), data = Dynamic(p) PROVE Meant(p)
    OBVIOUS
  <2>1. args.n = queries /\ args.k = p.k /\ args.nprobe = nprobe
    BY <1>14, <1>15, <1>16
  <2>2. args.require_all = require_all
    BY <1>17
  <2>3. data = UpTo(n)
    BY <1>20
  <2> QED
    BY <2>1, <2>2, <2>3, SMT DEF Meant, nprobe, require_all, queries, n
<1> QED
  BY <1>19, <1>21 DEF Understood

(* The message of an ADD: i its ids, f its floats. *)
AddLies(m, a, b, i, f) ==
    /\ m \in Seq(Byte) /\ Len(m) = 21 + Len(i) + Len(f)
    /\ Lies(a, m, 1 + 0) /\ Lies(b, m, 1 + 8) /\ Lies(i, m, 18) /\ Lies(f, m, 18 + (Len(i) + 1))

AddBytes(a, b, i, f) == Line("ADD") \o a \o b \o Newline \o i \o Newline \o f \o End

LEMMA AddParts ==
    ASSUME NEW a \in Seq(Byte), NEW b \in Seq(Byte), NEW i \in Seq(Byte), NEW f \in Seq(Byte),
           Len(a) = 8, Len(b) = 8
    PROVE  AddLies(AddBytes(a, b, i, f), a, b, i, f)
<1> DEFINE line == Line("ADD")
<1> DEFINE s == line \o a \o b \o Newline \o i
<1> DEFINE t == s \o Newline \o f
<1> DEFINE m == t \o End
<1>1. /\ line \in Seq(Byte) /\ Len(line) = 1 /\ Newline \in Seq(Byte) /\ Len(Newline) = 1
      /\ End \in Seq(Byte) /\ Len(End) = 2
  <2>1. "ADD" \in Commands
    BY DEF Commands
  <2> QED
    BY <2>1, LineBytes
<1>2. m = AddBytes(a, b, i, f)
  BY DEF AddBytes
<1> HIDE DEF line
<1>3. FiveParts(s, line, a, b, Newline, i)
  BY <1>1, Five
<1> HIDE DEF s
<1>4. /\ s \in Seq(Byte) /\ Len(s) = 18 + Len(i) /\ Lies(a, s, 1) /\ Lies(b, s, 9) /\ Lies(i, s, 18)
  <2>1. /\ s \in Seq(Byte) /\ Len(s) = Len(line) + Len(a) + Len(b) + Len(Newline) + Len(i)
        /\ Lies(a, s, Len(line)) /\ Lies(b, s, Len(line) + Len(a))
        /\ Lies(i, s, Len(line) + Len(a) + Len(b) + Len(Newline))
    BY <1>3 DEF FiveParts
  <2>2. /\ Len(line) = 1 /\ Len(line) + Len(a) = 9 /\ Len(line) + Len(a) + Len(b) + Len(Newline) = 18
    BY <1>1
  <2> QED
    BY <2>1, <2>2
<1>5. Len(i) \in Nat /\ Len(f) \in Nat
  BY LenProperties
<1>6. /\ t \in Seq(Byte) /\ Len(t) = 19 + Len(i) + Len(f) /\ Lies(s, t, 0) /\ Lies(f, t, 18 + (Len(i) + 1))
  <2>1. /\ s \o Newline \o f \in Seq(Byte) /\ Len(s \o Newline \o f) = Len(s) + Len(Newline) + Len(f)
        /\ Lies(s, s \o Newline \o f, 0) /\ Lies(Newline, s \o Newline \o f, Len(s))
        /\ Lies(f, s \o Newline \o f, Len(s) + Len(Newline))
        /\ Len(s) \in Nat /\ Len(Newline) \in Nat /\ Len(f) \in Nat
    <3> DEFINE newline == Newline
    <3> HIDE DEF newline
    <3>1. newline \in Seq(Byte) /\ s \in Seq(Byte)
      BY <1>1, <1>4 DEF newline
    <3>2. ThreeParts(s \o newline \o f, s, newline, f)
      BY <3>1, Triple
    <3> DEFINE w == s \o newline \o f
    <3> HIDE DEF w
    <3>3. /\ w \in Seq(Byte) /\ Len(w) = Len(s) + Len(newline) + Len(f)
          /\ Lies(s, w, 0) /\ Lies(newline, w, Len(s)) /\ Lies(f, w, Len(s) + Len(newline))
          /\ Len(s) \in Nat /\ Len(newline) \in Nat /\ Len(f) \in Nat
      BY <3>2 DEF ThreeParts, w
    <3> QED
      BY <3>3 DEF newline, w
  <2>2. Len(s) + Len(Newline) = 18 + (Len(i) + 1) /\ Len(s) + Len(Newline) + Len(f) = 19 + Len(i) + Len(f)
    BY <1>1, <1>4, <1>5
  <2> QED
    BY <2>1, <2>2
<1> HIDE DEF t
<1>7. m \in Seq(Byte) /\ Len(m) = 21 + Len(i) + Len(f) /\ Lies(t, m, 0)
  <2>1. m \in Seq(Byte) /\ Len(m) = Len(t) + Len(End) /\ Lies(t, m, 0)
    BY <1>1, <1>6, Pair
  <2> QED
    BY <1>1, <1>5, <1>6, <2>1
<1> HIDE DEF m
<1>8. \A x \in Seq(Byte) : \A off \in Nat : Lies(x, t, off) => Lies(x, m, off)
  <2>1. \A x \in Seq(Byte) : \A off \in Nat : Lies(x, t, off) => Lies(x, m, 0 + off)
    BY <1>6, <1>7, LiesWithin
  <2> QED
    BY <2>1
<1>9. \A x \in Seq(Byte) : \A off \in Nat : Lies(x, s, off) => Lies(x, m, off)
  <2>1. \A x \in Seq(Byte) : \A off \in Nat : Lies(x, s, off) => Lies(x, t, 0 + off)
    BY <1>4, <1>6, LiesWithin
  <2> QED
    BY <1>8, <2>1
<1>10. Lies(a, m, 1) /\ Lies(b, m, 9) /\ Lies(i, m, 18)
  BY <1>4, <1>9
<1>11. Lies(f, m, 18 + (Len(i) + 1))
  BY <1>5, <1>6, <1>8
<1> QED
  BY <1>2, <1>7, <1>10, <1>11 DEF AddLies

(* The ids of an ADD, as the server cuts them. *)
LEMMA IdsRead ==
    ASSUME NEW ids \in Seq(Nat), NEW a, a.num_docs = Len(ids), NEW s \in Seq(Byte), Lies(IdBytes(ids), s, 0)
    PROVE  [i \in 1 .. a.num_docs |-> SubSeq(s, IdOffsets(a, s)[i - 1] + SizeT + 1, IdOffsets(a, s)[i])]
               = [i \in DOMAIN ids |-> Bytes("id", i, ids[i])]
<1> DEFINE n == Len(ids)
<1>1. n \in Nat /\ DOMAIN ids = 1 .. n
  BY LenProperties
<1>2. ASSUME NEW i \in 1 .. n
      PROVE  SubSeq(s, IdOffsets(a, s)[i - 1] + SizeT + 1, IdOffsets(a, s)[i]) = Bytes("id", i, ids[i])
  <2> DEFINE b == Bytes("id", i, ids[i])
  <2> DEFINE off == IdEnd(ids, i - 1)
  <2>1. i - 1 \in 0 .. n /\ i \in 0 .. n
    BY <1>1
  <2>2. IdOffsets(a, s)[i - 1] = off /\ IdOffsets(a, s)[i] = IdEnd(ids, i)
    BY <2>1, IdOffsetsFound
  <2>3. off \in Nat /\ ids[i] \in Nat /\ IdEnd(ids, i) = off + 8 + ids[i] /\ Lies(IdPiece(ids, i), IdBytes(ids), off)
    BY IdEndStep
  <2>4. b \in Seq(Byte) /\ Len(b) = ids[i] /\ Lies(b, IdPiece(ids, i), 8) /\ IdPiece(ids, i) \in Seq(Byte)
    BY IdPieceType
  <2>5. IdBytes(ids) \in Seq(Byte)
    BY IdPiecesType
  <2> HIDE DEF b, off, n
  <2>6. Lies(b, IdBytes(ids), off + 8)
    BY <2>3, <2>4, <2>5, LiesWithin
  <2> DEFINE o == off + 8
  <2>7. o \in Nat
    BY <2>3
  <2>8. Lies(b, s, 0 + o)
    <3>1. Lies(b, IdBytes(ids), o)
      BY <2>6
    <3> HIDE DEF o
    <3> QED
      BY <2>4, <2>5, <2>7, <3>1, LiesWithin
  <2>9. 0 + o = o /\ o + 1 = off + SizeT + 1 /\ o + ids[i] = off + 8 + ids[i]
    BY <2>3, <2>7 DEF SizeT
  <2> HIDE DEF o
  <2>10. SubSeq(s, o + 1, o + Len(b)) = b
    BY <2>4, <2>7, <2>8, <2>9, LiesSubSeq
  <2>11. SubSeq(s, off + SizeT + 1, IdEnd(ids, i)) = b
    BY <2>3, <2>4, <2>9, <2>10
  <2> QED
    BY <2>2, <2>11 DEF b
<1> HIDE DEF n
<1>3. a.num_docs = n
  BY DEF n
<1> QED
  BY <1>1, <1>2, <1>3

LEMMA DynamicADD ==
    ASSUME NEW p, p.command = "ADD"
    PROVE  Dynamic(p) = AddData(Args(p), Body(p))
  BY SMT DEF Dynamic, DynamicArgs

LEMMA ADDUnderstood ==
    ASSUME NEW p \in Calls, p.command = "ADD"
    PROVE  Understood(p)
<1> DEFINE n == Sum(p.vectors)
<1> DEFINE floats == Floats(n)
<1> DEFINE ids == IdBytes(p.ids)
<1> DEFINE docs == Len(p.ids)
<1> DEFINE size == Len(ids) + 1 + 4 * n
<1>1. p.command \in Commands
  BY DEF Commands
<1>2. "num_docs" \in Items /\ "size" \in Items
  BY DEF Items
<1>3. n \in Nat /\ FloatSize * Len(p.vectors) * p.vectors[1] = 4 * n /\ 4 * n \in Nat
  BY UniformSum
<1>4. floats \in Seq(Byte) /\ Len(floats) = 4 * n
  BY <1>3, FloatsType
<1>5. p.ids \in Seq(Nat)
  BY CallsAssumption
<1>6. docs \in Nat /\ ids \in Seq(Byte) /\ Len(ids) \in Nat /\ Len(ids) = Sum(p.ids) + 8 * docs
  <2>1. docs \in Nat /\ ids \in Seq(Byte) /\ Len(ids) = Sum(p.ids) + 8 * docs
    BY <1>5, IdPiecesType, IdEndLast
  <2> HIDE DEF ids, docs
  <2> QED
    BY <2>1, LenProperties
<1>7. size \in Nat /\ AddSize(p) = size
  <2>1. Sum(p.ids) \in Nat
    BY <1>5, SumType
  <2>2. AddSize(p) = Sum(p.ids) + 8 * docs + 1 + FloatSize * Len(p.vectors) * p.vectors[1]
    BY DEF AddSize, SizeT
  <2> HIDE DEF n, ids, docs
  <2> QED
    BY <1>3, <1>6, <2>1, <2>2
<1> DEFINE a == Number("num_docs", docs)
<1> DEFINE b == Number("size", size)
<1> DEFINE m == Message(p)
<1>8. m = AddBytes(a, b, ids, floats)
  <2>1. m = add(p)
    BY MessageCases
  <2>2. add(p) = AddBytes(a, Number("size", AddSize(p)), ids, floats)
    BY DEF add, AddBytes, IdBytes, IdPieces, IdPiece
  <2> QED
    BY <1>7, <2>1, <2>2
<1> HIDE DEF floats, n, docs, size
<1>9. a \in Seq(Byte) /\ Len(a) = 8 /\ b \in Seq(Byte) /\ Len(b) = 8
  BY <1>2, <1>6, <1>7, NumberBytes
<1>10. /\ m \in Seq(Byte) /\ Len(m) = 21 + Len(ids) + Len(floats)
       /\ Lies(a, m, 1 + 0) /\ Lies(b, m, 1 + 8) /\ Lies(ids, m, 18) /\ Lies(floats, m, 18 + (Len(ids) + 1))
  <2> HIDE DEF a, b, m, ids
  <2>1. AddLies(AddBytes(a, b, ids, floats), a, b, ids, floats)
    BY <1>4, <1>6, <1>9, AddParts
  <2> QED
    BY <1>8, <2>1 DEF AddLies
<1> DEFINE ms == Members[p.command]
<1>11. ms[1] = "num_docs" /\ ms[2] = "size" /\ DOMAIN ms = 1 .. 2
  BY DEF Members
<1>12. Offset(ms, 1) = 0 /\ Offset(ms, 2) = 8 /\ StaticLength(p.command) = 17
  BY OffsetTable
<1> HIDE DEF ids
<1>13. Message(p) \in Seq(Byte) /\ Len(Message(p)) = 20 + size /\ Len(Message(p)) > 0
  <2>1. size = Len(ids) + 1 + 4 * n
    BY DEF size
  <2>2. Len(m) = 20 + size
    BY <1>3, <1>4, <1>6, <1>10, <2>1
  <2>3. 20 + size > 0
    BY <1>7
  <2> QED
    BY <1>10, <2>2, <2>3, Zenon
<1> HIDE DEF m, ms
<1>14. Args(p).num_docs = docs
  <2>1. 1 \in DOMAIN Members[p.command] /\ 0 = Offset(Members[p.command], 1) /\ Members[p.command][1] = "num_docs"
    BY <1>11, <1>12 DEF ms
  <2>2. Lies(Number("num_docs", docs), Message(p), 1 + 0)
    BY <1>10 DEF m
  <2>3. Args(p)[Members[p.command][1]] = docs
    BY <1>1, <1>2, <1>6, <1>13, <2>1, <2>2, ReadsNumber
  <2> QED
    BY <2>1, <2>3
<1>15. Args(p).size = size
  <2>1. 2 \in DOMAIN Members[p.command] /\ 8 = Offset(Members[p.command], 2) /\ Members[p.command][2] = "size"
    BY <1>11, <1>12 DEF ms
  <2>2. Lies(Number("size", size), Message(p), 1 + 8)
    BY <1>10 DEF m
  <2>3. Args(p)[Members[p.command][2]] = size
    BY <1>1, <1>2, <1>7, <1>13, <2>1, <2>2, ReadsNumber
  <2> QED
    BY <2>1, <2>3
<1>16. Whole(p)
  BY <1>7, <1>12, <1>13, <1>15 DEF Whole
<1>17. Body(p) \in Seq(Byte) /\ Lies(ids, Body(p), 0)
  <2>1. Lies(ids, Message(p), StaticLength(p.command) + 1 + 0)
    BY <1>10, <1>12 DEF m
  <2> QED
    BY <1>1, <1>6, <1>16, <2>1, BodyLies
<1> DEFINE total == Len(ids) + 1
<1>18. Lies(floats, Body(p), total) /\ total \in Nat
  <2>1. Lies(floats, Message(p), StaticLength(p.command) + 1 + total)
    BY <1>10, <1>12 DEF m
  <2>2. total \in Nat
    BY <1>6
  <2> HIDE DEF total
  <2> QED
    BY <1>1, <1>4, <1>16, <2>1, <2>2, BodyLies
<1>19. Lies(IdBytes(p.ids), Body(p), 0) /\ Args(p).num_docs = Len(p.ids)
  BY <1>14, <1>17 DEF ids, docs
<1>20. IdOffsets(Args(p), Body(p))[Args(p).num_docs] + 1 = total
  <2>1. Len(p.ids) \in 0 .. Len(p.ids)
    BY <1>6 DEF docs
  <2>2. IdOffsets(Args(p), Body(p))[Len(p.ids)] = IdEnd(p.ids, Len(p.ids))
    BY <1>5, <1>17, <1>19, <2>1, IdOffsetsFound
  <2>3. IdEnd(p.ids, Len(p.ids)) = Len(ids)
    BY <1>5, IdEndLast DEF ids
  <2> QED
    BY <1>19, <2>2, <2>3
<1>21. FloatsAt(Body(p), total, (Args(p).size - total) \div FloatSize) = UpTo(n)
  <2>1. Args(p).size - total = 4 * n
    BY <1>3, <1>6, <1>15 DEF size
  <2>2. Lies(Floats(n), Body(p), total)
    BY <1>18 DEF floats
  <2> HIDE DEF total
  <2> QED
    BY <1>3, <1>17, <1>18, <2>1, <2>2, FloatsPacked
<1>22. Dynamic(p) = [i \in DOMAIN p.ids |-> Bytes("id", i, p.ids[i])] \o UpTo(n)
  <2>1. [i \in 1 .. Args(p).num_docs |->
            SubSeq(Body(p), IdOffsets(Args(p), Body(p))[i - 1] + SizeT + 1, IdOffsets(Args(p), Body(p))[i])]
            = [i \in DOMAIN p.ids |-> Bytes("id", i, p.ids[i])]
    BY <1>5, <1>17, <1>19, IdsRead
  <2>2. AddData(Args(p), Body(p)) =
            [i \in 1 .. Args(p).num_docs |->
                SubSeq(Body(p), IdOffsets(Args(p), Body(p))[i - 1] + SizeT + 1, IdOffsets(Args(p), Body(p))[i])]
            \o FloatsAt(Body(p), IdOffsets(Args(p), Body(p))[Args(p).num_docs] + 1,
                        (Args(p).size - (IdOffsets(Args(p), Body(p))[Args(p).num_docs] + 1)) \div FloatSize)
    BY DEF AddData
  <2> HIDE DEF total
  <2> QED
    BY <1>20, <1>21, <2>1, <2>2, DynamicADD
<1>23. args = Args(p) /\ data = Dynamic(p) => Meant(p)
  <2> SUFFICES ASSUME args = Args(p), data = Dynamic(p) PROVE Meant(p)
    OBVIOUS
  <2>1. args.num_docs = Len(p.ids)
    BY <1>19
  <2>2. data = [i \in DOMAIN p.ids |-> Bytes("id", i, p.ids[i])] \o UpTo(n)
    BY <1>22
  <2> QED
    BY <2>1, <2>2, SMT DEF Meant, n
<1> QED
  BY <1>16, <1>23 DEF Understood

LEMMA CommandsUnderstood ==
    ASSUME NEW p \in Calls
    PROVE  Understood(p) /\ p.command \in Commands
<1>1. p.command \in {"INITIALIZE", "TRAIN", "ADD", "LOAD", "SEARCH", "EVICT"}
  BY CallsAssumption
<1> QED
  BY <1>1, INITIALIZEUnderstood, TRAINUnderstood, ADDUnderstood, LOADUnderstood, SEARCHUnderstood, EVICTUnderstood
     DEF Commands

=============================================================================
