--------------------------- MODULE MessagingProofs ---------------------------
(***************************************************************************)
(* Proofs about Messaging, for any messages, any size of packets and any   *)
(* number of broken connections and restarts: what arrives is what was     *)
(* sent, whole, and over lightning nothing but a fault ends a connection.  *)
(***************************************************************************)
EXTENDS Messaging, SequenceTheorems, FiniteSetTheorems, FunctionTheorems, TLAPS

-----------------------------------------------------------------------------
(* Parts of a sequence.                                                    *)

\* T consists of elements of S, at rising positions from lo to hi.
Picked(T, S, lo, hi) ==
    \E o \in [1..Len(T) -> lo..hi] :
        /\ \A k \in 1..Len(T) : T[k] = S[o[k]]
        /\ \A k, l \in 1..Len(T) : k < l => o[k] < o[l]

LEMMA PickedNone ==
  ASSUME NEW S, NEW lo, NEW hi
  PROVE  Picked(<<>>, S, lo, hi)
<1> DEFINE o == [k \in 1..0 |-> k]
<1>1. Len(<<>>) = 0 /\ \A k \in 1..0 : FALSE
  OBVIOUS
<1>2. o \in [1..Len(<<>>) -> lo..hi]
  BY <1>1
<1> QED BY <1>1, <1>2 DEF Picked

LEMMA PickedWider ==
  ASSUME NEW X, NEW T \in Seq(X), NEW S, NEW S2, NEW lo \in Nat, NEW hi \in Nat,
         NEW lo2 \in Nat, NEW hi2 \in Nat, Picked(T, S, lo, hi), lo2 <= lo, hi <= hi2,
         \A i \in lo..hi : S2[i] = S[i]
  PROVE  Picked(T, S2, lo2, hi2)
<1>1. PICK o \in [1..Len(T) -> lo..hi] :
         /\ \A k \in 1..Len(T) : T[k] = S[o[k]]
         /\ \A k, l \in 1..Len(T) : k < l => o[k] < o[l]
  BY DEF Picked
<1>2. o \in [1..Len(T) -> lo2..hi2]
  BY <1>1
<1>3. \A k \in 1..Len(T) : T[k] = S2[o[k]]
  BY <1>1
<1> QED BY <1>1, <1>2, <1>3 DEF Picked

LEMMA PickedAppend ==
  ASSUME NEW X, NEW T \in Seq(X), NEW S, NEW lo \in Nat, NEW hi \in Nat, Picked(T, S, lo, hi),
         NEW i \in Nat, lo <= i, hi < i, S[i] \in X
  PROVE  Picked(Append(T, S[i]), S, lo, i)
<1>1. PICK o \in [1..Len(T) -> lo..hi] :
         /\ \A k \in 1..Len(T) : T[k] = S[o[k]]
         /\ \A k, l \in 1..Len(T) : k < l => o[k] < o[l]
  BY DEF Picked
<1> DEFINE n == Len(T) + 1
           U == Append(T, S[i])
           v == [k \in 1..n |-> IF k = n THEN i ELSE o[k]]
<1>2. n \in Nat /\ Len(T) \in Nat /\ Len(U) = n /\ U[n] = S[i] /\ \A k \in 1..Len(T) : U[k] = T[k]
  BY AppendProperties, LenProperties
<1>3. \A k \in 1..n : k = n \/ k \in 1..Len(T)
  BY <1>2
<1>4. v \in [1..n -> lo..i]
  <2>1. \A k \in 1..Len(T) : o[k] \in lo..i
    BY <1>1
  <2> QED BY <1>2, <1>3, <2>1
<1>5. \A k \in 1..n : U[k] = S[v[k]]
  BY <1>1, <1>2, <1>3
<1>6. \A k, l \in 1..n : k < l => v[k] < v[l]
  <2> SUFFICES ASSUME NEW k \in 1..n, NEW l \in 1..n, k < l PROVE v[k] < v[l]
    OBVIOUS
  <2>1. k \in 1..Len(T) /\ v[k] = o[k] /\ o[k] \in lo..hi
    BY <1>1, <1>2
  <2>2. CASE l = n
    BY <2>1, <2>2
  <2>3. CASE l # n
    BY <1>1, <1>3, <2>1, <2>3
  <2> QED BY <2>2, <2>3
<1> HIDE DEF n, U, v
<1> QED BY <1>2, <1>4, <1>5, <1>6 DEF Picked, U

LEMMA PickedTail ==
  ASSUME NEW X, NEW T \in Seq(X), T # <<>>, NEW S, NEW lo \in Nat, NEW hi \in Nat, Picked(T, S, lo, hi)
  PROVE  \E i \in lo..hi : Head(T) = S[i] /\ Picked(Tail(T), S, i + 1, hi)
<1>1. PICK o \in [1..Len(T) -> lo..hi] :
         /\ \A k \in 1..Len(T) : T[k] = S[o[k]]
         /\ \A k, l \in 1..Len(T) : k < l => o[k] < o[l]
  BY DEF Picked
<1>2. /\ Len(T) \in Nat /\ Len(T) >= 1 /\ Head(T) = T[1] /\ Len(Tail(T)) = Len(T) - 1
      /\ \A k \in 1..Len(Tail(T)) : Tail(T)[k] = T[k + 1]
  BY HeadTailProperties, LenProperties, EmptySeq
<1> DEFINE n == Len(Tail(T))
           i == o[1]
           v == [k \in 1..n |-> o[k + 1]]
<1>3. i \in lo..hi /\ Head(T) = S[i] /\ n \in Nat
  BY <1>1, <1>2
<1>4. \A k \in 1..n : k + 1 \in 1..Len(T) /\ o[k + 1] \in lo..hi /\ i < o[k + 1]
  BY <1>1, <1>2
<1>5. v \in [1..n -> (i + 1)..hi]
  BY <1>3, <1>4
<1>6. \A k \in 1..n : Tail(T)[k] = S[v[k]]
  BY <1>1, <1>2, <1>4
<1>7. \A k, l \in 1..n : k < l => v[k] < v[l]
  BY <1>1, <1>3, <1>4
<1>8. Picked(Tail(T), S, i + 1, hi)
  BY <1>5, <1>6, <1>7 DEF Picked
<1> QED BY <1>3, <1>8

LEMMA PickedStart ==
  ASSUME NEW X, NEW T \in Seq(X), NEW U \in Seq(X), NEW S, NEW lo \in Nat, NEW hi \in Nat,
         Picked(T \o U, S, lo, hi)
  PROVE  Picked(T, S, lo, hi)
<1>1. PICK o \in [1..Len(T \o U) -> lo..hi] :
         /\ \A k \in 1..Len(T \o U) : (T \o U)[k] = S[o[k]]
         /\ \A k, l \in 1..Len(T \o U) : k < l => o[k] < o[l]
  BY DEF Picked
<1>2. Len(T) \in Nat /\ Len(U) \in Nat /\ Len(T \o U) = Len(T) + Len(U)
  BY ConcatProperties, LenProperties
<1>3. \A k \in 1..Len(T) : k \in 1..Len(T \o U) /\ (T \o U)[k] = T[k]
  BY <1>2, ConcatProperties
<1> DEFINE v == [k \in 1..Len(T) |-> o[k]]
<1>4. v \in [1..Len(T) -> lo..hi]
  BY <1>1, <1>3
<1>5. \A k \in 1..Len(T) : T[k] = S[v[k]]
  BY <1>1, <1>3
<1>6. \A k, l \in 1..Len(T) : k < l => v[k] < v[l]
  BY <1>1, <1>3
<1> QED BY <1>4, <1>5, <1>6 DEF Picked

\* What is picked in order is a subsequence.
LEMMA PickedIsSubsequence ==
  ASSUME NEW X, NEW T \in Seq(X), NEW S \in Seq(X), Picked(T, S, 1, Len(S))
  PROVE  SubsequenceOf(T, S)
<1>1. PICK o \in [1..Len(T) -> 1..Len(S)] :
         /\ \A k \in 1..Len(T) : T[k] = S[o[k]]
         /\ \A k, l \in 1..Len(T) : k < l => o[k] < o[l]
  BY DEF Picked
<1>2. Len(T) \in Nat /\ Len(S) \in Nat /\ DOMAIN S = 1..Len(S)
  BY LenProperties
<1> DEFINE Below(n) == {o[k] : k \in 1..n}
<1>3. ASSUME NEW n \in 0..Len(T) PROVE Cardinality(Below(n)) = n
  <2> DEFINE f == [k \in 1..n |-> o[k]]
  <2>1. f \in [1..n -> Below(n)]
    OBVIOUS
  <2>2. \A k, l \in 1..n : f[k] = f[l] => k = l
    <3> SUFFICES ASSUME NEW k \in 1..n, NEW l \in 1..n, f[k] = f[l] PROVE k = l
      OBVIOUS
    <3>1. k \in 1..Len(T) /\ l \in 1..Len(T) /\ o[k] = o[l]
      BY <1>2
    <3>2. o[k] \in 1..Len(S) /\ o[l] \in 1..Len(S)
      BY <3>1
    <3>3. ~(k < l) /\ ~(l < k)
      BY <1>1, <3>1, <3>2
    <3> QED BY <3>3
  <2>3. \A y \in Below(n) : \E k \in 1..n : f[k] = y
    OBVIOUS
  <2>4. f \in Bijection(1..n, Below(n))
    BY <2>1, <2>2, <2>3, Fun_IsBij
  <2>5. ExistsBijection(1..n, Below(n))
    BY <2>4 DEF ExistsBijection
  <2>6. IsFiniteSet(1..n) /\ Cardinality(1..n) = n
    BY <1>2, FS_Interval
  <2> QED BY <2>5, <2>6, FS_Bijection
<1> DEFINE chosen == Below(Len(T))
<1>4. chosen \in SUBSET DOMAIN S /\ Cardinality(chosen) = Len(T)
  BY <1>2, <1>3
<1>5. ASSUME NEW i \in chosen PROVE T[Cardinality({j \in chosen : j <= i})] = S[i]
  <2>1. PICK n \in 1..Len(T) : i = o[n]
    OBVIOUS
  <2>2. {j \in chosen : j <= i} = Below(n)
    <3>1. ASSUME NEW k \in 1..Len(T) PROVE o[k] <= i <=> k \in 1..n
      <4>1. o[k] \in 1..Len(S) /\ i \in 1..Len(S)
        BY <2>1
      <4>2. k < n => o[k] < i
        BY <1>1, <2>1
      <4>3. n < k => i < o[k]
        BY <1>1, <2>1
      <4>4. k = n => o[k] = i
        BY <2>1
      <4>5. k < n \/ k = n \/ n < k
        OBVIOUS
      <4>6. k \in 1..n <=> ~(n < k)
        OBVIOUS
      <4> HIDE DEF Below
      <4> QED BY <4>1, <4>2, <4>3, <4>4, <4>5, <4>6
    <3>2. 1..n \subseteq 1..Len(T)
      BY <1>2
    <3>3. ASSUME NEW j PROVE (\E k \in 1..Len(T) : j = o[k] /\ o[k] <= i) <=> \E k \in 1..n : j = o[k]
      BY <3>1, <3>2
    <3>4. ASSUME NEW j PROVE j \in {y \in chosen : y <= i} <=> j \in Below(n)
      <4>1. j \in chosen <=> \E k \in 1..Len(T) : j = o[k]
        OBVIOUS
      <4>2. j \in Below(n) <=> \E k \in 1..n : j = o[k]
        OBVIOUS
      <4> HIDE DEF chosen, Below
      <4>3. (j \in chosen /\ j <= i) <=> \E k \in 1..Len(T) : j = o[k] /\ o[k] <= i
        BY <4>1, Zenon
      <4> QED BY <3>3, <4>2, <4>3
    <3> HIDE DEF chosen, Below
    <3> QED BY <3>4
  <2>3. Cardinality({j \in chosen : j <= i}) = n
    <3>1. n \in 0..Len(T)
      BY <1>2
    <3> HIDE DEF Below, chosen
    <3>2. Cardinality(Below(n)) = n
      BY <1>3, <3>1
    <3> QED BY <2>2, <3>2
  <2> QED BY <1>1, <2>1, <2>3
<1> QED BY <1>4, <1>5 DEF SubsequenceOf

-----------------------------------------------------------------------------
(* Segments.  A message is sent in Count packets; Before is what a reader  *)
(* has of it before packet j.                                              *)

Bytes(m) == TypePrefix(m) \o Encoded(m)
Byte == {<<m.id, i>> : m \in Msgs, i \in Nat} \union {<<m.type, i>> : m \in Msgs, i \in Nat}
Large(m) == m.len > MaxBuf
Count(m) == Len(WireMessages(m))
Segment(m, j) == WireMessages(m)[j]
Before(m, j) == SubSeq(Bytes(m), 1, MaxStartData + (j - 2) * MaxChunk)

LEMMA Sizes == /\ MaxStartData \in Nat /\ MaxStartData >= 1 /\ MaxChunk \in Nat /\ MaxChunk >= 1
               /\ MaxBuf \in Nat /\ MaxBuf > MaxStartData
  BY SizesAssumption DEF MaxStartData, MaxChunk, MaxBuf

LEMMA MessageFields ==
  ASSUME NEW m \in Msgs
  PROVE  m = [id |-> m.id, type |-> m.type, len |-> m.len] /\ m.len \in Nat
  BY MessagesAssumption

LEMMA BytesOf ==
  ASSUME NEW m \in Msgs
  PROVE  /\ Bytes(m) \in Seq(Byte) /\ Len(Bytes(m)) = m.len + 2
         /\ Bytes(m)[1] = <<m.type, 1>>
         /\ \A i \in 1..m.len : Bytes(m)[i + 2] = <<m.id, i>>
<1> DEFINE P == TypePrefix(m)
           E == Encoded(m)
<1>1. m.len \in Nat
  BY MessageFields
<1>2. P \in Seq(Byte) /\ Len(P) = 2 /\ P[1] = <<m.type, 1>>
  <2>1. <<m.type, 1>> \in Byte /\ <<m.type, 2>> \in Byte
    BY DEF Byte
  <2> QED BY <2>1 DEF TypePrefix
<1>3. E \in Seq(Byte) /\ Len(E) = m.len /\ \A i \in 1..m.len : E[i] = <<m.id, i>>
  <2>1. \A i \in 1..m.len : <<m.id, i>> \in Byte
    BY <1>1 DEF Byte
  <2> QED BY <1>1, <2>1 DEF Encoded
<1> HIDE DEF P, E
<1>4. P \o E \in Seq(Byte) /\ Len(P \o E) = 2 + m.len
  <2>1. P \o E \in Seq(Byte) /\ Len(P \o E) = Len(P) + Len(E)
    BY <1>2, <1>3, ConcatProperties, Zenon
  <2> QED BY <1>2, <1>3, <2>1, Zenon
<1>8. ASSUME NEW i \in 1..2 + m.len PROVE (P \o E)[i] = IF i <= 2 THEN P[i] ELSE E[i - 2]
  <2>1. \A k \in 1..Len(P) + Len(E) : (P \o E)[k] = IF k <= Len(P) THEN P[k] ELSE E[k - Len(P)]
    BY <1>2, <1>3, ConcatProperties, Zenon
  <2>2. i \in 1..Len(P) + Len(E)
    BY <1>2, <1>3
  <2>3. (P \o E)[i] = IF i <= Len(P) THEN P[i] ELSE E[i - Len(P)]
    BY <2>1, <2>2
  <2>4. Len(P) = 2 /\ i \in Nat
    BY <1>1, <1>2
  <2> QED BY <2>3, <2>4
<1>5. (P \o E)[1] = <<m.type, 1>>
  <2>1. 1 \in 1..2 + m.len /\ 1 <= 2
    BY <1>1
  <2>2. (P \o E)[1] = P[1]
    BY <1>8, <2>1
  <2> QED BY <1>2, <2>2
<1>6. ASSUME NEW i \in 1..m.len PROVE (P \o E)[i + 2] = <<m.id, i>>
  <2>1. i + 2 \in 1..2 + m.len /\ ~(i + 2 <= 2) /\ (i + 2) - 2 = i
    BY <1>1
  <2> QED BY <1>3, <1>8, <2>1
<1>7. Bytes(m) = P \o E
  BY DEF Bytes, P, E
<1>9. Len(P \o E) = m.len + 2
  BY <1>1, <1>4
<1> QED BY <1>4, <1>5, <1>6, <1>7, <1>9

\* The bytes of a message are those of no other one.
LEMMA ReadBack ==
  ASSUME NEW m \in Msgs, m.len > 0
  PROVE  Decoded(Bytes(m)) = m
<1> DEFINE whole == {k \in Msgs : Bytes(m) = Bytes(k)}
<1>1. ASSUME NEW k \in whole PROVE k = m
  <2>1. k \in Msgs /\ Bytes(m) = Bytes(k)
    OBVIOUS
  <2>2. k.len \in Nat /\ m.len \in Nat
    BY <2>1, MessageFields
  <2>3. k.len = m.len
    BY <2>1, <2>2, BytesOf
  <2>4. <<m.type, 1>> = <<k.type, 1>>
    BY <2>1, BytesOf
  <2>5. <<m.id, 1>> = <<k.id, 1>>
    <3>1. 1 \in 1..m.len /\ 1 \in 1..k.len
      BY <2>2, <2>3
    <3> QED BY <2>1, <3>1, BytesOf
  <2>6. m.type = k.type /\ m.id = k.id
    BY <2>4, <2>5
  <2> QED BY <2>1, <2>3, <2>6, MessageFields
<1>2. whole = {m}
  BY <1>1
<1>3. Decoded(Bytes(m)) = IF whole = {} THEN Garbled ELSE CHOOSE k \in whole : TRUE
  BY DEF Decoded, Bytes
<1> QED BY <1>2, <1>3

\* As many chunks as the rest of the data needs, and the last one is not empty.
LEMMA ChunksSuffice ==
  ASSUME NEW len \in Nat, len > MaxBuf
  PROVE  LET nb == NbSegments(len)
             rest == len + 2 - MaxStartData
         IN  /\ nb \in Nat /\ nb >= 2
             /\ rest \in Nat /\ (nb - 2) * MaxChunk < rest /\ rest <= (nb - 1) * MaxChunk
<1> DEFINE rest == len + 2 - MaxStartData
           q == rest \div MaxChunk
           r == rest % MaxChunk
           nb == q + 1 + (IF r = 0 THEN 0 ELSE 1)
<1>1. rest \in Nat /\ rest >= 1 /\ len - MaxStartData + 2 = rest
  BY Sizes
<1>2. q \in Nat /\ r \in Nat /\ r < MaxChunk /\ rest = q * MaxChunk + r
  BY <1>1, Sizes
<1>3. NbSegments(len) = nb
  BY <1>1 DEF NbSegments
<1> HIDE DEF rest, q, r
<1>4. q = 0 => r # 0
  <2>1. 0 * MaxChunk = 0
    BY Sizes
  <2> QED BY <1>1, <1>2, <2>1
<1>5. nb \in Nat /\ nb >= 2
  BY <1>2, <1>4
<1>6. CASE r = 0
  <2>1. nb - 1 = q /\ nb - 2 = q - 1
    BY <1>2, <1>6
  <2>2. (q - 1) * MaxChunk = q * MaxChunk - MaxChunk
    BY <1>2, Sizes
  <2>3. q * MaxChunk \in Int
    BY <1>2, Sizes
  <2> QED BY <1>1, <1>2, <1>3, <1>5, <1>6, <2>1, <2>2, <2>3, Sizes DEF rest
<1>7. CASE r # 0
  <2>1. nb - 1 = q + 1 /\ nb - 2 = q
    BY <1>2, <1>7
  <2>2. (q + 1) * MaxChunk = q * MaxChunk + MaxChunk
    BY <1>2, Sizes
  <2>3. q * MaxChunk \in Int
    BY <1>2, Sizes
  <2> QED BY <1>1, <1>2, <1>3, <1>5, <1>7, <2>1, <2>2, <2>3, Sizes DEF rest
<1> QED BY <1>6, <1>7

LEMMA Offsets ==
  ASSUME NEW s \in Nat, NEW c \in Nat, NEW len \in Nat, NEW u \in Nat, NEW v \in Int,
         u <= v, v < len - s
  PROVE  s + u \in Nat /\ s + u >= s /\ s + u < len /\ (u + c <= v => s + u + c < len)
  OBVIOUS

\* What a reader has before packet j of a large message are its first bytes.
LEMMA BeforeOf ==
  ASSUME NEW m \in Msgs, Large(m), NEW j \in 2..NbSegments(m.len)
  PROVE  LET at == MaxStartData + (j - 2) * MaxChunk
         IN  /\ at \in Nat /\ at >= MaxStartData /\ at < Len(Bytes(m))
             /\ j < NbSegments(m.len) => at + MaxChunk < Len(Bytes(m))
             /\ j = NbSegments(m.len) => Len(Bytes(m)) <= at + MaxChunk
             /\ Before(m, j) \in Seq(Byte) /\ Len(Before(m, j)) = at
<1> DEFINE nb == NbSegments(m.len)
           at == MaxStartData + (j - 2) * MaxChunk
           rest == m.len + 2 - MaxStartData
<1>1. /\ nb \in Nat /\ nb >= 2
      /\ rest \in Nat /\ (nb - 2) * MaxChunk < rest /\ rest <= (nb - 1) * MaxChunk
  BY ChunksSuffice, MessageFields DEF Large
<1>2. m.len \in Nat /\ Len(Bytes(m)) = m.len + 2 /\ Bytes(m) \in Seq(Byte)
  BY MessageFields, BytesOf
<1> HIDE DEF nb
<1>3. j \in 2..nb
  BY DEF nb
<1>4. (j - 2) * MaxChunk \in Nat /\ (j - 2) * MaxChunk <= (nb - 2) * MaxChunk
  BY <1>1, <1>3, Sizes
<1>5. (j - 2) * MaxChunk + MaxChunk = (j - 1) * MaxChunk
  BY <1>3, Sizes
<1>6. j < nb => (j - 1) * MaxChunk <= (nb - 2) * MaxChunk
  BY <1>1, <1>3, Sizes
<1>7. (nb - 2) * MaxChunk \in Int /\ (nb - 1) * MaxChunk \in Int /\ (j - 1) * MaxChunk \in Int
  BY <1>1, <1>3, Sizes
<1>8. /\ at \in Nat /\ at >= MaxStartData /\ at < m.len + 2
      /\ (j - 2) * MaxChunk + MaxChunk <= (nb - 2) * MaxChunk => at + MaxChunk < m.len + 2
  <2> DEFINE u == (j - 2) * MaxChunk
             v == (nb - 2) * MaxChunk
  <2>0. PICK len : len = m.len + 2
    OBVIOUS
  <2>1. u \in Nat /\ v \in Int /\ u <= v
    BY <1>4, <1>7
  <2>5. v < rest
    BY <1>1
  <2>6. rest = len - MaxStartData /\ len \in Nat
    BY <1>2, <2>0, Sizes
  <2>2. at = MaxStartData + u
    OBVIOUS
  <2> HIDE DEF u, v, at
  <2>3. MaxStartData \in Nat /\ MaxChunk \in Nat
    BY Sizes
  <2>4. /\ MaxStartData + u \in Nat /\ MaxStartData + u >= MaxStartData
        /\ MaxStartData + u < len
        /\ (u + MaxChunk <= v => MaxStartData + u + MaxChunk < len)
    BY <2>1, <2>3, <2>5, <2>6, Offsets
  <2> QED BY <2>0, <2>2, <2>4 DEF u, v
<1>9. j < nb => at + MaxChunk < m.len + 2
  BY <1>5, <1>6, <1>8
<1>10. j = nb => Len(Bytes(m)) <= at + MaxChunk
  BY <1>1, <1>2, <1>4, <1>5, <1>7, Sizes
<1> HIDE DEF at
<1>11. Before(m, j) = SubSeq(Bytes(m), 1, at)
  BY DEF Before, at
<1>12. \A i \in 1..at : Bytes(m)[i] \in Byte
  BY <1>2, <1>8, ElementOfSeq
<1>13. Before(m, j) \in Seq(Byte) /\ Len(Before(m, j)) = at
  <2>1. 1 \in Int /\ at \in Int /\ 1 <= at /\ at - 1 + 1 = at
    BY <1>8, Sizes
  <2>2. SubSeq(Bytes(m), 1, at) \in Seq(Byte)
    BY <1>12, <2>1, SubSeqProperties
  <2>3. Len(SubSeq(Bytes(m), 1, at)) = IF 1 <= at THEN at - 1 + 1 ELSE 0
    BY <1>12, <2>1, SubSeqProperties
  <2> QED BY <1>11, <2>1, <2>2, <2>3
<1> QED BY <1>2, <1>8, <1>9, <1>10, <1>13 DEF nb, at

\* The start and the chunks of a large message, joined, are its bytes.
LEMMA SegmentsOf ==
  ASSUME NEW m \in Msgs, Large(m)
  PROVE  LET nb == NbSegments(m.len)
         IN  /\ nb \in Nat /\ nb >= 2 /\ Count(m) = nb /\ \E X : WireMessages(m) \in Seq(X)
             /\ Segment(m, 1) = [tag |-> "start", nb |-> nb, data |-> Before(m, 2)]
             /\ \A j \in 2..nb :
                   /\ Segment(m, j).tag = "chunk" /\ Len(Segment(m, j).data) \in 0..MaxChunk
                   /\ j < nb => /\ Len(Segment(m, j).data) = MaxChunk
                                /\ Before(m, j) \o Segment(m, j).data = Before(m, j + 1)
                   /\ j = nb => Before(m, j) \o Segment(m, j).data = Bytes(m)
<1> DEFINE nb == NbSegments(m.len)
           b == Bytes(m)
           From(i) == MaxStartData + (i - 1) * MaxChunk + 1
           To(i) == IF i = nb - 1 THEN Len(b) ELSE From(i) + MaxChunk - 1
           start == [tag |-> "start", nb |-> nb, data |-> SubSeq(b, 1, MaxStartData)]
           chunks == [i \in 1..(nb - 1) |-> Chunk(SubSeq(b, From(i), To(i)))]
           X == {start} \union {Chunk(SubSeq(b, From(i), To(i))) : i \in 1..(nb - 1)}
<1>1. nb \in Nat /\ nb >= 2
  BY ChunksSuffice, MessageFields DEF Large
<1>2. WireMessages(m) = <<start>> \o chunks
  BY DEF WireMessages, GetSegments, Large, Bytes
<1>3. <<start>> \in Seq(X) /\ Len(<<start>>) = 1 /\ <<start>>[1] = start
  <2>1. start \in X
    OBVIOUS
  <2> QED BY <2>1
<1>4. chunks \in Seq(X) /\ Len(chunks) = nb - 1
  <2>1. nb - 1 \in Nat
    BY <1>1
  <2>2. chunks \in [1..(nb - 1) -> X]
    OBVIOUS
  <2> HIDE DEF nb, X, chunks
  <2> QED BY <2>1, <2>2
<1>5. \A i \in 1..(nb - 1) : chunks[i] = Chunk(SubSeq(b, From(i), To(i)))
  OBVIOUS
<1> HIDE DEF start, chunks, X
<1>6. Len(<<start>> \o chunks) = Len(<<start>>) + Len(chunks)
  BY <1>3, <1>4, ConcatProperties, Zenon
<1>7. ASSUME NEW i \in 1..nb PROVE (<<start>> \o chunks)[i] = IF i <= 1 THEN start ELSE chunks[i - 1]
  <2>1. \A k \in 1..Len(<<start>>) + Len(chunks) :
           (<<start>> \o chunks)[k] = IF k <= Len(<<start>>) THEN <<start>>[k] ELSE chunks[k - Len(<<start>>)]
    BY <1>3, <1>4, ConcatProperties, Zenon
  <2>2. i \in 1..Len(<<start>>) + Len(chunks) /\ Len(<<start>>) = 1 /\ (i <= 1 => i = 1)
    BY <1>1, <1>3, <1>4
  <2> QED BY <1>3, <2>1, <2>2
<1>8. Count(m) = nb
  BY <1>1, <1>2, <1>3, <1>4, <1>6 DEF Count
<1>9. Segment(m, 1) = [tag |-> "start", nb |-> nb, data |-> Before(m, 2)]
  <2>1. 1 \in 1..nb /\ 1 <= 1
    BY <1>1
  <2>2. Segment(m, 1) = start
    BY <1>2, <1>7, <2>1 DEF Segment
  <2>3. MaxStartData + (2 - 2) * MaxChunk = MaxStartData
    BY Sizes
  <2> QED BY <2>2, <2>3 DEF start, Before
<1>10. ASSUME NEW j \in 2..nb
       PROVE  Segment(m, j) = Chunk(SubSeq(b, From(j - 1), To(j - 1)))
  <2>1. j \in 1..nb /\ ~(j <= 1) /\ j - 1 \in 1..(nb - 1)
    BY <1>1
  <2>2. Segment(m, j) = chunks[j - 1]
    BY <1>2, <1>7, <2>1 DEF Segment
  <2> HIDE DEF From, To
  <2> QED BY <1>5, <2>1, <2>2
<1>11. ASSUME NEW j \in 2..nb
       PROVE  /\ Segment(m, j).tag = "chunk" /\ Len(Segment(m, j).data) \in 0..MaxChunk
              /\ j < nb => /\ Len(Segment(m, j).data) = MaxChunk
                           /\ Before(m, j) \o Segment(m, j).data = Before(m, j + 1)
              /\ j = nb => Before(m, j) \o Segment(m, j).data = Bytes(m)
  <2> DEFINE at == MaxStartData + (j - 2) * MaxChunk
             to == IF j = nb THEN Len(b) ELSE at + MaxChunk
  <2>1. /\ at \in Nat /\ at >= MaxStartData /\ at < Len(b)
        /\ j < nb => at + MaxChunk < Len(b)
        /\ j = nb => Len(b) <= at + MaxChunk
    BY BeforeOf
  <2>2. From(j - 1) = at + 1 /\ To(j - 1) = to
    <3>1. (j - 1) - 1 = j - 2 /\ (j - 1 = nb - 1 <=> j = nb)
      BY <1>1
    <3>2. From(j - 1) = at + 1
      BY <3>1
    <3>3. (at + 1) + MaxChunk - 1 = at + MaxChunk
      BY <2>1, Sizes
    <3> HIDE DEF From, at
    <3> QED BY <3>1, <3>2, <3>3
  <2> HIDE DEF From, To
  <2>3. Segment(m, j).tag = "chunk" /\ Segment(m, j).data = SubSeq(b, at + 1, to)
    BY <1>10, <2>2 DEF Chunk
  <2>4. b \in Seq(Byte) /\ Len(b) \in Nat
    BY BytesOf, LenProperties
  <2>5. Before(m, j) = SubSeq(b, 1, at)
    BY DEF Before
  <2>6. j < nb => Before(m, j + 1) = SubSeq(b, 1, to)
    <3> SUFFICES ASSUME j < nb PROVE Before(m, j + 1) = SubSeq(b, 1, to)
      OBVIOUS
    <3>1. PICK k : k = j + 1
      OBVIOUS
    <3>2. k - 2 = (j - 2) + 1 /\ j # nb
      BY <1>1, <3>1
    <3>3. MaxStartData + (k - 2) * MaxChunk = at + MaxChunk
      BY <2>1, <3>2, Sizes
    <3>4. Before(m, k) = SubSeq(b, 1, MaxStartData + (k - 2) * MaxChunk)
      BY DEF Before
    <3>5. Before(m, k) = SubSeq(b, 1, to)
      BY <3>2, <3>3, <3>4
    <3> QED BY <3>1, <3>5
  <2> HIDE DEF b, at, to
  <2>7. at \in Nat /\ at <= to /\ to <= Len(b) /\ to \in Nat
    BY <1>1, <2>1, <2>4, Sizes DEF to
  <2>8. SubSeq(b, 1, at) \o SubSeq(b, at + 1, to) = SubSeq(b, 1, to)
    <3>1. 1 \in 1..Len(b) + 1 /\ at \in (1 - 1)..Len(b) /\ to \in at..Len(b)
      BY <2>4, <2>7
    <3> QED BY <2>4, <3>1, ConcatAdjacentSubSeq
  <2>9. /\ Len(SubSeq(b, at + 1, to)) \in 0..MaxChunk
        /\ j < nb => Len(SubSeq(b, at + 1, to)) = MaxChunk
    <3>1. \A i \in (at + 1)..to : b[i] \in Byte
      BY <2>4, <2>7, ElementOfSeq
    <3>2. Len(SubSeq(b, at + 1, to)) = IF at + 1 <= to THEN to - (at + 1) + 1 ELSE 0
      BY <2>7, <3>1, SubSeqProperties
    <3>3. to <= at + MaxChunk /\ (j < nb => to = at + MaxChunk)
      BY <1>1, <2>1, Sizes DEF to
    <3> QED BY <2>7, <3>2, <3>3, Sizes
  <2>10. j = nb => SubSeq(b, 1, to) = b
    BY <2>4, SubSeqFull DEF to
  <2> QED BY <2>3, <2>5, <2>6, <2>8, <2>9, <2>10 DEF b
<1>12. WireMessages(m) \in Seq(X)
  BY <1>2, <1>3, <1>4, ConcatProperties
<1> QED BY <1>1, <1>8, <1>9, <1>11, <1>12

LEMMA OnePacket ==
  ASSUME NEW m \in Msgs, ~Large(m)
  PROVE  Count(m) = 1 /\ Segment(m, 1) = [tag |-> "message", msg |-> m]
  BY DEF Large, Count, Segment, WireMessages

Packet == UNION {{Segment(m, j) : j \in 1..Count(m)} : m \in Msgs}

LEMMA PacketsOf ==
  ASSUME NEW m \in Msgs
  PROVE  WireMessages(m) \in Seq(Packet)
<1>1. \E X : WireMessages(m) \in Seq(X)
  <2>1. CASE Large(m)
    BY <2>1, SegmentsOf
  <2>2. CASE ~Large(m)
    <3> DEFINE w == [tag |-> "message", msg |-> m]
    <3>1. WireMessages(m) = <<w>> /\ <<w>> \in Seq({w})
      BY <2>2 DEF WireMessages, Large
    <3> QED BY <3>1
  <2> QED BY <2>1, <2>2
<1>2. PICK X : WireMessages(m) \in Seq(X)
  BY <1>1
<1>3. /\ Len(WireMessages(m)) \in Nat
      /\ WireMessages(m) \in [1..Len(WireMessages(m)) -> X]
  BY <1>2, LenProperties
<1>4. \A j \in 1..Len(WireMessages(m)) : WireMessages(m)[j] \in Packet
  BY DEF Packet, Segment, Count
<1>5. WireMessages(m) \in [1..Len(WireMessages(m)) -> Packet]
  BY <1>3, <1>4
<1> QED BY <1>3, <1>5, SeqDef

LEMMA CountOf ==
  ASSUME NEW m \in Msgs
  PROVE  Count(m) \in Nat /\ Count(m) >= 1 /\ (Count(m) > 1 <=> Large(m))
  BY OnePacket, SegmentsOf

-----------------------------------------------------------------------------
(* What is on the way over lightning.                                      *)

\* Packet k of T is part g[k] of message o[k]; messages are whole but for the
\* beginning of the first one.
Frames(T, S, o, g) ==
    /\ \A k \in 1..Len(T) : g[k] \in 1..Count(S[o[k]]) /\ T[k] = Segment(S[o[k]], g[k])
    /\ \A k, l \in 1..Len(T) : k < l => o[k] < o[l] \/ (o[k] = o[l] /\ g[k] < g[l])
    /\ \A k \in 1..Len(T) :
          g[k] < Count(S[o[k]]) => k < Len(T) /\ o[k + 1] = o[k] /\ g[k + 1] = g[k] + 1
    /\ \A k \in 1..Len(T) : k < Len(T) /\ g[k] = Count(S[o[k]]) => g[k + 1] = 1

\* The reader has the data before packet j.
Holds(r, m, j) == Large(m) /\ r.remaining = Count(m) - j + 1 /\ r.data = Before(m, j)

\* T carries messages of S, from number lo to hi, to a reader that has what
\* came before.
Starts(T, S, o, g, r) == T # <<>> /\ g[1] # 1 => Holds(r, S[o[1]], g[1])
Stream(T, S, lo, hi, r) ==
    \E o \in [1..Len(T) -> lo..hi], g \in [1..Len(T) -> Nat] : Frames(T, S, o, g) /\ Starts(T, S, o, g, r)

LEMMA StreamNone ==
  ASSUME NEW S, NEW lo, NEW hi, NEW r
  PROVE  Stream(<<>>, S, lo, hi, r)
<1> DEFINE o == [k \in 1..0 |-> k]
<1>1. Len(<<>>) = 0 /\ \A k \in 1..0 : FALSE
  OBVIOUS
<1>2. o \in [1..Len(<<>>) -> lo..hi] /\ o \in [1..Len(<<>>) -> Nat]
  BY <1>1
<1>3. Frames(<<>>, S, o, o) /\ Starts(<<>>, S, o, o, r)
  BY <1>1 DEF Frames, Starts
<1> HIDE DEF o
<1> QED BY <1>2, <1>3 DEF Stream

LEMMA StreamWider ==
  ASSUME NEW X, NEW T \in Seq(X), NEW S, NEW S2, NEW lo \in Nat, NEW hi \in Nat, NEW lo2 \in Nat,
         NEW hi2 \in Nat, NEW r, Stream(T, S, lo, hi, r), lo2 <= lo, hi <= hi2,
         \A i \in lo..hi : S2[i] = S[i]
  PROVE  Stream(T, S2, lo2, hi2, r)
<1>1. PICK o \in [1..Len(T) -> lo..hi], g \in [1..Len(T) -> Nat] :
         Frames(T, S, o, g) /\ Starts(T, S, o, g, r)
  BY DEF Stream
<1>2. o \in [1..Len(T) -> lo2..hi2]
  BY <1>1
<1>3. \A k \in 1..Len(T) : S2[o[k]] = S[o[k]]
  BY <1>1
<1>4. Frames(T, S2, o, g)
  BY <1>1, <1>3 DEF Frames
<1>5. Starts(T, S2, o, g, r)
  <2>1. T # <<>> => 1 \in 1..Len(T)
    BY EmptySeq
  <2> QED BY <1>1, <1>3, <2>1 DEF Starts
<1> QED BY <1>1, <1>2, <1>4, <1>5 DEF Stream

\* A stream that starts with a whole message needs no reader.
LEMMA StreamFresh ==
  ASSUME NEW X, NEW T \in Seq(X), NEW S \in Seq(Msgs), NEW lo \in 1..Len(S) + 1, NEW hi \in 0..Len(S),
         Stream(T, S, lo, hi, EmptyReader)
  PROVE  \E o \in [1..Len(T) -> lo..hi], g \in [1..Len(T) -> Nat] :
            Frames(T, S, o, g) /\ (T # <<>> => g[1] = 1)
<1>1. PICK o \in [1..Len(T) -> lo..hi], g \in [1..Len(T) -> Nat] :
         Frames(T, S, o, g) /\ Starts(T, S, o, g, EmptyReader)
  BY DEF Stream
<1>2. ASSUME T # <<>>, g[1] # 1 PROVE FALSE
  <2>1. 1 \in 1..Len(T)
    BY <1>2, EmptySeq
  <2>2. g[1] \in 1..Count(S[o[1]]) /\ o[1] \in lo..hi
    BY <1>1, <2>1 DEF Frames
  <2>3. S[o[1]] \in Msgs
    BY <2>2, ElementOfSeq, LenProperties
  <2>4. Count(S[o[1]]) \in Nat
    BY <2>3, CountOf
  <2>5. 0 = Count(S[o[1]]) - g[1] + 1
    BY <1>1, <1>2 DEF Starts, Holds, EmptyReader
  <2> QED BY <2>2, <2>4, <2>5
<1> QED BY <1>1, <1>2

LEMMA StreamJoin ==
  ASSUME NEW X, NEW T \in Seq(X), NEW U \in Seq(X), NEW S \in Seq(Msgs), NEW lo \in 1..Len(S) + 1,
         NEW mid \in 0..Len(S), NEW hi \in 0..Len(S), lo <= mid + 1, mid <= hi, NEW r,
         Stream(T, S, lo, mid, r), Stream(U, S, mid + 1, hi, EmptyReader)
  PROVE  Stream(T \o U, S, lo, hi, r)
<1>1. PICK o1 \in [1..Len(T) -> lo..mid], g1 \in [1..Len(T) -> Nat] :
         Frames(T, S, o1, g1) /\ Starts(T, S, o1, g1, r)
  BY DEF Stream
<1>2. Len(S) \in Nat /\ lo \in Nat /\ mid \in Nat /\ hi \in Nat
  BY LenProperties
<1>3. PICK o2 \in [1..Len(U) -> (mid + 1)..hi], g2 \in [1..Len(U) -> Nat] :
         Frames(U, S, o2, g2) /\ (U # <<>> => g2[1] = 1)
  <2>1. mid + 1 \in 1..Len(S) + 1
    BY <1>2
  <2> QED BY <2>1, StreamFresh
<1> DEFINE n == Len(T)
           W == T \o U
           o == [k \in 1..Len(W) |-> IF k <= n THEN o1[k] ELSE o2[k - n]]
           g == [k \in 1..Len(W) |-> IF k <= n THEN g1[k] ELSE g2[k - n]]
<1>4. n \in Nat /\ Len(U) \in Nat /\ Len(W) = n + Len(U)
  BY ConcatProperties, LenProperties
<1>5. \A k \in 1..n : k \in 1..Len(W) /\ W[k] = T[k] /\ o[k] = o1[k] /\ g[k] = g1[k]
  BY <1>4, ConcatProperties
<1>6. \A k \in 1..Len(U) : /\ n + k \in 1..Len(W) /\ W[n + k] = U[k]
                           /\ o[n + k] = o2[k] /\ g[n + k] = g2[k]
  <2> SUFFICES ASSUME NEW k \in 1..Len(U)
               PROVE  /\ n + k \in 1..Len(W) /\ W[n + k] = U[k]
                      /\ o[n + k] = o2[k] /\ g[n + k] = g2[k]
    OBVIOUS
  <2>1. n + k \in 1..Len(W) /\ ~(n + k <= n) /\ (n + k) - n = k
    BY <1>4
  <2>2. W[n + k] = U[(n + k) - n]
    BY <1>4, <2>1, ConcatProperties
  <2> QED BY <2>1, <2>2
<1>7. \A k \in 1..Len(W) : k \in 1..n \/ \E i \in 1..Len(U) : k = n + i
  <2> SUFFICES ASSUME NEW k \in 1..Len(W), k \notin 1..n PROVE \E i \in 1..Len(U) : k = n + i
    OBVIOUS
  <2>1. k - n \in 1..Len(U) /\ k = n + (k - n)
    BY <1>4
  <2> QED BY <2>1
<1> HIDE DEF W, o, g
<1>8. o \in [1..Len(W) -> lo..hi] /\ g \in [1..Len(W) -> Nat]
  <2>1. \A k \in 1..Len(W) : o[k] \in lo..hi /\ g[k] \in Nat
    <3> SUFFICES ASSUME NEW k \in 1..Len(W) PROVE o[k] \in lo..hi /\ g[k] \in Nat
      OBVIOUS
    <3>1. CASE k \in 1..n
      <4>1. o[k] = o1[k] /\ g[k] = g1[k] /\ o1[k] \in lo..mid /\ g1[k] \in Nat
        BY <1>1, <1>5, <3>1
      <4> QED BY <1>2, <4>1
    <3>2. CASE \E i \in 1..Len(U) : k = n + i
      <4>1. PICK i \in 1..Len(U) : k = n + i
        BY <3>2
      <4>2. o[k] = o2[i] /\ g[k] = g2[i]
        BY <1>6, <4>1
      <4>3. o2[i] \in (mid + 1)..hi /\ g2[i] \in Nat
        BY <1>3
      <4> QED BY <1>2, <4>2, <4>3
    <3> QED BY <1>7, <3>1, <3>2
  <2>2. o = [k \in 1..Len(W) |-> o[k]] /\ g = [k \in 1..Len(W) |-> g[k]]
    BY DEF o, g
  <2> QED BY <2>1, <2>2
<1>9. \A k \in 1..Len(W) : g[k] \in 1..Count(S[o[k]]) /\ W[k] = Segment(S[o[k]], g[k])
  <2> SUFFICES ASSUME NEW k \in 1..Len(W)
               PROVE  g[k] \in 1..Count(S[o[k]]) /\ W[k] = Segment(S[o[k]], g[k])
    OBVIOUS
  <2>1. CASE k \in 1..n
    BY <1>1, <1>5, <2>1 DEF Frames
  <2>2. CASE \E i \in 1..Len(U) : k = n + i
    <3>1. PICK i \in 1..Len(U) : k = n + i
      BY <2>2
    <3> QED BY <1>3, <1>6, <3>1 DEF Frames
  <2> QED BY <1>7, <2>1, <2>2
<1>10. \A k, l \in 1..Len(W) : k < l => o[k] < o[l] \/ (o[k] = o[l] /\ g[k] < g[l])
  <2> SUFFICES ASSUME NEW k \in 1..Len(W), NEW l \in 1..Len(W), k < l
               PROVE  o[k] < o[l] \/ (o[k] = o[l] /\ g[k] < g[l])
    OBVIOUS
  <2>1. CASE k \in 1..n /\ l \in 1..n
    BY <1>1, <1>5, <2>1 DEF Frames
  <2>2. CASE k \in 1..n /\ \E i \in 1..Len(U) : l = n + i
    <3>1. PICK i \in 1..Len(U) : l = n + i
      BY <2>2
    <3>2. o[k] = o1[k] /\ o1[k] \in lo..mid /\ o[l] = o2[i] /\ o2[i] \in (mid + 1)..hi
      BY <1>1, <1>3, <1>5, <1>6, <2>2, <3>1
    <3> QED BY <1>2, <3>2
  <2>3. CASE (\E i \in 1..Len(U) : k = n + i) /\ \E j \in 1..Len(U) : l = n + j
    <3>1. PICK i \in 1..Len(U), j \in 1..Len(U) : k = n + i /\ l = n + j
      BY <2>3
    <3>2. i < j
      BY <1>4, <3>1
    <3>3. o2[i] < o2[j] \/ (o2[i] = o2[j] /\ g2[i] < g2[j])
      BY <1>3, <3>2 DEF Frames
    <3>4. o[k] = o2[i] /\ g[k] = g2[i] /\ o[l] = o2[j] /\ g[l] = g2[j]
      BY <1>6, <3>1
    <3> QED BY <3>3, <3>4
  <2>4. ~((\E i \in 1..Len(U) : k = n + i) /\ l \in 1..n)
    BY <1>4
  <2> QED BY <1>7, <2>1, <2>2, <2>3, <2>4
<1>11. \A k \in 1..Len(W) :
          g[k] < Count(S[o[k]]) => k < Len(W) /\ o[k + 1] = o[k] /\ g[k + 1] = g[k] + 1
  <2> SUFFICES ASSUME NEW k \in 1..Len(W), g[k] < Count(S[o[k]])
               PROVE  k < Len(W) /\ o[k + 1] = o[k] /\ g[k + 1] = g[k] + 1
    OBVIOUS
  <2>1. CASE k \in 1..n
    <3>1. k < n /\ o1[k + 1] = o1[k] /\ g1[k + 1] = g1[k] + 1
      BY <1>1, <1>5, <2>1 DEF Frames
    <3>2. k + 1 \in 1..n
      BY <1>4, <2>1, <3>1
    <3>3. k < Len(W)
      BY <1>4, <2>1, <3>1
    <3> QED BY <1>5, <2>1, <3>1, <3>2, <3>3
  <2>2. CASE \E i \in 1..Len(U) : k = n + i
    <3>1. PICK i \in 1..Len(U) : k = n + i
      BY <2>2
    <3>2. i < Len(U) /\ o2[i + 1] = o2[i] /\ g2[i + 1] = g2[i] + 1
      BY <1>3, <1>6, <3>1 DEF Frames
    <3>3. i + 1 \in 1..Len(U) /\ k + 1 = n + (i + 1) /\ k < Len(W)
      BY <1>4, <3>1, <3>2
    <3>4. o[k + 1] = o2[i + 1] /\ g[k + 1] = g2[i + 1] /\ o[k] = o2[i] /\ g[k] = g2[i]
      BY <1>6, <3>1, <3>3
    <3> QED BY <3>2, <3>3, <3>4
  <2> QED BY <1>7, <2>1, <2>2
<1>12. \A k \in 1..Len(W) : k < Len(W) /\ g[k] = Count(S[o[k]]) => g[k + 1] = 1
  <2> SUFFICES ASSUME NEW k \in 1..Len(W), k < Len(W), g[k] = Count(S[o[k]]) PROVE g[k + 1] = 1
    OBVIOUS
  <2>1. CASE k \in 1..n /\ k < n
    <3>1. k + 1 \in 1..n /\ g1[k] = Count(S[o1[k]])
      BY <1>4, <1>5, <2>1
    <3>2. g1[k + 1] = 1
      BY <1>1, <2>1, <3>1 DEF Frames
    <3> QED BY <1>5, <3>1, <3>2
  <2>2. CASE k = n
    <3>1. 1 \in 1..Len(U) /\ k + 1 = n + 1
      BY <1>4, <2>2
    <3>2. U # <<>>
      BY <3>1
    <3> QED BY <1>3, <1>6, <3>1, <3>2
  <2>3. CASE \E i \in 1..Len(U) : k = n + i
    <3>1. PICK i \in 1..Len(U) : k = n + i
      BY <2>3
    <3>2. i < Len(U) /\ g2[i] = Count(S[o2[i]])
      BY <1>4, <1>6, <3>1
    <3>3. g2[i + 1] = 1
      BY <1>3, <3>2 DEF Frames
    <3>4. i + 1 \in 1..Len(U) /\ k + 1 = n + (i + 1)
      BY <1>4, <3>1, <3>2
    <3> QED BY <1>6, <3>3, <3>4
  <2> QED BY <1>4, <1>7, <2>1, <2>2, <2>3
<1>13. Starts(W, S, o, g, r)
  <2> SUFFICES ASSUME W # <<>>, g[1] # 1 PROVE Holds(r, S[o[1]], g[1])
    BY DEF Starts
  <2>1. CASE T # <<>>
    <3>1. 1 \in 1..n
      BY <2>1, EmptySeq
    <3> QED BY <1>1, <1>5, <2>1, <3>1 DEF Starts
  <2>2. CASE T = <<>>
    <3>1. n = 0 /\ W = U
      BY <2>2, ConcatEmptySeq DEF W
    <3>2. U # <<>> /\ 1 \in 1..Len(U) /\ n + 1 = 1
      BY <3>1, EmptySeq
    <3> QED BY <1>3, <1>6, <3>2
  <2> QED BY <2>1, <2>2
<1>14. Frames(W, S, o, g)
  BY <1>9, <1>10, <1>11, <1>12 DEF Frames
<1>15. Stream(W, S, lo, hi, r)
  BY <1>8, <1>13, <1>14 DEF Stream
<1> QED BY <1>15 DEF W

LEMMA StreamOf ==
  ASSUME NEW m \in Msgs, NEW S, NEW i \in Nat, S[i] = m
  PROVE  Stream(WireMessages(m), S, i, i, EmptyReader)
<1> DEFINE n == Len(WireMessages(m))
           o == [k \in 1..n |-> i]
           g == [k \in 1..n |-> k]
<1>1. n \in Nat /\ n = Count(m)
  BY CountOf DEF Count
<1>2. o \in [1..n -> i..i] /\ g \in [1..n -> Nat]
  BY <1>1
<1>3. \A k \in 1..n : o[k] = i /\ g[k] = k
  OBVIOUS
<1> HIDE DEF n, o, g
<1>4. \A k \in 1..n : WireMessages(m)[k] = Segment(m, k)
  BY DEF Segment
<1>5. Frames(WireMessages(m), S, o, g)
  <2>1. \A k \in 1..n : g[k] \in 1..Count(S[o[k]]) /\ WireMessages(m)[k] = Segment(S[o[k]], g[k])
    BY <1>1, <1>3, <1>4
  <2>2. \A k, l \in 1..n : k < l => o[k] < o[l] \/ (o[k] = o[l] /\ g[k] < g[l])
    BY <1>3
  <2>3. \A k \in 1..n : g[k] < Count(S[o[k]]) => k < n /\ o[k + 1] = o[k] /\ g[k + 1] = g[k] + 1
    <3> SUFFICES ASSUME NEW k \in 1..n, g[k] < Count(S[o[k]])
                 PROVE  k < n /\ o[k + 1] = o[k] /\ g[k + 1] = g[k] + 1
      OBVIOUS
    <3>1. k < n
      BY <1>1, <1>3
    <3>2. k + 1 \in 1..n
      BY <1>1, <3>1
    <3> QED BY <1>3, <3>1, <3>2
  <2>4. \A k \in 1..n : k < n /\ g[k] = Count(S[o[k]]) => g[k + 1] = 1
    BY <1>1, <1>3
  <2> QED BY <2>1, <2>2, <2>3, <2>4 DEF Frames, n
<1>6. Starts(WireMessages(m), S, o, g, EmptyReader)
  <2>1. 1 \in 1..n
    BY <1>1, CountOf
  <2> QED BY <1>3, <2>1 DEF Starts
<1> QED BY <1>2, <1>5, <1>6 DEF Stream, n

\* The first packet, and what is left once the reader has it.
LEMMA StreamHead ==
  ASSUME NEW X, NEW T \in Seq(X), T # <<>>, NEW S \in Seq(Msgs), NEW lo \in 1..Len(S) + 1,
         NEW hi \in 0..Len(S), NEW r, Stream(T, S, lo, hi, r)
  PROVE  \E i \in lo..hi : \E j \in 1..Count(S[i]) :
            /\ Head(T) = Segment(S[i], j) /\ (j = 1 \/ Holds(r, S[i], j))
            /\ j = Count(S[i]) => \A e : Stream(Tail(T), S, i + 1, hi, e)
            /\ j < Count(S[i]) => \A e : Holds(e, S[i], j + 1) => Stream(Tail(T), S, i, hi, e)
<1>1. PICK o \in [1..Len(T) -> lo..hi], g \in [1..Len(T) -> Nat] :
         Frames(T, S, o, g) /\ Starts(T, S, o, g, r)
  BY DEF Stream
<1>2. /\ Len(T) \in Nat /\ Len(T) >= 1 /\ Head(T) = T[1] /\ Len(Tail(T)) = Len(T) - 1
      /\ \A k \in 1..Len(Tail(T)) : Tail(T)[k] = T[k + 1]
  BY HeadTailProperties, LenProperties, EmptySeq
<1>3. 1 \in 1..Len(T) /\ Len(S) \in Nat
  BY <1>2, LenProperties
<1> DEFINE i == o[1]
           j == g[1]
           n == Len(Tail(T))
           p == [k \in 1..n |-> o[k + 1]]
           q == [k \in 1..n |-> g[k + 1]]
<1>4. i \in lo..hi /\ j \in 1..Count(S[i]) /\ Head(T) = Segment(S[i], j) /\ (j = 1 \/ Holds(r, S[i], j))
  BY <1>1, <1>2, <1>3 DEF Frames, Starts
<1>5. S[i] \in Msgs
  BY <1>3, <1>4, ElementOfSeq
<1>6. \A k \in 1..n : k + 1 \in 1..Len(T) /\ p[k] = o[k + 1] /\ q[k] = g[k + 1] /\ Tail(T)[k] = T[k + 1]
  BY <1>2
<1> HIDE DEF p, q
<1>7. Frames(Tail(T), S, p, q)
  <2>1. \A k \in 1..n : q[k] \in 1..Count(S[p[k]]) /\ Tail(T)[k] = Segment(S[p[k]], q[k])
    BY <1>1, <1>6 DEF Frames
  <2>2. \A k, l \in 1..n : k < l => p[k] < p[l] \/ (p[k] = p[l] /\ q[k] < q[l])
    <3> SUFFICES ASSUME NEW k \in 1..n, NEW l \in 1..n, k < l
                 PROVE  p[k] < p[l] \/ (p[k] = p[l] /\ q[k] < q[l])
      OBVIOUS
    <3>1. k + 1 \in 1..Len(T) /\ l + 1 \in 1..Len(T) /\ k + 1 < l + 1
      BY <1>2
    <3>2. o[k + 1] < o[l + 1] \/ (o[k + 1] = o[l + 1] /\ g[k + 1] < g[l + 1])
      BY <1>1, <3>1 DEF Frames
    <3> QED BY <1>6, <3>2
  <2>3. \A k \in 1..n : q[k] < Count(S[p[k]]) => k < n /\ p[k + 1] = p[k] /\ q[k + 1] = q[k] + 1
    <3> SUFFICES ASSUME NEW k \in 1..n, q[k] < Count(S[p[k]])
                 PROVE  k < n /\ p[k + 1] = p[k] /\ q[k + 1] = q[k] + 1
      OBVIOUS
    <3>1. /\ k + 1 < Len(T) /\ o[(k + 1) + 1] = o[k + 1] /\ g[(k + 1) + 1] = g[k + 1] + 1
      BY <1>1, <1>6 DEF Frames
    <3>2. k + 1 \in 1..n /\ k < n
      BY <1>2, <3>1
    <3>3. p[k + 1] = o[(k + 1) + 1] /\ q[k + 1] = g[(k + 1) + 1] /\ p[k] = o[k + 1] /\ q[k] = g[k + 1]
      BY <1>6, <3>2
    <3> QED BY <3>1, <3>2, <3>3
  <2>4. \A k \in 1..n : k < n /\ q[k] = Count(S[p[k]]) => q[k + 1] = 1
    <3> SUFFICES ASSUME NEW k \in 1..n, k < n, q[k] = Count(S[p[k]]) PROVE q[k + 1] = 1
      OBVIOUS
    <3>1. k + 1 \in 1..Len(T) /\ k + 1 < Len(T) /\ g[k + 1] = Count(S[o[k + 1]])
      BY <1>2, <1>6
    <3>2. g[(k + 1) + 1] = 1
      BY <1>1, <3>1 DEF Frames
    <3>3. k + 1 \in 1..n
      BY <1>2
    <3> QED BY <1>6, <3>2, <3>3
  <2> QED BY <2>1, <2>2, <2>3, <2>4 DEF Frames
<1>8. \A k \in 1..n : o[k + 1] \in lo..hi /\ g[k + 1] \in Nat
                      /\ (i < o[k + 1] \/ (i = o[k + 1] /\ j < g[k + 1]))
  <2> SUFFICES ASSUME NEW k \in 1..n
               PROVE  o[k + 1] \in lo..hi /\ g[k + 1] \in Nat
                      /\ (i < o[k + 1] \/ (i = o[k + 1] /\ j < g[k + 1]))
    OBVIOUS
  <2>1. k + 1 \in 1..Len(T) /\ 1 < k + 1
    BY <1>2
  <2> QED BY <1>1, <1>3, <2>1 DEF Frames
<1>9. q \in [1..n -> Nat] /\ p = [k \in 1..n |-> p[k]]
  BY <1>8 DEF p, q
<1>10. Tail(T) # <<>> => 1 \in 1..n
  <2>1. Tail(T) \in Seq(X)
    BY HeadTailProperties
  <2> QED BY <2>1, EmptySeq
<1>11. ASSUME j = Count(S[i]), NEW e PROVE Stream(Tail(T), S, i + 1, hi, e)
  <2>1. \A k \in 1..n : p[k] \in (i + 1)..hi
    <3> SUFFICES ASSUME NEW k \in 1..n PROVE p[k] \in (i + 1)..hi
      OBVIOUS
    <3>1. g[k + 1] \in 1..Count(S[o[k + 1]])
      BY <1>1, <1>6 DEF Frames
    <3>2. Count(S[i]) \in Nat
      BY <1>5, CountOf
    <3>3. i = o[k + 1] => g[k + 1] <= Count(S[i])
      BY <3>1, <3>2
    <3>4. i < o[k + 1]
      BY <1>8, <1>11, <3>2, <3>3
    <3> QED BY <1>3, <1>4, <1>6, <1>8, <3>4
  <2>2. p \in [1..n -> (i + 1)..hi]
    BY <1>9, <2>1
  <2>3. Tail(T) # <<>> => q[1] = 1
    <3> SUFFICES ASSUME Tail(T) # <<>> PROVE q[1] = 1
      OBVIOUS
    <3>1. 1 \in 1..n /\ 1 < Len(T)
      BY <1>2, <1>10
    <3>2. g[1 + 1] = 1
      BY <1>1, <1>3, <1>11, <3>1 DEF Frames
    <3> QED BY <1>6, <3>1, <3>2
  <2>4. Starts(Tail(T), S, p, q, e)
    BY <2>3 DEF Starts
  <2> QED BY <1>7, <1>9, <2>2, <2>4 DEF Stream
<1>12. ASSUME j < Count(S[i]), NEW e, Holds(e, S[i], j + 1) PROVE Stream(Tail(T), S, i, hi, e)
  <2>1. \A k \in 1..n : p[k] \in i..hi
    BY <1>3, <1>4, <1>6, <1>8
  <2>2. p \in [1..n -> i..hi]
    BY <1>9, <2>1
  <2>3. 1 < Len(T) /\ o[1 + 1] = i /\ g[1 + 1] = j + 1
    BY <1>1, <1>3, <1>12 DEF Frames
  <2>4. 1 \in 1..n
    BY <1>2, <2>3
  <2>5. p[1] = i /\ q[1] = j + 1
    BY <1>6, <2>3, <2>4
  <2>6. Starts(Tail(T), S, p, q, e)
    BY <1>12, <2>5 DEF Starts
  <2> QED BY <1>7, <1>9, <2>2, <2>6 DEF Stream
<1> QED BY <1>4, <1>11, <1>12

-----------------------------------------------------------------------------
(* All that one party sent over lightning: A arrived, L is on the way to a *)
(* reader r, O waits, and the rest is lost.                                *)

Flow(A, S, L, O, r) ==
    \E x, y \in 0..Len(S) :
        /\ x <= y
        /\ Picked(A, S, 1, x)
        /\ Stream(L, S, x + 1, y, r)
        /\ Stream(O, S, y + 1, Len(S), EmptyReader)

LEMMA FlowNone ==
  ASSUME NEW r
  PROVE  Flow(<<>>, <<>>, <<>>, <<>>, r)
<1>1. Len(<<>>) = 0 /\ 0 \in 0..Len(<<>>) /\ 0 <= 0
  OBVIOUS
<1>2. Picked(<<>>, <<>>, 1, 0)
  BY PickedNone
<1>3. Stream(<<>>, <<>>, 0 + 1, 0, r) /\ Stream(<<>>, <<>>, 0 + 1, Len(<<>>), EmptyReader)
  BY StreamNone
<1> QED BY <1>1, <1>2, <1>3 DEF Flow

LEMMA FlowSend ==
  ASSUME NEW A \in Seq(Msgs), NEW S \in Seq(Msgs), NEW L \in Seq(Packet), NEW O \in Seq(Packet),
         NEW r, Flow(A, S, L, O, r), NEW m \in Msgs
  PROVE  Flow(A, Append(S, m), L, O \o WireMessages(m), r)
<1>1. PICK x \in 0..Len(S), y \in 0..Len(S) :
         x <= y /\ Picked(A, S, 1, x) /\ Stream(L, S, x + 1, y, r)
         /\ Stream(O, S, y + 1, Len(S), EmptyReader)
  BY DEF Flow
<1> DEFINE U == Append(S, m)
           n == Len(S)
<1>2. /\ n \in Nat /\ U \in Seq(Msgs) /\ Len(U) = n + 1 /\ U[n + 1] = m
      /\ \A i \in 1..n : U[i] = S[i]
  BY AppendProperties, LenProperties
<1> HIDE DEF U
<1>3. x \in Nat /\ y \in Nat /\ x <= n /\ y <= n
  BY <1>2
<1>4. Picked(A, U, 1, x)
  <2>1. 1 \in Nat /\ 1 <= 1 /\ x <= x /\ \A i \in 1..x : U[i] = S[i]
    <3>1. \A i \in 1..x : i \in 1..n
      BY <1>2, <1>3
    <3> QED BY <1>2, <1>3, <3>1
  <2>2. Picked(A, S, 1, x)
    BY <1>1
  <2> HIDE DEF n
  <2> QED BY <1>3, <2>1, <2>2, PickedWider
<1>5. Stream(L, U, x + 1, y, r)
  <2>1. \A i \in (x + 1)..y : U[i] = S[i]
    BY <1>2, <1>3
  <2>2. PICK l : l = x + 1
    OBVIOUS
  <2>3. l \in Nat /\ l <= l /\ y <= y /\ \A i \in l..y : U[i] = S[i]
    BY <1>3, <2>1, <2>2
  <2>5. Stream(L, S, l, y, r)
    BY <1>1, <2>2
  <2> HIDE DEF n
  <2>4. Stream(L, U, l, y, r)
    BY <1>3, <2>3, <2>5, StreamWider
  <2> QED BY <2>2, <2>4
<1>6. PICK l : l = y + 1
  OBVIOUS
<1>7. Stream(O, U, l, n, EmptyReader)
  <2>1. l \in Nat /\ l <= l /\ n <= n /\ \A i \in l..n : U[i] = S[i]
    BY <1>2, <1>3, <1>6
  <2>2. Stream(O, S, l, n, EmptyReader)
    BY <1>1, <1>6
  <2> HIDE DEF n
  <2> QED BY <1>2, <2>1, <2>2, StreamWider
<1>8. PICK k : k = n + 1
  OBVIOUS
<1>9. Stream(WireMessages(m), U, k, k, EmptyReader)
  BY <1>2, <1>8, StreamOf
<1>10. Stream(O \o WireMessages(m), U, l, k, EmptyReader)
  <2>1. /\ l \in 1..Len(U) + 1 /\ n \in 0..Len(U) /\ k \in 0..Len(U) /\ l <= n + 1 /\ n <= k
    BY <1>2, <1>3, <1>6, <1>8
  <2>2. Stream(WireMessages(m), U, n + 1, k, EmptyReader)
    BY <1>8, <1>9
  <2>3. WireMessages(m) \in Seq(Packet)
    BY PacketsOf
  <2> QED BY <1>2, <1>7, <2>1, <2>2, <2>3, StreamJoin
<1>11. x \in 0..Len(U) /\ y \in 0..Len(U)
  BY <1>2, <1>3
<1>12. Flow(A, U, L, O \o WireMessages(m), r)
  BY <1>1, <1>2, <1>4, <1>5, <1>6, <1>8, <1>10, <1>11 DEF Flow
<1> QED BY <1>12 DEF U

LEMMA FlowFlush ==
  ASSUME NEW A \in Seq(Msgs), NEW S \in Seq(Msgs), NEW L \in Seq(Packet), NEW O \in Seq(Packet),
         NEW r, Flow(A, S, L, O, r)
  PROVE  Flow(A, S, L \o O, <<>>, r)
<1>1. PICK x \in 0..Len(S), y \in 0..Len(S) :
         x <= y /\ Picked(A, S, 1, x) /\ Stream(L, S, x + 1, y, r)
         /\ Stream(O, S, y + 1, Len(S), EmptyReader)
  BY DEF Flow
<1>2. PICK n : n = Len(S)
  OBVIOUS
<1>3. n \in Nat /\ n \in 0..Len(S) /\ x <= n /\ y <= n
  BY <1>2, LenProperties
<1>4. PICK l : l = x + 1
  OBVIOUS
<1>5. l \in 1..Len(S) + 1 /\ l <= y + 1
  BY <1>1, <1>2, <1>3, <1>4
<1>6. Stream(L, S, l, y, r) /\ Stream(O, S, y + 1, n, EmptyReader)
  BY <1>1, <1>2, <1>4
<1>7. Stream(L \o O, S, l, n, r)
  BY <1>3, <1>5, <1>6, StreamJoin
<1>8. Stream(<<>>, S, n + 1, Len(S), EmptyReader)
  BY StreamNone
<1> QED BY <1>1, <1>3, <1>4, <1>7, <1>8 DEF Flow

\* What is under way is lost, whatever the reader then has.
LEMMA FlowLost ==
  ASSUME NEW A \in Seq(Msgs), NEW S \in Seq(Msgs), NEW L \in Seq(Packet), NEW O \in Seq(Packet),
         NEW r, NEW e, Flow(A, S, L, O, r)
  PROVE  Flow(A, S, <<>>, O, e) /\ Flow(A, S, <<>>, <<>>, e)
<1>1. PICK x \in 0..Len(S), y \in 0..Len(S) :
         x <= y /\ Picked(A, S, 1, x) /\ Stream(L, S, x + 1, y, r)
         /\ Stream(O, S, y + 1, Len(S), EmptyReader)
  BY DEF Flow
<1>2. Stream(<<>>, S, x + 1, y, e) /\ Stream(<<>>, S, y + 1, Len(S), EmptyReader)
  BY StreamNone
<1> QED BY <1>1, <1>2 DEF Flow

\* What waits to be sent is lost.
LEMMA FlowDropped ==
  ASSUME NEW A \in Seq(Msgs), NEW S \in Seq(Msgs), NEW L \in Seq(Packet), NEW O \in Seq(Packet),
         NEW r, Flow(A, S, L, O, r)
  PROVE  Flow(A, S, L, <<>>, r)
<1>1. PICK x \in 0..Len(S), y \in 0..Len(S) :
         x <= y /\ Picked(A, S, 1, x) /\ Stream(L, S, x + 1, y, r)
  BY DEF Flow
<1>2. Stream(<<>>, S, y + 1, Len(S), EmptyReader)
  BY StreamNone
<1> QED BY <1>1, <1>2 DEF Flow

LEMMA FlowForgotten ==
  ASSUME NEW A \in Seq(Msgs), NEW B \in Seq(Msgs), NEW S \in Seq(Msgs), NEW L, NEW O,
         NEW r, Flow(A \o B, S, L, O, r)
  PROVE  Flow(A, S, L, O, r)
<1>1. PICK x \in 0..Len(S), y \in 0..Len(S) :
         x <= y /\ Picked(A \o B, S, 1, x) /\ Stream(L, S, x + 1, y, r)
         /\ Stream(O, S, y + 1, Len(S), EmptyReader)
  BY DEF Flow
<1>2. x \in Nat
  BY LenProperties
<1>3. Picked(A, S, 1, x)
  BY <1>1, <1>2, PickedStart
<1> QED BY <1>1, <1>3 DEF Flow

\* The next packet is the one the reader waits for: the last of a message, or one of the others.
LEMMA FlowHead ==
  ASSUME NEW A \in Seq(Msgs), NEW S \in Seq(Msgs), NEW L \in Seq(Packet), L # <<>>,
         NEW O \in Seq(Packet), NEW r, Flow(A, S, L, O, r)
  PROVE  \E m \in Msgs : \E j \in 1..Count(m) :
            /\ Head(L) = Segment(m, j) /\ (j = 1 \/ Holds(r, m, j))
            /\ j = Count(m) => \A e : Flow(Append(A, m), S, Tail(L), O, e)
            /\ j < Count(m) => \A e : Holds(e, m, j + 1) => Flow(A, S, Tail(L), O, e)
<1>1. PICK x \in 0..Len(S), y \in 0..Len(S) :
         x <= y /\ Picked(A, S, 1, x) /\ Stream(L, S, x + 1, y, r)
         /\ Stream(O, S, y + 1, Len(S), EmptyReader)
  BY DEF Flow
<1>2. PICK l : l = x + 1
  OBVIOUS
<1>3. Len(S) \in Nat /\ x \in Nat /\ y \in Nat /\ l \in 1..Len(S) + 1 /\ l \in Nat
  BY <1>2, LenProperties
<1>4. Stream(L, S, l, y, r)
  BY <1>1, <1>2
<1>5. PICK i \in l..y : \E j \in 1..Count(S[i]) :
         /\ Head(L) = Segment(S[i], j) /\ (j = 1 \/ Holds(r, S[i], j))
         /\ j = Count(S[i]) => \A e : Stream(Tail(L), S, i + 1, y, e)
         /\ j < Count(S[i]) => \A e : Holds(e, S[i], j + 1) => Stream(Tail(L), S, i, y, e)
  BY <1>3, <1>4, StreamHead
<1>6. i \in Nat /\ i \in 1..Len(S) /\ x < i /\ i <= y /\ i \in 0..Len(S)
  BY <1>2, <1>3, <1>5
<1>7. PICK m : m = S[i]
  OBVIOUS
<1>8. m \in Msgs
  BY <1>6, <1>7, ElementOfSeq
<1>9. PICK j \in 1..Count(m) :
         /\ Head(L) = Segment(m, j) /\ (j = 1 \/ Holds(r, m, j))
         /\ j = Count(m) => \A e : Stream(Tail(L), S, i + 1, y, e)
         /\ j < Count(m) => \A e : Holds(e, m, j + 1) => Stream(Tail(L), S, i, y, e)
  BY <1>5, <1>7
<1>10. ASSUME j = Count(m), NEW e PROVE Flow(Append(A, m), S, Tail(L), O, e)
  <2>1. Picked(Append(A, S[i]), S, 1, i)
    <3>1. S[i] \in Msgs /\ 1 \in Nat /\ 1 <= i
      BY <1>6, <1>7, <1>8
    <3> QED BY <1>1, <1>3, <1>6, <3>1, PickedAppend
  <2>2. Stream(Tail(L), S, i + 1, y, e)
    BY <1>9, <1>10
  <2> QED BY <1>1, <1>6, <1>7, <2>1, <2>2 DEF Flow
<1>11. ASSUME j < Count(m), NEW e, Holds(e, m, j + 1) PROVE Flow(A, S, Tail(L), O, e)
  <2>1. Stream(Tail(L), S, i, y, e)
    BY <1>9, <1>11
  <2>2. Tail(L) \in Seq(Packet)
    BY HeadTailProperties
  <2>3. Stream(Tail(L), S, l, y, e)
    <3>1. l <= i /\ y <= y
      BY <1>3, <1>5, <1>6
    <3>2. \A k \in i..y : S[k] = S[k]
      OBVIOUS
    <3> QED BY <1>3, <1>6, <2>1, <2>2, <3>1, <3>2, StreamWider
  <2> QED BY <1>1, <1>2, <2>3 DEF Flow
<1> QED BY <1>8, <1>9, <1>10, <1>11

-----------------------------------------------------------------------------
(* Queues.                                                                 *)

LEMMA AppendHead ==
  ASSUME NEW X, NEW s \in Seq(X), NEW t \in Seq(X), t # <<>>
  PROVE  Append(s, Head(t)) \o Tail(t) = s \o t
<1>1. Head(t) \in X /\ Tail(t) \in Seq(X) /\ Len(Tail(t)) = Len(t) - 1
  BY HeadTailProperties
<1>2. <<Head(t)>> \in Seq(X)
  BY <1>1
<1>3. Append(s, Head(t)) = s \o <<Head(t)>>
  BY <1>1, AppendIsConcat
<1>4. <<Head(t)>> \o Tail(t) = t
  <2>1. Len(t) \in Nat /\ Len(t) >= 1 /\ Head(t) = t[1]
    BY EmptySeq, LenProperties
  <2>2. 1 \in 1..Len(t) /\ Len(t) \in 1..Len(t)
    BY <2>1
  <2>3. SubSeq(t, 1, Len(t)) = <<t[1]>> \o SubSeq(t, 1 + 1, Len(t))
    BY <2>2, SubSeqRecursiveFirst
  <2>4. SubSeq(t, 1, Len(t)) = t /\ Tail(t) = SubSeq(t, 2, Len(t))
    BY SubSeqFull, TailIsSubSeq
  <2> QED BY <2>1, <2>3, <2>4
<1>5. PICK h, l : h = <<Head(t)>> /\ l = Tail(t)
  OBVIOUS
<1>6. h \in Seq(X) /\ l \in Seq(X)
  BY <1>1, <1>2, <1>5
<1>7. (s \o h) \o l = s \o (h \o l)
  BY <1>6, ConcatAssociative
<1> QED BY <1>3, <1>4, <1>5, <1>7

LEMMA AppendLast ==
  ASSUME NEW X, NEW s \in Seq(X), NEW t \in Seq(X), NEW e \in X
  PROVE  s \o Append(t, e) = Append(s \o t, e)
<1>1. <<e>> \in Seq(X)
  OBVIOUS
<1>2. Append(t, e) = t \o <<e>>
  BY AppendIsConcat, Zenon
<1>3. s \o t \in Seq(X)
  BY ConcatProperties
<1>4. Append(s \o t, e) = (s \o t) \o <<e>>
  BY <1>3, AppendIsConcat, Zenon
<1>5. PICK h : h = <<e>>
  OBVIOUS
<1>6. (s \o t) \o h = s \o (t \o h)
  BY <1>1, <1>5, ConcatAssociative
<1> QED BY <1>2, <1>4, <1>5, <1>6

LEMMA AppendNew ==
  ASSUME NEW X, NEW s \in Seq(X), NEW e \in X
  PROVE  /\ Append(s, e) \in Seq(X)
         /\ Range(Append(s, e)) = Range(s) \union {e}
         /\ IsInjective(s) /\ e \notin Range(s) => IsInjective(Append(s, e))
<1> DEFINE u == Append(s, e)
           n == Len(s)
<1>1. /\ u \in Seq(X) /\ n \in Nat /\ Len(u) = n + 1 /\ u[n + 1] = e
      /\ \A i \in 1..n : u[i] = s[i]
  BY AppendProperties, LenProperties
<1>2. DOMAIN u = 1..(n + 1) /\ DOMAIN s = 1..n
  BY <1>1, LenProperties
<1> HIDE DEF u, n
<1>3. \A i \in 1..(n + 1) : i \in 1..n \/ i = n + 1
  BY <1>1
<1>4. Range(s) = {s[i] : i \in 1..n} /\ Range(u) = {u[i] : i \in 1..(n + 1)}
  BY <1>2 DEF Range
<1>5. \A i \in 1..n : i \in 1..(n + 1)
  BY <1>1
<1>6. n + 1 \in 1..(n + 1)
  BY <1>1
<1>7. Range(u) = Range(s) \union {e}
  <2>1. ASSUME NEW v \in Range(u) PROVE v \in Range(s) \union {e}
    <3>1. PICK i \in 1..(n + 1) : v = u[i]
      BY <1>4
    <3> QED BY <1>1, <1>3, <1>4, <3>1
  <2>2. ASSUME NEW v \in Range(s) PROVE v \in Range(u)
    <3>1. PICK i \in 1..n : v = s[i]
      BY <1>4
    <3>2. v = u[i] /\ i \in 1..(n + 1)
      BY <1>1, <1>5, <3>1
    <3> QED BY <1>4, <3>2
  <2>3. e \in Range(u)
    BY <1>1, <1>4, <1>6
  <2> QED BY <2>1, <2>2, <2>3
<1>8. ASSUME IsInjective(s), e \notin Range(s) PROVE IsInjective(u)
  <2> SUFFICES ASSUME NEW i \in 1..(n + 1), NEW j \in 1..(n + 1), u[i] = u[j] PROVE i = j
    BY <1>2 DEF IsInjective
  <2>1. \A k \in 1..n : u[k] # e
    BY <1>1, <1>4, <1>8
  <2>2. \A k, l \in 1..n : s[k] = s[l] => k = l
    BY <1>2, <1>8 DEF IsInjective
  <2> QED BY <1>1, <1>3, <2>1, <2>2
<1> QED BY <1>1, <1>7, <1>8 DEF u

LEMMA Removed ==
  ASSUME NEW X, NEW s \in Seq(X), NEW i \in 1..Len(s)
  PROVE  /\ RemoveAt(s, i) \in Seq(X)
         /\ Range(RemoveAt(s, i)) \subseteq Range(s)
         /\ IsInjective(s) => IsInjective(RemoveAt(s, i)) /\ s[i] \notin Range(RemoveAt(s, i))
<1> DEFINE n == Len(s)
           P == SubSeq(s, 1, i - 1)
           Q == SubSeq(s, i + 1, n)
           u == P \o Q
<1>1. RemoveAt(s, i) = u
  BY DEF RemoveAt
<1>2. n \in Nat /\ i \in 1..n /\ DOMAIN s = 1..n /\ \A k \in 1..n : s[k] \in X
  BY LenProperties, ElementOfSeq
<1>3. P \in Seq(X) /\ Len(P) = i - 1 /\ \A k \in 1..(i - 1) : P[k] = s[k]
  <2>1. \A k \in 1..(i - 1) : s[k] \in X
    BY <1>2
  <2>2. PICK h : h = i - 1
    OBVIOUS
  <2>3. h \in Int /\ 1 \in Int /\ \A k \in 1..h : s[k] \in X
    BY <1>2, <2>1, <2>2
  <2>4. /\ SubSeq(s, 1, h) \in Seq(X)
        /\ Len(SubSeq(s, 1, h)) = IF 1 <= h THEN h - 1 + 1 ELSE 0
        /\ \A k \in 1..h - 1 + 1 : SubSeq(s, 1, h)[k] = s[1 + k - 1]
    BY <2>3, SubSeqProperties
  <2>5. h \in Nat /\ h - 1 + 1 = h /\ \A k \in 1..h : 1 + k - 1 = k
    BY <1>2, <2>2
  <2> QED BY <2>2, <2>4, <2>5
<1>4. Q \in Seq(X) /\ Len(Q) = n - i /\ \A k \in 1..(n - i) : Q[k] = s[i + k]
  <2>1. PICK h : h = i + 1
    OBVIOUS
  <2>2. h \in Int /\ n \in Int /\ \A k \in h..n : s[k] \in X
    BY <1>2, <2>1
  <2>3. /\ SubSeq(s, h, n) \in Seq(X)
        /\ Len(SubSeq(s, h, n)) = IF h <= n THEN n - h + 1 ELSE 0
        /\ \A k \in 1..n - h + 1 : SubSeq(s, h, n)[k] = s[h + k - 1]
    BY <2>2, SubSeqProperties
  <2>4. n - h + 1 = n - i /\ \A k \in 1..(n - i) : h + k - 1 = i + k
    BY <1>2, <2>1
  <2>5. Len(SubSeq(s, h, n)) = n - i
    <3>1. PICK len : len = Len(SubSeq(s, h, n))
      OBVIOUS
    <3>2. len = IF h <= n THEN n - h + 1 ELSE 0
      BY <2>3, <3>1
    <3> HIDE DEF n
    <3>3. len = n - i
      BY <1>2, <2>1, <3>2
    <3> QED BY <3>1, <3>3
  <2>6. \A k \in 1..(n - i) : SubSeq(s, h, n)[k] = s[i + k]
    BY <2>3, <2>4
  <2> QED BY <2>1, <2>3, <2>5, <2>6
<1> DEFINE f == [k \in 1..(n - 1) |-> IF k < i THEN k ELSE k + 1]
<1>5. u \in Seq(X) /\ Len(u) = n - 1 /\ DOMAIN u = 1..(n - 1)
  <2>1. u \in Seq(X) /\ Len(u) = Len(P) + Len(Q)
    BY <1>3, <1>4, ConcatProperties, Zenon
  <2>2. Len(u) = n - 1
    BY <1>2, <1>3, <1>4, <2>1
  <2> QED BY <2>1, <2>2, LenProperties
<1>6. \A k \in 1..(n - 1) : f[k] \in 1..n /\ f[k] # i
  BY <1>2
<1>7. ASSUME NEW k \in 1..(n - 1) PROVE u[k] = s[f[k]]
  <2>1. \A l \in 1..Len(P) + Len(Q) : u[l] = IF l <= Len(P) THEN P[l] ELSE Q[l - Len(P)]
    BY <1>3, <1>4, ConcatProperties, Zenon
  <2>2. k \in 1..Len(P) + Len(Q)
    <3> HIDE DEF n, P, Q
    <3>1. Len(P) + Len(Q) = n - 1
      BY <1>2, <1>3, <1>4
    <3> QED BY <3>1
  <2> HIDE DEF u, P, Q
  <2>3. u[k] = IF k <= i - 1 THEN P[k] ELSE Q[k - (i - 1)]
    BY <1>3, <2>1, <2>2
  <2>4. CASE k < i
    <3>1. k <= i - 1 /\ k \in 1..(i - 1) /\ f[k] = k
      BY <1>2, <2>4
    <3> QED BY <1>3, <2>3, <3>1
  <2>5. CASE ~(k < i)
    <3>1. PICK l : l = k - (i - 1)
      OBVIOUS
    <3>2. ~(k <= i - 1) /\ l \in 1..(n - i) /\ f[k] = k + 1 /\ i + l = k + 1
      BY <1>2, <2>5, <3>1
    <3>3. u[k] = Q[l]
      BY <2>3, <3>1, <3>2
    <3> QED BY <1>4, <3>2, <3>3
  <2> QED BY <2>4, <2>5
<1>8. \A k, l \in 1..(n - 1) : f[k] = f[l] => k = l
  BY <1>2
<1> HIDE DEF n, u, f
<1>9. Range(u) = {u[k] : k \in 1..(n - 1)} /\ Range(s) = {s[k] : k \in 1..n}
  BY <1>2, <1>5 DEF Range
<1>10. Range(u) \subseteq Range(s)
  BY <1>6, <1>7, <1>9
<1>11. ASSUME IsInjective(s) PROVE IsInjective(u) /\ s[i] \notin Range(u)
  <2>1. \A k, l \in 1..n : s[k] = s[l] => k = l
    BY <1>2, <1>11 DEF IsInjective
  <2>2. ASSUME NEW k \in 1..(n - 1), NEW l \in 1..(n - 1), u[k] = u[l] PROVE k = l
    BY <1>6, <1>7, <1>8, <2>1, <2>2
  <2>3. s[i] \notin Range(u)
    <3> SUFFICES ASSUME NEW k \in 1..(n - 1), s[i] = u[k] PROVE FALSE
      BY <1>9
    <3> QED BY <1>2, <1>6, <1>7, <2>1
  <2>4. IsInjective(u)
    BY <1>5, <2>2 DEF IsInjective
  <2> QED BY <2>3, <2>4
<1> QED BY <1>1, <1>5, <1>10, <1>11

LEMMA TwoParties ==
  ASSUME NEW n \in Nodes
  PROVE  /\ Peer(n) \in Nodes /\ Peer(n) # n /\ Peer(Peer(n)) = n
         /\ \A k \in Nodes : k = n \/ k = Peer(n)
<1>1. PICK a, b \in Nodes : a # b /\ Nodes = {a, b}
  BY PartiesAssumption
<1>2. ASSUME NEW k \in Nodes PROVE Peer(k) \in Nodes /\ Peer(k) # k
  <2>1. \E p \in Nodes : p # k
    BY <1>1
  <2> QED BY <2>1 DEF Peer
<1> QED BY <1>1, <1>2

-----------------------------------------------------------------------------
(* The inductive invariant.                                                *)

Reader == {r \in [data : Seq(Byte), remaining : 0..(MaxSegments - 1)] :
              r.remaining = 0 <=> r.data = <<>>}

Wire == IF transport = "lightning" THEN Packet ELSE Msgs

Typed ==
    /\ transport \in Transports
    /\ up \in [Nodes -> BOOLEAN]
    /\ connected \in BOOLEAN
    /\ broken \in [Nodes -> BOOLEAN] /\ seized \in [Nodes -> BOOLEAN]
    /\ faults \in 0..MaxFaults
    /\ outbox \in [Nodes -> Seq(Packet)]
    /\ link \in [Nodes -> Seq(Wire)]
    /\ reader \in [Nodes -> Reader]
    /\ received \in [Nodes -> Seq(Msgs)]
    /\ batch \in [Nodes -> Seq(Msgs)]
    /\ reply \in [Nodes -> Msgs \cup {NoReply}]
    /\ sent \in [Nodes -> Seq(Msgs)]
    /\ handled \in [Nodes -> Seq(Msgs)]

\* Each transport uses its own queues, and no connection means nothing on the way.
Apart ==
    /\ connected => transport = "lightning" /\ \A n \in Nodes : up[n]
    /\ transport = "lightning" /\ ~connected => \A n \in Nodes : link[n] = <<>>
    /\ transport # "lightning" =>
          \A n \in Nodes : outbox[n] = <<>> /\ received[n] = <<>> /\ batch[n] = <<>>
    /\ transport # "memory" => \A n \in Nodes : reply[n] = NoReply
    /\ transport = "memory" => \A n \in Nodes : up[n] /\ Len(link[n]) <= Capacity

FlowTo(n) == Flow(Arrived(n), sent[Peer(n)], link[Peer(n)], outbox[Peer(n)], reader[n])

OverLightning == transport = "lightning" => \A n \in Nodes : FlowTo(n)

\* What a relay has for a node is new to it, because nothing is sent twice: an
\* opening message is not, and an answer is to one message, which is handled once.
Fresh(h, l, s) ==
    /\ IsInjective(h) /\ IsInjective(l)
    /\ \A m \in Range(l) : m \notin Range(h) /\ m \in Range(s)
    /\ \A m \in Range(h) : m \in Range(s)

Caused(n, s, h) ==
    \A m \in Range(s) : m \in Openings[n] \/ \E k \in Range(h) : m = Replies[k]

OverNostr ==
    transport = "nostr" =>
        \A n \in Nodes : /\ Fresh(handled[n], link[Peer(n)], sent[Peer(n)])
                         /\ Caused(n, sent[n], handled[n])

\* The channel in memory loses nothing.
InMemory == transport = "memory" => \A n \in Nodes : sent[Peer(n)] = handled[n] \o link[Peer(n)]

DeliveryInv == Typed /\ Apart /\ OverLightning /\ OverNostr /\ InMemory

LEMMA ArrivedIn ==
  ASSUME Typed, NEW n \in Nodes
  PROVE  /\ Arrived(n) \in Seq(Msgs) /\ handled[n] \o batch[n] \in Seq(Msgs)
         /\ batch[n] = <<>> /\ received[n] = <<>> => Arrived(n) = handled[n]
<1>1. handled[n] \in Seq(Msgs) /\ batch[n] \in Seq(Msgs) /\ received[n] \in Seq(Msgs)
  BY DEF Typed
<1>2. handled[n] \o batch[n] \in Seq(Msgs)
  BY <1>1, ConcatProperties
<1>3. (handled[n] \o batch[n]) \o received[n] \in Seq(Msgs)
  BY <1>1, <1>2, ConcatProperties
<1>4. handled[n] \o <<>> = handled[n]
  BY <1>1, ConcatEmptySeq
<1> QED BY <1>2, <1>3, <1>4 DEF Arrived

LEMMA EmptyReaderIn == EmptyReader \in Reader
<1>1. <<>> \in Seq(Byte) /\ 0 \in 0..(MaxSegments - 1)
  BY SizesAssumption
<1> QED BY <1>1 DEF EmptyReader, Reader

LEMMA DeliveryInit == Init => DeliveryInv
<1> SUFFICES ASSUME Init PROVE DeliveryInv
  OBVIOUS
<1>1. Typed
  <2>1. EmptyReader \in Reader
    BY EmptyReaderIn
  <2>2. 0 \in 0..MaxFaults
    BY SizesAssumption
  <2>3. /\ transport \in Transports /\ up \in [Nodes -> BOOLEAN] /\ connected \in BOOLEAN
        /\ broken \in [Nodes -> BOOLEAN] /\ seized \in [Nodes -> BOOLEAN]
        /\ reader \in [Nodes -> Reader]
        /\ reply \in [Nodes -> Msgs \cup {NoReply}] /\ faults \in 0..MaxFaults
    BY <2>1, <2>2 DEF Init
  <2>4. <<>> \in Seq(Packet) /\ <<>> \in Seq(Msgs) /\ <<>> \in Seq(Wire)
    BY EmptySeq
  <2>5. outbox \in [Nodes -> Seq(Packet)] /\ link \in [Nodes -> Seq(Wire)]
    BY <2>4 DEF Init
  <2>6. /\ received \in [Nodes -> Seq(Msgs)] /\ batch \in [Nodes -> Seq(Msgs)]
        /\ sent \in [Nodes -> Seq(Msgs)] /\ handled \in [Nodes -> Seq(Msgs)]
    BY <2>4 DEF Init
  <2> QED BY <2>3, <2>5, <2>6 DEF Typed
<1>2. Apart
  <2>1. Len(<<>>) <= Capacity
    BY SizesAssumption
  <2> QED BY <2>1 DEF Init, Apart
<1>3. ASSUME NEW n \in Nodes
      PROVE  /\ handled[n] = <<>> /\ Arrived(n) = <<>> /\ sent[n] = <<>> /\ sent[Peer(n)] = <<>>
             /\ link[Peer(n)] = <<>> /\ outbox[Peer(n)] = <<>>
  <2>1. Peer(n) \in Nodes
    BY TwoParties
  <2>2. <<>> \o <<>> = <<>>
    OBVIOUS
  <2> QED BY <2>1, <2>2 DEF Init, Arrived
<1>4. OverLightning
  BY <1>3, FlowNone DEF OverLightning, FlowTo
<1>5. Range(<<>>) = {} /\ IsInjective(<<>>)
  BY DEF Range, IsInjective
<1>6. OverNostr
  BY <1>3, <1>5 DEF OverNostr, Fresh, Caused
<1>7. InMemory
  <2>1. <<>> \o <<>> = <<>>
    OBVIOUS
  <2> QED BY <1>3, <2>1 DEF InMemory
<1> QED BY <1>1, <1>2, <1>4, <1>6, <1>7 DEF DeliveryInv

LEMMA PickedAll ==
  ASSUME NEW X, NEW S \in Seq(X)
  PROVE  Picked(S, S, 1, Len(S))
<1> DEFINE o == [k \in 1..Len(S) |-> k]
<1>1. o \in [1..Len(S) -> 1..Len(S)] /\ \A k \in 1..Len(S) : o[k] = k
  OBVIOUS
<1> HIDE DEF o
<1> QED BY <1>1 DEF Picked

LEMMA DeliveryMeans == DeliveryInv => MessagingInv
<1> SUFFICES ASSUME DeliveryInv PROVE MessagingInv
  OBVIOUS
<1>1. Typed /\ Apart /\ OverLightning /\ OverNostr /\ InMemory
  BY DEF DeliveryInv
<1>2. TypeOK
  <2>1. /\ transport \in Transports /\ up \in [Nodes -> BOOLEAN] /\ connected \in BOOLEAN
        /\ (connected => transport = "lightning" /\ \A n \in Nodes : up[n])
        /\ broken \in [Nodes -> BOOLEAN] /\ seized \in [Nodes -> BOOLEAN]
        /\ faults \in 0..MaxFaults
    BY <1>1 DEF Typed, Apart
  <2>2. ASSUME NEW n \in Nodes
        PROVE  /\ reader[n].remaining \in 0..(MaxSegments - 1)
               /\ ExpectingChunk(reader[n]) <=> reader[n].data # <<>>
               /\ Range(sent[n]) \subseteq Msgs
               /\ reply[n] \in Msgs \cup {NoReply}
               /\ transport = "memory" => Len(link[n]) <= Capacity
    <3>1. reader[n] \in Reader
      BY <1>1 DEF Typed
    <3>2. sent[n] \in Seq(Msgs)
      BY <1>1 DEF Typed
    <3>3. Range(sent[n]) \subseteq Msgs
      BY <3>2, RangeOfSeq
    <3>4. reply[n] \in Msgs \cup {NoReply} /\ (transport = "memory" => Len(link[n]) <= Capacity)
      BY <1>1 DEF Typed, Apart
    <3> QED BY <3>1, <3>3, <3>4 DEF Reader, ExpectingChunk
  <2> QED BY <2>1, <2>2 DEF TypeOK
<1>3. ASSUME NEW n \in Nodes
      PROVE  IF transport = "nostr"
             THEN Range(Arrived(n)) \subseteq Range(sent[Peer(n)]) /\ IsInjective(Arrived(n))
             ELSE SubsequenceOf(Arrived(n), sent[Peer(n)])
  <2>1. Peer(n) \in Nodes /\ Arrived(n) \in Seq(Msgs) /\ sent[Peer(n)] \in Seq(Msgs)
        /\ handled[n] \in Seq(Msgs)
    BY <1>1, TwoParties, ArrivedIn DEF Typed
  <2>2. CASE transport = "nostr"
    <3>1. Arrived(n) = handled[n]
      BY <1>1, <2>2, ArrivedIn DEF Apart
    <3> QED BY <1>1, <2>2, <3>1 DEF OverNostr, Fresh
  <2>3. CASE transport = "lightning"
    <3>1. FlowTo(n)
      BY <1>1, <2>3 DEF OverLightning
    <3>2. PICK x \in 0..Len(sent[Peer(n)]) : Picked(Arrived(n), sent[Peer(n)], 1, x)
      BY <3>1 DEF FlowTo, Flow
    <3>3. PICK S, A, h : S = sent[Peer(n)] /\ A = Arrived(n) /\ h = Len(S)
      OBVIOUS
    <3>4. h \in Nat /\ x \in Nat /\ x <= h /\ 1 \in Nat /\ 1 <= 1
      BY <2>1, <3>3, LenProperties
    <3>5. Picked(A, S, 1, h)
      <4>1. Picked(A, S, 1, x) /\ A \in Seq(Msgs) /\ \A i \in 1..x : S[i] = S[i]
        BY <2>1, <3>2, <3>3
      <4> QED BY <3>4, <4>1, PickedWider
    <3>6. S \in Seq(Msgs) /\ A \in Seq(Msgs) /\ Picked(A, S, 1, Len(S))
      BY <2>1, <3>3, <3>5
    <3>7. SubsequenceOf(A, S)
      BY <3>6, PickedIsSubsequence
    <3> QED BY <2>3, <3>3, <3>7
  <2>4. CASE transport = "memory"
    <3>1. Arrived(n) = handled[n]
      BY <1>1, <2>4, ArrivedIn DEF Apart
    <3>2. PICK S, A, L : S = sent[Peer(n)] /\ A = handled[n] /\ L = link[Peer(n)]
      OBVIOUS
    <3>3. S = A \o L
      BY <1>1, <2>4, <3>2 DEF InMemory
    <3>4. S \in Seq(Msgs) /\ A \in Seq(Msgs) /\ L \in Seq(Msgs)
      BY <1>1, <2>1, <2>4, <3>2 DEF Typed, Wire
    <3>5. Picked(A \o L, S, 1, Len(S))
      BY <3>3, <3>4, PickedAll
    <3>6. 1 \in Nat /\ Len(S) \in Nat
      BY <3>4, LenProperties
    <3>7. Picked(A, S, 1, Len(S))
      BY <3>4, <3>5, <3>6, PickedStart
    <3>8. SubsequenceOf(A, S)
      BY <3>4, <3>7, PickedIsSubsequence
    <3> QED BY <2>4, <3>1, <3>2, <3>8
  <2>5. transport \in {"lightning", "nostr", "memory"}
    BY <1>1, PartiesAssumption DEF Typed
  <2> QED BY <2>2, <2>3, <2>4, <2>5
<1>4. DeliveredAsSent
  BY <1>3 DEF DeliveredAsSent
<1> QED BY <1>2, <1>4 DEF MessagingInv

-----------------------------------------------------------------------------
(* Every step keeps it.                                                    *)

LEMMA StutterKeeps == DeliveryInv /\ UNCHANGED vars => DeliveryInv'
<1> SUFFICES ASSUME DeliveryInv, UNCHANGED vars PROVE DeliveryInv'
  OBVIOUS
<1>1. Typed'
  BY DEF DeliveryInv, Typed, Wire, vars
<1>2. Apart'
  BY DEF DeliveryInv, Apart, vars
<1>3. \A n \in Nodes : FlowTo(n)' = FlowTo(n)
  BY DEF FlowTo, Arrived, vars
<1>4. OverLightning'
  BY <1>3 DEF DeliveryInv, OverLightning, vars
<1>5. OverNostr'
  BY DEF DeliveryInv, OverNostr, Fresh, Caused, vars
<1>6. InMemory'
  BY DEF DeliveryInv, InMemory, vars
<1> QED BY <1>1, <1>2, <1>4, <1>5, <1>6 DEF DeliveryInv

LEMMA ConnectKeeps == DeliveryInv /\ Connect => DeliveryInv'
<1> SUFFICES ASSUME DeliveryInv, Connect PROVE DeliveryInv'
  OBVIOUS
<1>1. transport = "lightning" /\ transport' = "lightning"
  BY DEF Connect
<1>2. Typed'
  BY DEF DeliveryInv, Typed, Wire, Connect
<1>3. Apart'
  BY DEF DeliveryInv, Apart, Connect
<1>4. \A n \in Nodes : FlowTo(n)' = FlowTo(n)
  BY DEF FlowTo, Arrived, Connect
<1>5. OverLightning'
  BY <1>1, <1>4 DEF DeliveryInv, OverLightning
<1> QED BY <1>1, <1>2, <1>3, <1>5 DEF DeliveryInv, OverNostr, InMemory

\* What the flow to n is made of.
LEMMA FlowParts ==
  ASSUME Typed, transport = "lightning", NEW n \in Nodes
  PROVE  /\ Peer(n) \in Nodes
         /\ Arrived(n) \in Seq(Msgs) /\ sent[Peer(n)] \in Seq(Msgs)
         /\ link[Peer(n)] \in Seq(Packet) /\ outbox[Peer(n)] \in Seq(Packet)
<1>1. Peer(n) \in Nodes
  BY TwoParties
<1>2. sent[Peer(n)] \in Seq(Msgs) /\ outbox[Peer(n)] \in Seq(Packet)
  BY <1>1 DEF Typed
<1>3. link[Peer(n)] \in Seq(Packet)
  BY <1>1 DEF Typed, Wire
<1> QED BY <1>1, <1>2, <1>3, ArrivedIn

LEMMA DisconnectKeeps == DeliveryInv /\ Disconnect => DeliveryInv'
<1> SUFFICES ASSUME DeliveryInv, Disconnect PROVE DeliveryInv'
  OBVIOUS
<1>1. transport = "lightning" /\ transport' = "lightning"
  BY DEF DeliveryInv, Apart, Disconnect
<1>2. Typed'
  <2>1. <<>> \in Seq(Wire')
    BY EmptySeq
  <2>2. link' \in [Nodes -> Seq(Wire')]
    BY <2>1 DEF Disconnect
  <2>3. faults' \in 0..MaxFaults
    <3>1. faults \in 0..MaxFaults
      BY DEF DeliveryInv, Typed
    <3>2. faults' = faults \/ (faults < MaxFaults /\ faults' = faults + 1)
      BY DEF Disconnect
    <3> QED BY <3>1, <3>2, SizesAssumption
  <2>4. connected' \in BOOLEAN
    BY DEF Disconnect
  <2>5. /\ transport' = transport /\ up' = up /\ outbox' = outbox /\ reader' = reader
        /\ broken' = broken /\ received' = received /\ batch' = batch /\ reply' = reply
        /\ sent' = sent /\ handled' = handled /\ seized' = seized
    BY DEF Disconnect
  <2> QED BY <2>2, <2>3, <2>4, <2>5 DEF DeliveryInv, Typed
<1>3. Apart'
  BY <1>1 DEF DeliveryInv, Apart, Disconnect
<1>4. ASSUME NEW n \in Nodes PROVE FlowTo(n)'
  <2>1. FlowTo(n) /\ Typed
    BY <1>1 DEF DeliveryInv, OverLightning
  <2>2. PICK A, S, L, O, r : /\ A = Arrived(n) /\ S = sent[Peer(n)] /\ L = link[Peer(n)]
                             /\ O = outbox[Peer(n)] /\ r = reader[n]
    OBVIOUS
  <2>3. A \in Seq(Msgs) /\ S \in Seq(Msgs) /\ L \in Seq(Packet) /\ O \in Seq(Packet)
    BY <1>1, <2>1, <2>2, FlowParts
  <2>4. Flow(A, S, L, O, r)
    BY <2>1, <2>2 DEF FlowTo
  <2>5. Flow(A, S, <<>>, O, r)
    BY <2>3, <2>4, FlowLost
  <2>6. /\ Arrived(n)' = A /\ sent'[Peer(n)] = S /\ link'[Peer(n)] = <<>> /\ outbox'[Peer(n)] = O
        /\ reader'[n] = r
    BY <2>2, TwoParties DEF Disconnect, Arrived
  <2> QED BY <2>5, <2>6 DEF FlowTo
<1>5. OverLightning'
  BY <1>4 DEF OverLightning
<1> QED BY <1>1, <1>2, <1>3, <1>5 DEF DeliveryInv, OverNostr, InMemory

LEMMA FlushKeeps == ASSUME NEW n \in Nodes PROVE DeliveryInv /\ Flush(n) => DeliveryInv'
<1> SUFFICES ASSUME DeliveryInv, Flush(n) PROVE DeliveryInv'
  OBVIOUS
<1>1. Typed /\ Apart /\ OverLightning
  BY DEF DeliveryInv
<1>2. transport = "lightning" /\ transport' = "lightning"
  BY <1>1 DEF Apart, Flush
<1>3. /\ outbox \in [Nodes -> Seq(Packet)] /\ link \in [Nodes -> Seq(Packet)]
      /\ outbox[n] \in Seq(Packet) /\ link[n] \in Seq(Packet)
  BY <1>1, <1>2 DEF Typed, Wire
<1>4. /\ outbox' = [outbox EXCEPT ![n] = <<>>]
      /\ link' = [link EXCEPT ![n] = link[n] \o outbox[n]] \/ link' = link
      /\ seized' = seized \/ seized' = [seized EXCEPT ![n] = TRUE]
  BY DEF Flush
<1>5. link[n] \o outbox[n] \in Seq(Packet)
  BY <1>3, ConcatProperties
<1>6. Typed'
  <2>1. outbox' \in [Nodes -> Seq(Packet)]
    BY <1>3, <1>4, EmptySeq
  <2>2. link' \in [Nodes -> Seq(Packet)]
    BY <1>3, <1>4, <1>5
  <2>3. Wire' = Packet
    BY <1>2 DEF Wire
  <2>4. seized' \in [Nodes -> BOOLEAN]
    BY <1>1, <1>4 DEF Typed
  <2> QED BY <1>1, <2>1, <2>2, <2>3, <2>4 DEF Typed, Flush
<1>7. Apart'
  <2>1. ~connected => link' = link
    BY DEF Flush
  <2> QED BY <1>1, <1>2, <2>1 DEF Apart, Flush
<1>8. ASSUME NEW k \in Nodes PROVE FlowTo(k)'
  <2>1. FlowTo(k)
    BY <1>1, <1>2 DEF OverLightning
  <2>2. PICK A, S, L, O, r : /\ A = Arrived(k) /\ S = sent[Peer(k)] /\ L = link[Peer(k)]
                             /\ O = outbox[Peer(k)] /\ r = reader[k]
    OBVIOUS
  <2>3. A \in Seq(Msgs) /\ S \in Seq(Msgs) /\ L \in Seq(Packet) /\ O \in Seq(Packet)
    BY <1>1, <1>2, <2>2, FlowParts
  <2>4. Flow(A, S, L, O, r)
    BY <2>1, <2>2 DEF FlowTo
  <2>5. Arrived(k)' = A /\ sent'[Peer(k)] = S /\ reader'[k] = r
    BY <2>2 DEF Flush, Arrived
  <2>6. CASE Peer(k) # n
    <3>1. link'[Peer(k)] = L /\ outbox'[Peer(k)] = O
      BY <1>3, <1>4, <2>2, <2>6, TwoParties
    <3> QED BY <2>4, <2>5, <3>1 DEF FlowTo
  <2>7. CASE Peer(k) = n /\ link' = [link EXCEPT ![n] = link[n] \o outbox[n]]
    <3>1. link'[Peer(k)] = L \o O /\ outbox'[Peer(k)] = <<>>
      BY <1>3, <1>4, <2>2, <2>7
    <3>2. Flow(A, S, L \o O, <<>>, r)
      BY <2>3, <2>4, FlowFlush
    <3> QED BY <2>5, <3>1, <3>2 DEF FlowTo
  <2>8. CASE Peer(k) = n /\ link' = link
    <3>1. link'[Peer(k)] = L /\ outbox'[Peer(k)] = <<>>
      BY <1>3, <1>4, <2>2, <2>8
    <3>2. Flow(A, S, L, <<>>, r)
      BY <2>3, <2>4, FlowDropped
    <3> QED BY <2>5, <3>1, <3>2 DEF FlowTo
  <2> QED BY <1>4, <2>6, <2>7, <2>8
<1>9. OverLightning'
  BY <1>8 DEF OverLightning
<1> QED BY <1>2, <1>6, <1>7, <1>9 DEF DeliveryInv, OverNostr, InMemory

\* Over lightning a party that is not connected sends nothing, nor one whose handler is stuck.
LEMMA LightningSend ==
  ASSUME Typed, transport = "lightning", OverLightning, NEW n \in Nodes, NEW m \in Msgs,
         SendLightning(n, m), UNCHANGED <<transport, link, reader>>,
         \A k \in Nodes : Arrived(k)' = Arrived(k)
  PROVE  /\ outbox' \in [Nodes -> Seq(Packet)] /\ sent' \in [Nodes -> Seq(Msgs)]
         /\ OverLightning'
<1>1. outbox \in [Nodes -> Seq(Packet)] /\ sent \in [Nodes -> Seq(Msgs)]
  BY DEF Typed
<1>2. CASE ~(connected /\ ~seized[n])
  <2>1. outbox' = outbox /\ sent' = sent
    BY <1>2 DEF SendLightning
  <2>2. \A k \in Nodes : FlowTo(k)' = FlowTo(k)
    BY <2>1 DEF FlowTo
  <2> QED BY <1>1, <2>1, <2>2 DEF OverLightning
<1>3. CASE connected /\ ~seized[n]
  <2>1. /\ outbox' = [outbox EXCEPT ![n] = outbox[n] \o WireMessages(m)]
        /\ sent' = [sent EXCEPT ![n] = Append(sent[n], m)]
    BY <1>3 DEF SendLightning, Enqueue, Remember
  <2>2. outbox[n] \o WireMessages(m) \in Seq(Packet)
    BY <1>1, PacketsOf, ConcatProperties
  <2>3. Append(sent[n], m) \in Seq(Msgs)
    BY <1>1, AppendProperties
  <2>4. outbox' \in [Nodes -> Seq(Packet)] /\ sent' \in [Nodes -> Seq(Msgs)]
    BY <1>1, <2>1, <2>2, <2>3
  <2>5. ASSUME NEW k \in Nodes PROVE FlowTo(k)'
    <3>1. FlowTo(k)
      BY DEF OverLightning
    <3>2. PICK A, S, L, O, r : /\ A = Arrived(k) /\ S = sent[Peer(k)] /\ L = link[Peer(k)]
                               /\ O = outbox[Peer(k)] /\ r = reader[k]
      OBVIOUS
    <3>3. A \in Seq(Msgs) /\ S \in Seq(Msgs) /\ L \in Seq(Packet) /\ O \in Seq(Packet)
      BY <3>2, FlowParts
    <3>4. Flow(A, S, L, O, r)
      BY <3>1, <3>2 DEF FlowTo
    <3>5. Arrived(k)' = A /\ link'[Peer(k)] = L /\ reader'[k] = r
      BY <3>2
    <3>6. CASE Peer(k) # n
      <4>1. sent'[Peer(k)] = S /\ outbox'[Peer(k)] = O
        BY <1>1, <2>1, <3>2, <3>6, TwoParties
      <4> QED BY <3>4, <3>5, <4>1 DEF FlowTo
    <3>7. CASE Peer(k) = n
      <4>1. sent'[Peer(k)] = Append(S, m) /\ outbox'[Peer(k)] = O \o WireMessages(m)
        BY <1>1, <2>1, <3>2, <3>7
      <4>2. Flow(A, Append(S, m), L, O \o WireMessages(m), r)
        BY <3>3, <3>4, FlowSend
      <4> QED BY <3>5, <4>1, <4>2 DEF FlowTo
    <3> QED BY <3>6, <3>7
  <2> QED BY <2>4, <2>5 DEF OverLightning
<1> QED BY <1>2, <1>3

LEMMA FreshSent ==
  ASSUME NEW h \in Seq(Msgs), NEW l \in Seq(Msgs), NEW s \in Seq(Msgs), Fresh(h, l, s),
         NEW m \in Msgs, m \notin Range(s)
  PROVE  Fresh(h, l, Append(s, m)) /\ Fresh(h, Append(l, m), Append(s, m))
<1>1. Range(Append(s, m)) = Range(s) \union {m} /\ Range(Append(l, m)) = Range(l) \union {m}
  BY AppendNew
<1>2. m \notin Range(l) /\ m \notin Range(h)
  BY DEF Fresh
<1>3. IsInjective(Append(l, m))
  BY <1>2, AppendNew DEF Fresh
<1> QED BY <1>1, <1>2, <1>3 DEF Fresh

LEMMA FreshTaken ==
  ASSUME NEW h \in Seq(Msgs), NEW l \in Seq(Msgs), NEW s, Fresh(h, l, s), NEW i \in 1..Len(l)
  PROVE  /\ l[i] \in Msgs /\ l[i] \notin Range(h)
         /\ RemoveAt(l, i) \in Seq(Msgs)
         /\ Fresh(h, RemoveAt(l, i), s) /\ Fresh(Append(h, l[i]), RemoveAt(l, i), s)
<1>1. /\ RemoveAt(l, i) \in Seq(Msgs) /\ Range(RemoveAt(l, i)) \subseteq Range(l)
      /\ IsInjective(RemoveAt(l, i)) /\ l[i] \notin Range(RemoveAt(l, i))
  BY Removed DEF Fresh
<1>2. l[i] \in Msgs /\ l[i] \in Range(l)
  BY ElementOfSeq, RangeEquality
<1>3. l[i] \notin Range(h) /\ l[i] \in Range(s)
  BY <1>2 DEF Fresh
<1>4. Range(Append(h, l[i])) = Range(h) \union {l[i]} /\ IsInjective(Append(h, l[i]))
  BY <1>2, <1>3, AppendNew DEF Fresh
<1>5. Fresh(h, RemoveAt(l, i), s)
  BY <1>1 DEF Fresh
<1>6. Fresh(Append(h, l[i]), RemoveAt(l, i), s)
  BY <1>1, <1>3, <1>4 DEF Fresh
<1> QED BY <1>1, <1>2, <1>3, <1>5, <1>6

LEMMA FreshMissed ==
  ASSUME NEW h, NEW l, NEW s, Fresh(h, l, s)
  PROVE  Fresh(h, <<>>, s)
<1>1. Range(<<>>) = {} /\ IsInjective(<<>>)
  BY DEF Range, IsInjective
<1> QED BY <1>1 DEF Fresh

\* A message nobody sent yet is published, to a peer that listens or to none.
LEMMA PublishKeeps ==
  ASSUME Typed, transport = "nostr", OverNostr, NEW n \in Nodes, NEW m \in Openings[n],
         m \notin Range(sent[n]), Publish(n, m), UNCHANGED <<transport, handled>>
  PROVE  /\ link' \in [Nodes -> Seq(Msgs)] /\ sent' \in [Nodes -> Seq(Msgs)]
         /\ OverNostr'
<1>1. m \in Msgs /\ link \in [Nodes -> Seq(Msgs)] /\ sent \in [Nodes -> Seq(Msgs)]
      /\ handled \in [Nodes -> Seq(Msgs)]
  BY MessagesAssumption DEF Typed, Wire
<1>2. /\ link' = IF up[Peer(n)] THEN [link EXCEPT ![n] = Append(link[n], m)] ELSE link
      /\ sent' = [sent EXCEPT ![n] = Append(sent[n], m)]
  BY DEF Publish, Remember
<1>3. Append(link[n], m) \in Seq(Msgs) /\ Append(sent[n], m) \in Seq(Msgs)
  BY <1>1, AppendProperties
<1>4. link' \in [Nodes -> Seq(Msgs)] /\ sent' \in [Nodes -> Seq(Msgs)]
  BY <1>1, <1>2, <1>3
<1>5. ASSUME NEW k \in Nodes
      PROVE  Fresh(handled[k], link'[Peer(k)], sent'[Peer(k)])
  <2>1. Fresh(handled[k], link[Peer(k)], sent[Peer(k)])
    BY DEF OverNostr
  <2>2. CASE Peer(k) # n
    <3>1. link'[Peer(k)] = link[Peer(k)] /\ sent'[Peer(k)] = sent[Peer(k)]
      BY <1>1, <1>2, <2>2, TwoParties
    <3> QED BY <2>1, <3>1
  <2>3. CASE Peer(k) = n
    <3>1. sent'[n] = Append(sent[n], m) /\ link'[n] \in {link[n], Append(link[n], m)}
      BY <1>1, <1>2
    <3>2. Fresh(handled[k], link[n], Append(sent[n], m))
          /\ Fresh(handled[k], Append(link[n], m), Append(sent[n], m))
      <4>1. handled[k] \in Seq(Msgs) /\ link[n] \in Seq(Msgs) /\ sent[n] \in Seq(Msgs)
        BY <1>1
      <4> QED BY <1>1, <2>1, <2>3, <4>1, FreshSent
    <3> QED BY <2>3, <3>1, <3>2
  <2> QED BY <2>2, <2>3
<1>6. ASSUME NEW k \in Nodes PROVE Caused(k, sent'[k], handled[k])
  <2>1. Caused(k, sent[k], handled[k])
    BY DEF OverNostr
  <2>2. CASE k # n
    BY <1>1, <1>2, <2>1, <2>2
  <2>3. CASE k = n
    <3>1. Range(sent'[n]) = Range(sent[n]) \union {m}
      BY <1>1, <1>2, AppendNew
    <3> QED BY <2>1, <2>3, <3>1 DEF Caused
  <2> QED BY <2>2, <2>3
<1> QED BY <1>4, <1>5, <1>6 DEF OverNostr

LEMMA SendKeeps ==
  ASSUME NEW n \in Nodes, NEW m \in Openings[n] PROVE DeliveryInv /\ Send(n, m) => DeliveryInv'
<1> SUFFICES ASSUME DeliveryInv, Send(n, m) PROVE DeliveryInv'
  OBVIOUS
<1>1. Typed /\ Apart /\ OverLightning /\ OverNostr /\ InMemory /\ m \in Msgs
  BY MessagesAssumption DEF DeliveryInv
<1>2. UNCHANGED <<transport, up, connected, seized, reader, broken, received, batch, reply, handled, faults>>
  BY DEF Send
<1>3. CASE transport = "lightning"
  <2>1. SendLightning(n, m) /\ UNCHANGED link
    BY <1>3 DEF Send
  <2>2. \A k \in Nodes : Arrived(k)' = Arrived(k)
    BY <1>2 DEF Arrived
  <2>3. /\ outbox' \in [Nodes -> Seq(Packet)] /\ sent' \in [Nodes -> Seq(Msgs)]
        /\ OverLightning'
    BY <1>1, <1>2, <1>3, <2>1, <2>2, LightningSend
  <2>4. Typed'
    BY <1>1, <1>2, <2>1, <2>3 DEF Typed, Wire
  <2>5. Apart'
    BY <1>1, <1>2, <1>3, <2>1 DEF Apart
  <2> QED BY <1>2, <1>3, <2>3, <2>4, <2>5 DEF DeliveryInv, OverNostr, InMemory
<1>4. CASE transport = "nostr"
  <2>1. Publish(n, m) /\ UNCHANGED outbox /\ m \notin Range(sent[n])
    BY <1>4 DEF Send
  <2>2. link' \in [Nodes -> Seq(Msgs)] /\ sent' \in [Nodes -> Seq(Msgs)] /\ OverNostr'
    BY <1>1, <1>2, <1>4, <2>1, PublishKeeps
  <2>3. Typed'
    BY <1>1, <1>2, <1>4, <2>1, <2>2 DEF Typed, Wire
  <2>4. Apart'
    BY <1>1, <1>2, <1>4, <2>1 DEF Apart
  <2> QED BY <1>2, <1>4, <2>2, <2>3, <2>4 DEF DeliveryInv, OverLightning, InMemory
<1>5. CASE transport = "memory"
  <2>1. /\ Len(link[n]) < Capacity /\ link' = [link EXCEPT ![n] = Append(link[n], m)]
        /\ sent' = [sent EXCEPT ![n] = Append(sent[n], m)] /\ UNCHANGED outbox
    BY <1>5 DEF Send, Remember
  <2>2. link \in [Nodes -> Seq(Msgs)] /\ sent \in [Nodes -> Seq(Msgs)] /\ handled \in [Nodes -> Seq(Msgs)]
    BY <1>1, <1>5 DEF Typed, Wire
  <2>3. /\ Append(link[n], m) \in Seq(Msgs) /\ Append(sent[n], m) \in Seq(Msgs)
        /\ Len(Append(link[n], m)) = Len(link[n]) + 1 /\ Len(link[n]) \in Nat
    BY <1>1, <2>2, AppendProperties, LenProperties
  <2>4. Typed'
    <3>1. link' \in [Nodes -> Seq(Msgs)] /\ sent' \in [Nodes -> Seq(Msgs)]
      BY <2>1, <2>2, <2>3
    <3> QED BY <1>1, <1>2, <1>5, <2>1, <3>1 DEF Typed, Wire
  <2>5. Apart'
    <3>1. ASSUME NEW k \in Nodes PROVE up[k] /\ Len(link'[k]) <= Capacity
      <4>1. up[k] /\ Len(link[k]) <= Capacity
        BY <1>1, <1>5 DEF Apart
      <4>2. Len(link'[n]) = Len(link[n]) + 1 /\ Capacity \in Nat
        BY <2>1, <2>2, <2>3, SizesAssumption
      <4>3. k # n => link'[k] = link[k]
        BY <2>1, <2>2
      <4>4. Len(link'[n]) <= Capacity
        BY <2>1, <2>3, <4>2
      <4> QED BY <4>1, <4>3, <4>4
    <3>2. ~connected /\ \A k \in Nodes : outbox[k] = <<>> /\ received[k] = <<>> /\ batch[k] = <<>>
      BY <1>1, <1>5 DEF Apart
    <3> QED BY <1>2, <1>5, <2>1, <3>1, <3>2 DEF Apart
  <2>6. ASSUME NEW k \in Nodes PROVE sent'[Peer(k)] = handled[k] \o link'[Peer(k)]
    <3>1. sent[Peer(k)] = handled[k] \o link[Peer(k)]
      BY <1>1, <1>5 DEF InMemory
    <3>2. CASE Peer(k) # n
      BY <2>1, <2>2, <3>1, <3>2, TwoParties
    <3>3. CASE Peer(k) = n
      <4>1. handled[k] \o Append(link[n], m) = Append(handled[k] \o link[n], m)
        BY <1>1, <2>2, AppendLast
      <4>2. sent'[n] = Append(sent[n], m) /\ link'[n] = Append(link[n], m)
        BY <2>1, <2>2
      <4> QED BY <3>1, <3>3, <4>1, <4>2
    <3> QED BY <3>2, <3>3
  <2> QED BY <1>2, <1>5, <2>4, <2>5, <2>6 DEF DeliveryInv, OverLightning, OverNostr, InMemory
<1> QED BY <1>3, <1>4, <1>5 DEF Send

LEMMA TakeReceivedKeeps ==
  ASSUME NEW n \in Nodes PROVE DeliveryInv /\ TakeReceived(n) => DeliveryInv'
<1> SUFFICES ASSUME DeliveryInv, TakeReceived(n) PROVE DeliveryInv'
  OBVIOUS
<1>1. Typed /\ Apart /\ OverLightning
  BY DEF DeliveryInv
<1>2. transport = "lightning" /\ batch[n] = <<>>
      /\ batch' = [batch EXCEPT ![n] = received[n]] /\ received' = [received EXCEPT ![n] = <<>>]
      /\ UNCHANGED <<transport, up, connected, outbox, link, seized, reader, broken, reply, sent, handled, faults>>
  BY DEF TakeReceived
<1>3. batch \in [Nodes -> Seq(Msgs)] /\ received \in [Nodes -> Seq(Msgs)]
      /\ handled \in [Nodes -> Seq(Msgs)] /\ <<>> \in Seq(Msgs)
  BY <1>1, EmptySeq DEF Typed
<1>4. Typed'
  <2>1. batch' \in [Nodes -> Seq(Msgs)] /\ received' \in [Nodes -> Seq(Msgs)]
    BY <1>2, <1>3
  <2> QED BY <1>1, <1>2, <2>1 DEF Typed, Wire
<1>5. Apart'
  BY <1>1, <1>2 DEF Apart
<1>6. ASSUME NEW k \in Nodes PROVE Arrived(k)' = Arrived(k)
  <2>1. CASE k # n
    BY <1>2, <1>3, <2>1 DEF Arrived
  <2>2. CASE k = n
    <3>1. PICK h, t : h = handled[n] /\ t = received[n]
      OBVIOUS
    <3>2. h \in Seq(Msgs) /\ t \in Seq(Msgs) /\ h \o t \in Seq(Msgs)
      BY <1>3, <3>1, ConcatProperties
    <3>3. h \o <<>> = h /\ (h \o t) \o <<>> = h \o t
      BY <3>2, ConcatEmptySeq
    <3>4. handled'[n] = h /\ batch'[n] = t /\ received'[n] = <<>>
      BY <1>2, <1>3, <3>1
    <3>5. Arrived(n)' = (h \o t) \o <<>>
      BY <3>4 DEF Arrived
    <3>6. Arrived(n) = (h \o <<>>) \o t
      BY <1>2, <3>1 DEF Arrived
    <3> QED BY <2>2, <3>3, <3>5, <3>6
  <2> QED BY <2>1, <2>2
<1>7. \A k \in Nodes : FlowTo(k)' = FlowTo(k)
  BY <1>2, <1>6 DEF FlowTo
<1>8. OverLightning'
  BY <1>1, <1>2, <1>7 DEF OverLightning
<1> QED BY <1>2, <1>4, <1>5, <1>8 DEF DeliveryInv, OverNostr, InMemory

LEMMA ProcessMessageKeeps ==
  ASSUME NEW n \in Nodes PROVE DeliveryInv /\ ProcessMessage(n) => DeliveryInv'
<1> SUFFICES ASSUME DeliveryInv, ProcessMessage(n) PROVE DeliveryInv'
  OBVIOUS
<1>1. Typed /\ Apart /\ OverLightning
  BY DEF DeliveryInv
<1> DEFINE m == Head(batch[n])
<1>2. /\ batch[n] # <<>> /\ batch' = [batch EXCEPT ![n] = Tail(batch[n])]
      /\ handled' = [handled EXCEPT ![n] = Append(handled[n], m)]
      /\ IF Answer(m) = NoReply THEN UNCHANGED <<outbox, sent>> ELSE SendLightning(n, Answer(m))
      /\ UNCHANGED <<transport, up, connected, link, seized, reader, broken, received, reply, faults>>
  BY DEF ProcessMessage, Handle
<1> HIDE DEF m
<1>3. transport = "lightning"
  BY <1>1, <1>2 DEF Apart
<1>4. batch \in [Nodes -> Seq(Msgs)] /\ received \in [Nodes -> Seq(Msgs)]
      /\ handled \in [Nodes -> Seq(Msgs)]
  BY <1>1 DEF Typed
<1>5. m \in Msgs /\ Tail(batch[n]) \in Seq(Msgs) /\ Append(handled[n], m) \in Seq(Msgs)
  <2>1. m \in Msgs /\ Tail(batch[n]) \in Seq(Msgs)
    BY <1>2, <1>4, HeadTailProperties DEF m
  <2> QED BY <1>4, <2>1, AppendProperties
<1>6. ASSUME NEW k \in Nodes PROVE Arrived(k)' = Arrived(k)
  <2>1. CASE k # n
    BY <1>2, <1>4, <2>1 DEF Arrived
  <2>2. CASE k = n
    <3>1. Append(handled[n], m) \o Tail(batch[n]) = handled[n] \o batch[n]
      BY <1>2, <1>4, AppendHead DEF m
    <3>2. handled'[n] = Append(handled[n], m) /\ batch'[n] = Tail(batch[n]) /\ received'[n] = received[n]
      BY <1>2, <1>4
    <3> QED BY <2>2, <3>1, <3>2 DEF Arrived
  <2> QED BY <2>1, <2>2
<1>7. /\ outbox' \in [Nodes -> Seq(Packet)] /\ sent' \in [Nodes -> Seq(Msgs)]
      /\ OverLightning'
  <2>1. CASE Answer(m) = NoReply
    <3>1. UNCHANGED <<outbox, sent>>
      BY <1>2, <2>1
    <3>2. \A k \in Nodes : FlowTo(k)' = FlowTo(k)
      BY <1>2, <1>6, <3>1 DEF FlowTo
    <3> QED BY <1>1, <1>2, <3>1, <3>2 DEF Typed, OverLightning
  <2>2. CASE Answer(m) # NoReply
    <3>1. PICK a : a = Answer(m)
      OBVIOUS
    <3>2. a \in Msgs /\ SendLightning(n, a)
      BY <1>2, <1>5, <2>2, <3>1, MessagesAssumption DEF Answer
    <3> QED BY <1>1, <1>2, <1>3, <1>6, <3>2, LightningSend
  <2> QED BY <2>1, <2>2
<1>8. Typed'
  <2>1. batch' \in [Nodes -> Seq(Msgs)] /\ handled' \in [Nodes -> Seq(Msgs)]
    BY <1>2, <1>4, <1>5
  <2> QED BY <1>1, <1>2, <1>7, <2>1 DEF Typed, Wire
<1>9. Apart'
  BY <1>1, <1>2, <1>3 DEF Apart
<1> QED BY <1>2, <1>3, <1>7, <1>8, <1>9 DEF DeliveryInv, OverNostr, InMemory

LEMMA ReceiveMemoryKeeps ==
  ASSUME NEW n \in Nodes PROVE DeliveryInv /\ ReceiveMemory(n) => DeliveryInv'
<1> SUFFICES ASSUME DeliveryInv, ReceiveMemory(n) PROVE DeliveryInv'
  OBVIOUS
<1>1. Typed /\ Apart /\ InMemory
  BY DEF DeliveryInv
<1> DEFINE p == Peer(n)
           m == Head(link[p])
<1>2. /\ transport = "memory" /\ link[p] # <<>>
      /\ handled' = [handled EXCEPT ![n] = Append(handled[n], m)]
      /\ reply' = [reply EXCEPT ![n] = Answer(m)]
      /\ link' = [link EXCEPT ![p] = Tail(link[p])]
      /\ UNCHANGED <<transport, up, connected, outbox, seized, reader, broken, received, batch, sent, faults>>
  BY DEF ReceiveMemory, Handle
<1>3. /\ link \in [Nodes -> Seq(Msgs)] /\ handled \in [Nodes -> Seq(Msgs)]
      /\ reply \in [Nodes -> Msgs \cup {NoReply}]
  BY <1>1, <1>2 DEF Typed, Wire
<1>4. p \in Nodes /\ p # n /\ Peer(p) = n /\ \A k \in Nodes : k = n \/ k = p
  BY TwoParties
<1> HIDE DEF p
<1>5. m \in Msgs /\ Tail(link[p]) \in Seq(Msgs) /\ Len(Tail(link[p])) = Len(link[p]) - 1
      /\ Len(link[p]) \in Nat
  BY <1>2, <1>3, <1>4, HeadTailProperties, LenProperties
<1>6. Append(handled[n], m) \o Tail(link[p]) = handled[n] \o link[p]
  BY <1>2, <1>3, <1>4, AppendHead
<1> HIDE DEF m
<1>7. Append(handled[n], m) \in Seq(Msgs) /\ Answer(m) \in Msgs \cup {NoReply}
  BY <1>3, <1>5, AppendProperties, MessagesAssumption DEF Answer
<1>8. Typed'
  <2>1. /\ link' \in [Nodes -> Seq(Msgs)] /\ handled' \in [Nodes -> Seq(Msgs)]
        /\ reply' \in [Nodes -> Msgs \cup {NoReply}]
    BY <1>2, <1>3, <1>4, <1>5, <1>7
  <2> QED BY <1>1, <1>2, <2>1 DEF Typed, Wire
<1>9. Apart'
  <2>1. ASSUME NEW k \in Nodes PROVE up[k] /\ Len(link'[k]) <= Capacity
    <3>1. up[k] /\ Len(link[k]) <= Capacity /\ Capacity \in Nat
      BY <1>1, <1>2, SizesAssumption DEF Apart
    <3>2. k # p => link'[k] = link[k]
      BY <1>2, <1>3
    <3>3. link'[p] = Tail(link[p])
      BY <1>2, <1>3, <1>4
    <3>4. k = p => Len(link'[k]) <= Capacity
      <4>1. PICK a, c : a = Len(link[p]) /\ c = Len(Tail(link[p]))
        OBVIOUS
      <4>2. a \in Nat /\ c = a - 1
        BY <1>5, <4>1
      <4>3. k = p => a <= Capacity
        BY <3>1, <4>1
      <4>4. k = p => c <= Capacity
        BY <3>1, <4>2, <4>3
      <4> QED BY <3>3, <4>1, <4>4
    <3> QED BY <3>1, <3>2, <3>4
  <2> QED BY <1>1, <1>2, <2>1 DEF Apart
<1>10. ASSUME NEW k \in Nodes PROVE sent[Peer(k)] = handled'[k] \o link'[Peer(k)]
  <2>1. sent[Peer(k)] = handled[k] \o link[Peer(k)]
    BY <1>1, <1>2 DEF InMemory
  <2>2. CASE k = p
    <3>1. handled'[p] = handled[p] /\ link'[n] = link[n]
      BY <1>2, <1>3, <1>4
    <3> QED BY <1>4, <2>1, <2>2, <3>1
  <2>3. CASE k = n
    <3>1. handled'[n] = Append(handled[n], m) /\ link'[p] = Tail(link[p])
      BY <1>2, <1>3, <1>4
    <3> QED BY <1>6, <2>1, <2>3, <3>1 DEF p
  <2> QED BY <1>4, <2>2, <2>3
<1>11. InMemory'
  BY <1>2, <1>10 DEF InMemory
<1> QED BY <1>2, <1>8, <1>9, <1>11 DEF DeliveryInv, OverLightning, OverNostr

LEMMA AnswerMemoryKeeps ==
  ASSUME NEW n \in Nodes PROVE DeliveryInv /\ AnswerMemory(n) => DeliveryInv'
<1> SUFFICES ASSUME DeliveryInv, AnswerMemory(n) PROVE DeliveryInv'
  OBVIOUS
<1>1. Typed /\ Apart /\ InMemory
  BY DEF DeliveryInv
<1> DEFINE m == reply[n]
<1>2. /\ reply[n] # NoReply /\ Len(link[n]) < Capacity
      /\ link' = [link EXCEPT ![n] = Append(link[n], m)]
      /\ sent' = [sent EXCEPT ![n] = Append(sent[n], m)]
      /\ reply' = [reply EXCEPT ![n] = NoReply]
      /\ UNCHANGED <<transport, up, connected, outbox, seized, reader, broken, received, batch, handled, faults>>
  BY DEF AnswerMemory, Remember
<1>3. transport = "memory"
  BY <1>1, <1>2 DEF Apart
<1>4. /\ link \in [Nodes -> Seq(Msgs)] /\ handled \in [Nodes -> Seq(Msgs)]
      /\ sent \in [Nodes -> Seq(Msgs)] /\ reply \in [Nodes -> Msgs \cup {NoReply}] /\ m \in Msgs
  BY <1>1, <1>2, <1>3 DEF Typed, Wire
<1> HIDE DEF m
<1>5. /\ Append(link[n], m) \in Seq(Msgs) /\ Append(sent[n], m) \in Seq(Msgs)
      /\ Len(Append(link[n], m)) = Len(link[n]) + 1 /\ Len(link[n]) \in Nat
  BY <1>4, AppendProperties, LenProperties
<1>6. Typed'
  <2>1. /\ link' \in [Nodes -> Seq(Msgs)] /\ sent' \in [Nodes -> Seq(Msgs)]
        /\ reply' \in [Nodes -> Msgs \cup {NoReply}]
    BY <1>2, <1>4, <1>5
  <2> QED BY <1>1, <1>2, <1>3, <2>1 DEF Typed, Wire
<1>7. Apart'
  <2>1. ASSUME NEW k \in Nodes PROVE up[k] /\ Len(link'[k]) <= Capacity
    <3>1. up[k] /\ Len(link[k]) <= Capacity /\ Capacity \in Nat
      BY <1>1, <1>3, SizesAssumption DEF Apart
    <3>2. k # n => link'[k] = link[k]
      BY <1>2, <1>4
    <3>3. link'[n] = Append(link[n], m)
      BY <1>2, <1>4
    <3>4. k = n => Len(link'[k]) <= Capacity
      BY <1>2, <1>5, <3>1, <3>3
    <3> QED BY <3>1, <3>2, <3>4
  <2> QED BY <1>1, <1>2, <1>3, <2>1 DEF Apart
<1>8. ASSUME NEW k \in Nodes PROVE sent'[Peer(k)] = handled[k] \o link'[Peer(k)]
  <2>1. sent[Peer(k)] = handled[k] \o link[Peer(k)]
    BY <1>1, <1>3 DEF InMemory
  <2>2. CASE Peer(k) # n
    BY <1>2, <1>4, <2>1, <2>2, TwoParties
  <2>3. CASE Peer(k) = n
    <3>1. handled[k] \o Append(link[n], m) = Append(handled[k] \o link[n], m)
      BY <1>4, AppendLast
    <3>2. sent'[n] = Append(sent[n], m) /\ link'[n] = Append(link[n], m)
      BY <1>2, <1>4
    <3> QED BY <2>1, <2>3, <3>1, <3>2
  <2> QED BY <2>2, <2>3
<1>9. InMemory'
  BY <1>2, <1>8 DEF InMemory
<1> QED BY <1>2, <1>3, <1>6, <1>7, <1>9 DEF DeliveryInv, OverLightning, OverNostr

LEMMA HandleEventKeeps ==
  ASSUME NEW n \in Nodes PROVE DeliveryInv /\ HandleEvent(n) => DeliveryInv'
<1> SUFFICES ASSUME DeliveryInv, HandleEvent(n) PROVE DeliveryInv'
  OBVIOUS
<1>1. Typed /\ Apart /\ OverNostr
  BY DEF DeliveryInv
<1> DEFINE p == Peer(n)
<1>2. /\ transport = "nostr" /\ up[n]
      /\ UNCHANGED <<transport, connected, outbox, seized, reader, broken, received, batch, reply>>
  BY DEF HandleEvent
<1>3. PICK i \in DOMAIN link[p] :
         LET m == link[p][i]
             rest == [link EXCEPT ![p] = RemoveAt(@, i)]
         IN  IF m.type \notin ReadableTypes
             THEN link' = rest /\ UNCHANGED <<up, sent, handled, faults>>
             ELSE /\ Handle(n, m)
                  /\ \/ /\ Answer(m) = NoReply
                        /\ link' = rest
                        /\ UNCHANGED <<up, sent, faults>>
                     \/ /\ Answer(m) # NoReply
                        /\ link' = IF up[Peer(n)]
                                   THEN [rest EXCEPT ![n] = Append(@, Answer(m))]
                                   ELSE rest
                        /\ Remember(n, Answer(m))
                        /\ UNCHANGED <<up, faults>>
                     \/ /\ Answer(m) # NoReply
                        /\ faults < MaxFaults
                        /\ faults' = faults + 1
                        /\ up' = [up EXCEPT ![n] = FALSE]
                        /\ link' = rest
                        /\ UNCHANGED sent
  BY DEF HandleEvent
<1> DEFINE m == link[p][i]
           less == RemoveAt(link[p], i)
           rest == [link EXCEPT ![p] = less]
<1>4. p \in Nodes /\ p # n /\ Peer(p) = n /\ \A k \in Nodes : k = n \/ k = p
  BY TwoParties
<1>5. /\ link \in [Nodes -> Seq(Msgs)] /\ handled \in [Nodes -> Seq(Msgs)]
      /\ sent \in [Nodes -> Seq(Msgs)] /\ up \in [Nodes -> BOOLEAN] /\ faults \in 0..MaxFaults
  BY <1>1, <1>2 DEF Typed, Wire
<1>6. link[p] \in Seq(Msgs) /\ i \in 1..Len(link[p])
  BY <1>4, <1>5, LenProperties
<1>7. /\ Fresh(handled[n], link[p], sent[p]) /\ Caused(n, sent[n], handled[n])
      /\ Fresh(handled[p], link[n], sent[n]) /\ Caused(p, sent[p], handled[p])
  BY <1>1, <1>2, <1>4 DEF OverNostr
<1>8. /\ m \in Msgs /\ m \notin Range(handled[n]) /\ less \in Seq(Msgs)
      /\ Fresh(handled[n], less, sent[p]) /\ Fresh(Append(handled[n], m), less, sent[p])
  BY <1>4, <1>5, <1>6, <1>7, FreshTaken
<1>9. rest \in [Nodes -> Seq(Msgs)] /\ rest[p] = less /\ rest[n] = link[n]
  BY <1>4, <1>5, <1>8
<1>10. \/ link' = rest /\ UNCHANGED <<up, sent, handled, faults>>
       \/ Handle(n, m) /\ link' = rest /\ UNCHANGED <<up, sent, faults>>
       \/ /\ Handle(n, m) /\ Answer(m) # NoReply
          /\ link' = IF up[p] THEN [rest EXCEPT ![n] = Append(rest[n], Answer(m))] ELSE rest
          /\ Remember(n, Answer(m)) /\ UNCHANGED <<up, faults>>
       \/ /\ Handle(n, m) /\ link' = rest /\ UNCHANGED sent
          /\ faults < MaxFaults /\ faults' = faults + 1 /\ up' = [up EXCEPT ![n] = FALSE]
  BY <1>3
<1> HIDE DEF p, m, less, rest
<1>11. /\ up' \in [Nodes -> BOOLEAN] /\ faults' \in 0..MaxFaults
  <2>1. UNCHANGED <<up, faults>>
        \/ (faults < MaxFaults /\ faults' = faults + 1 /\ up' = [up EXCEPT ![n] = FALSE])
    BY <1>10
  <2>2. up' \in [Nodes -> BOOLEAN]
    BY <1>5, <2>1
  <2>3. faults' = faults \/ (faults < MaxFaults /\ faults' = faults + 1)
    BY <2>1
  <2>4. faults' \in 0..MaxFaults
    BY <1>5, <2>3, SizesAssumption
  <2> QED BY <2>2, <2>4
<1>12. Append(handled[n], m) \in Seq(Msgs) /\ Range(Append(handled[n], m)) = Range(handled[n]) \union {m}
  BY <1>5, <1>8, AppendNew
<1>13. ASSUME link' = rest, UNCHANGED sent, handled' = handled \/ Handle(n, m)
       PROVE  /\ link' \in [Nodes -> Seq(Msgs)] /\ handled' \in [Nodes -> Seq(Msgs)]
              /\ sent' \in [Nodes -> Seq(Msgs)] /\ OverNostr'
  <2>1. handled'[n] \in {handled[n], Append(handled[n], m)} /\ handled'[p] = handled[p]
        /\ handled' \in [Nodes -> Seq(Msgs)]
    BY <1>4, <1>5, <1>12, <1>13 DEF Handle
  <2>2. Fresh(handled'[n], link'[p], sent'[p]) /\ Fresh(handled'[p], link'[n], sent'[n])
    BY <1>7, <1>8, <1>9, <1>13, <2>1
  <2>3. Caused(p, sent'[p], handled'[p])
    BY <1>7, <1>13, <2>1
  <2>4. Caused(n, sent'[n], handled'[n])
    <3>1. Range(handled[n]) \subseteq Range(handled'[n])
      BY <1>12, <2>1
    <3> QED BY <1>7, <1>13, <3>1 DEF Caused
  <2>5. OverNostr'
    BY <1>4, <2>2, <2>3, <2>4 DEF OverNostr, p
  <2> QED BY <1>5, <1>9, <1>13, <2>1, <2>5
<1>14. ASSUME Handle(n, m), Answer(m) # NoReply, Remember(n, Answer(m)),
              link' = IF up[p] THEN [rest EXCEPT ![n] = Append(rest[n], Answer(m))] ELSE rest
       PROVE  /\ link' \in [Nodes -> Seq(Msgs)] /\ handled' \in [Nodes -> Seq(Msgs)]
              /\ sent' \in [Nodes -> Seq(Msgs)] /\ OverNostr'
  <2>1. PICK a : a = Answer(m)
    OBVIOUS
  <2>2. a \in Msgs /\ a = Replies[m] /\ a # NoReply
    BY <1>8, <1>14, <2>1, MessagesAssumption DEF Answer
  <2>3. a \notin Range(sent[n])
    <3> SUFFICES ASSUME a \in Range(sent[n]) PROVE FALSE
      OBVIOUS
    <3>1. a \in Openings[n] \/ \E k \in Range(handled[n]) : a = Replies[k]
      BY <1>7 DEF Caused
    <3>2. a \notin Openings[n] /\ \A k \in Msgs : Replies[k] = a => k = m
      BY <1>8, <2>2, AnswersAssumption
    <3>3. Range(handled[n]) \subseteq Msgs
      BY <1>5, RangeOfSeq
    <3> QED BY <1>8, <3>1, <3>2, <3>3
  <2>4. /\ Append(sent[n], a) \in Seq(Msgs) /\ Range(Append(sent[n], a)) = Range(sent[n]) \union {a}
        /\ Append(link[n], a) \in Seq(Msgs)
    BY <1>5, <2>2, AppendNew
  <2>5. /\ handled' = [handled EXCEPT ![n] = Append(handled[n], m)]
        /\ sent' = [sent EXCEPT ![n] = Append(sent[n], a)]
        /\ link' = IF up[p] THEN [rest EXCEPT ![n] = Append(link[n], a)] ELSE rest
    BY <1>9, <1>14, <2>1 DEF Handle, Remember
  <2>6. /\ handled' \in [Nodes -> Seq(Msgs)] /\ handled'[n] = Append(handled[n], m) /\ handled'[p] = handled[p]
    BY <1>4, <1>5, <1>12, <2>5
  <2>7. /\ sent' \in [Nodes -> Seq(Msgs)] /\ sent'[n] = Append(sent[n], a) /\ sent'[p] = sent[p]
    BY <1>4, <1>5, <2>4, <2>5
  <2>8. /\ link' \in [Nodes -> Seq(Msgs)] /\ link'[n] \in {link[n], Append(link[n], a)} /\ link'[p] = less
    BY <1>4, <1>9, <2>4, <2>5
  <2>9. Fresh(handled'[n], link'[p], sent'[p])
    BY <1>8, <2>6, <2>7, <2>8
  <2>10. Fresh(handled'[p], link'[n], sent'[n])
    <3>1. Fresh(handled[p], link[n], Append(sent[n], a)) /\ Fresh(handled[p], Append(link[n], a), Append(sent[n], a))
      <4>1. handled[p] \in Seq(Msgs) /\ link[n] \in Seq(Msgs) /\ sent[n] \in Seq(Msgs)
        BY <1>4, <1>5
      <4> QED BY <1>7, <2>2, <2>3, <4>1, FreshSent
    <3> QED BY <2>6, <2>7, <2>8, <3>1
  <2>11. Caused(p, sent'[p], handled'[p])
    BY <1>7, <2>6, <2>7
  <2>12. Caused(n, sent'[n], handled'[n])
    BY <1>7, <1>12, <2>2, <2>4, <2>6, <2>7 DEF Caused
  <2>13. OverNostr'
    BY <1>4, <2>9, <2>10, <2>11, <2>12 DEF OverNostr, p
  <2> QED BY <2>6, <2>7, <2>8, <2>13
<1>15. /\ link' \in [Nodes -> Seq(Msgs)] /\ handled' \in [Nodes -> Seq(Msgs)]
       /\ sent' \in [Nodes -> Seq(Msgs)] /\ OverNostr'
  BY <1>10, <1>13, <1>14
<1>16. Typed'
  BY <1>1, <1>2, <1>11, <1>15 DEF Typed, Wire
<1>17. Apart'
  BY <1>1, <1>2 DEF Apart
<1> QED BY <1>2, <1>15, <1>16, <1>17 DEF DeliveryInv, OverLightning, InMemory

LEMMA StopKeeps ==
  ASSUME NEW n \in Nodes PROVE DeliveryInv /\ Stop(n) => DeliveryInv'
<1> SUFFICES ASSUME DeliveryInv, Stop(n) PROVE DeliveryInv'
  OBVIOUS
<1>1. Typed /\ Apart /\ OverLightning /\ OverNostr
  BY DEF DeliveryInv
<1>2. /\ transport \in {"lightning", "nostr"} /\ faults < MaxFaults /\ faults' = faults + 1
      /\ up' = [up EXCEPT ![n] = FALSE] /\ connected' = FALSE
      /\ link' = IF transport = "lightning" THEN [p \in Nodes |-> <<>>]
                 ELSE [link EXCEPT ![Peer(n)] = <<>>]
      /\ outbox' = [outbox EXCEPT ![n] = <<>>] /\ reader' = [reader EXCEPT ![n] = EmptyReader]
      /\ broken' = [broken EXCEPT ![n] = FALSE] /\ received' = [received EXCEPT ![n] = <<>>]
      /\ batch' = [batch EXCEPT ![n] = <<>>] /\ seized' = [seized EXCEPT ![n] = FALSE]
      /\ UNCHANGED <<transport, reply, sent, handled>>
  BY DEF Stop
<1>3. Peer(n) \in Nodes /\ Peer(n) # n /\ Peer(Peer(n)) = n /\ \A k \in Nodes : k = n \/ k = Peer(n)
  BY TwoParties
<1>4. Typed'
  <2>1. <<>> \in Seq(Packet) /\ <<>> \in Seq(Msgs) /\ <<>> \in Seq(Wire)
    BY EmptySeq
  <2>2. /\ up' \in [Nodes -> BOOLEAN] /\ connected' \in BOOLEAN /\ broken' \in [Nodes -> BOOLEAN]
        /\ seized' \in [Nodes -> BOOLEAN] /\ transport' \in Transports
    BY <1>1, <1>2 DEF Typed
  <2>3. faults' \in 0..MaxFaults
    BY <1>1, <1>2, SizesAssumption DEF Typed
  <2>4. outbox' \in [Nodes -> Seq(Packet)] /\ reader' \in [Nodes -> Reader]
    BY <1>1, <1>2, <2>1, EmptyReaderIn DEF Typed
  <2>5. /\ received' \in [Nodes -> Seq(Msgs)] /\ batch' \in [Nodes -> Seq(Msgs)]
        /\ sent' \in [Nodes -> Seq(Msgs)] /\ handled' \in [Nodes -> Seq(Msgs)]
        /\ reply' \in [Nodes -> Msgs \cup {NoReply}]
    BY <1>1, <1>2, <2>1 DEF Typed
  <2>6. link' \in [Nodes -> Seq(Wire)]
    BY <1>1, <1>2, <2>1 DEF Typed
  <2>7. Wire' = Wire
    BY <1>2 DEF Wire
  <2> QED BY <2>2, <2>3, <2>4, <2>5, <2>6, <2>7 DEF Typed
<1>5. Apart'
  <2>1. ASSUME NEW k \in Nodes
        PROVE  transport # "lightning" => outbox'[k] = <<>> /\ received'[k] = <<>> /\ batch'[k] = <<>>
    BY <1>1, <1>2 DEF Apart, Typed
  <2> QED BY <1>1, <1>2, <2>1 DEF Apart
<1>6. CASE transport = "lightning"
  <2>1. ASSUME NEW k \in Nodes PROVE FlowTo(k)'
    <3>1. FlowTo(k)
      BY <1>1, <1>6 DEF OverLightning
    <3>2. PICK A, S, L, O, r, e : /\ A = Arrived(k) /\ S = sent[Peer(k)] /\ L = link[Peer(k)]
                                  /\ O = outbox[Peer(k)] /\ r = reader[k] /\ e = reader'[k]
      OBVIOUS
    <3>3. A \in Seq(Msgs) /\ S \in Seq(Msgs) /\ L \in Seq(Packet) /\ O \in Seq(Packet) /\ Peer(k) \in Nodes
      BY <1>1, <1>6, <3>2, FlowParts
    <3>4. Flow(A, S, L, O, r)
      BY <3>1, <3>2 DEF FlowTo
    <3>5. sent'[Peer(k)] = S /\ link'[Peer(k)] = <<>> /\ outbox'[Peer(k)] \in {O, <<>>}
      BY <1>1, <1>2, <1>6, <3>2, <3>3 DEF Typed
    <3>6. CASE k # n
      <4>1. Arrived(k)' = A
        BY <1>1, <1>2, <3>2, <3>6 DEF Arrived, Typed
      <4>2. Flow(A, S, <<>>, O, e) /\ Flow(A, S, <<>>, <<>>, e)
        BY <3>3, <3>4, FlowLost
      <4> QED BY <3>2, <3>5, <4>1, <4>2 DEF FlowTo
    <3>7. CASE k = n
      <4>1. PICK h, b, c : h = handled[k] /\ b = batch[k] /\ c = received[k]
        OBVIOUS
      <4>2. h \in Seq(Msgs) /\ b \in Seq(Msgs) /\ c \in Seq(Msgs) /\ h \o b \in Seq(Msgs)
        BY <1>1, <4>1, ArrivedIn DEF Typed
      <4>3. A = (h \o b) \o c
        BY <3>2, <4>1 DEF Arrived
      <4>4. Flow(h \o b, S, L, O, r)
        BY <3>3, <3>4, <4>2, <4>3, FlowForgotten
      <4>5. Flow(h, S, L, O, r)
        BY <3>3, <4>2, <4>4, FlowForgotten
      <4>6. Flow(h, S, <<>>, O, e) /\ Flow(h, S, <<>>, <<>>, e)
        BY <3>3, <4>2, <4>5, FlowLost
      <4>7. handled'[k] = h /\ batch'[k] = <<>> /\ received'[k] = <<>>
        BY <1>1, <1>2, <3>7, <4>1 DEF Typed
      <4>8. Arrived(k)' = h
        BY <4>2, <4>7, ConcatEmptySeq DEF Arrived
      <4> QED BY <3>2, <3>5, <4>6, <4>8 DEF FlowTo
    <3> QED BY <3>6, <3>7
  <2> QED BY <1>2, <1>4, <1>5, <1>6, <2>1 DEF DeliveryInv, OverLightning, OverNostr, InMemory
<1>7. CASE transport = "nostr"
  <2>1. ASSUME NEW k \in Nodes
        PROVE  Fresh(handled[k], link'[Peer(k)], sent[Peer(k)]) /\ Caused(k, sent[k], handled[k])
    <3>1. Fresh(handled[k], link[Peer(k)], sent[Peer(k)]) /\ Caused(k, sent[k], handled[k])
      BY <1>1, <1>7 DEF OverNostr
    <3>2. Fresh(handled[k], <<>>, sent[Peer(k)])
      BY <3>1, FreshMissed
    <3>3. link'[Peer(k)] \in {link[Peer(k)], <<>>}
      <4>1. link' = [link EXCEPT ![Peer(n)] = <<>>] /\ Peer(k) \in Nodes
        BY <1>2, <1>7, TwoParties
      <4> QED BY <1>1, <4>1 DEF Typed
    <3> QED BY <3>1, <3>2, <3>3
  <2>2. OverNostr'
    BY <1>2, <2>1 DEF OverNostr
  <2> QED BY <1>2, <1>4, <1>5, <1>7, <2>2 DEF DeliveryInv, OverLightning, InMemory
<1> QED BY <1>2, <1>6, <1>7

LEMMA StartKeeps ==
  ASSUME NEW n \in Nodes PROVE DeliveryInv /\ Start(n) => DeliveryInv'
<1> SUFFICES ASSUME DeliveryInv, Start(n) PROVE DeliveryInv'
  OBVIOUS
<1>1. Typed /\ Apart /\ OverLightning /\ OverNostr
  BY DEF DeliveryInv
<1>2. /\ ~up[n] /\ up' = [up EXCEPT ![n] = TRUE]
      /\ link' = [link EXCEPT ![Peer(n)] = <<>>]
      /\ UNCHANGED <<transport, connected, outbox, seized, reader, broken, received, batch, reply, sent,
                     handled, faults>>
  BY DEF Start
<1>3. link \in [Nodes -> Seq(Wire)] /\ Wire' = Wire /\ <<>> \in Seq(Wire)
  BY <1>1, <1>2, EmptySeq DEF Typed, Wire
<1>4. Typed'
  <2>1. link' \in [Nodes -> Seq(Wire')]
    BY <1>2, <1>3
  <2>2. up' \in [Nodes -> BOOLEAN]
    BY <1>1, <1>2 DEF Typed
  <2> QED BY <1>1, <1>2, <2>1, <2>2 DEF Typed
<1>5. transport # "memory" /\ ~connected
  BY <1>1, <1>2 DEF Apart
<1>6. Apart'
  <2>1. \A k \in Nodes : link'[k] = link[k] \/ link'[k] = <<>>
    BY <1>2, <1>3
  <2> QED BY <1>1, <1>2, <1>5, <2>1 DEF Apart
<1>7. CASE transport = "lightning"
  <2>1. \A k \in Nodes : link'[k] = link[k]
    BY <1>1, <1>2, <1>3, <1>5, <1>7 DEF Apart
  <2>2. ASSUME NEW k \in Nodes PROVE FlowTo(k)' = FlowTo(k)
    <3>1. link'[Peer(k)] = link[Peer(k)]
      BY <2>1, TwoParties
    <3> QED BY <1>2, <3>1 DEF FlowTo, Arrived
  <2>3. OverLightning'
    BY <1>1, <1>2, <2>2 DEF OverLightning
  <2> QED BY <1>2, <1>4, <1>6, <1>7, <2>3 DEF DeliveryInv, OverNostr, InMemory
<1>8. CASE transport = "nostr"
  <2>1. ASSUME NEW k \in Nodes
        PROVE  Fresh(handled[k], link'[Peer(k)], sent[Peer(k)]) /\ Caused(k, sent[k], handled[k])
    <3>1. Fresh(handled[k], link[Peer(k)], sent[Peer(k)]) /\ Caused(k, sent[k], handled[k])
      BY <1>1, <1>8 DEF OverNostr
    <3>2. Fresh(handled[k], <<>>, sent[Peer(k)])
      BY <3>1, FreshMissed
    <3>3. link'[Peer(k)] \in {link[Peer(k)], <<>>}
      BY <1>2, <1>3, TwoParties
    <3> QED BY <3>1, <3>2, <3>3
  <2>2. OverNostr'
    BY <1>2, <2>1 DEF OverNostr
  <2> QED BY <1>2, <1>4, <1>6, <1>8, <2>2 DEF DeliveryInv, OverLightning, InMemory
<1>9. transport \in {"lightning", "nostr", "memory"}
  BY <1>1, PartiesAssumption DEF Typed
<1> QED BY <1>5, <1>7, <1>8, <1>9

\* The limits of the receiving side: a type it reads, and no more segments than it takes.
Acceptable(m) == m.type \in ReadableTypes /\ (Large(m) => NbSegments(m.len) <= MaxSegments)

\* Packet j of m is taken, or it ends the connection.
Taken(n, m, j) ==
    /\ TakePacket(n)
    /\ UNCHANGED broken
    /\ \/ j = Count(m) /\ Deliver(n, m)
       \/ j < Count(m) /\ UNCHANGED received /\ Holds(reader'[n], m, j + 1)

Refused == DisconnectPeer /\ UNCHANGED received /\ broken' \in [Nodes -> BOOLEAN]

\* The next packet: a whole message, a start or a chunk.
LEMMA PacketIs ==
  ASSUME NEW m \in Msgs, NEW j \in 1..Count(m)
  PROVE  \/ ~Large(m) /\ j = 1 /\ Count(m) = 1 /\ Segment(m, j) = [tag |-> "message", msg |-> m]
         \/ /\ Large(m) /\ j = 1 /\ Count(m) = NbSegments(m.len) /\ Count(m) >= 2
            /\ Segment(m, j) = [tag |-> "start", nb |-> Count(m), data |-> Before(m, 2)]
         \/ /\ Large(m) /\ Count(m) = NbSegments(m.len) /\ j \in 2..Count(m)
            /\ Segment(m, j).tag = "chunk" /\ Len(Segment(m, j).data) \in 0..MaxChunk
            /\ j < Count(m) => /\ Len(Segment(m, j).data) = MaxChunk
                               /\ Before(m, j) \o Segment(m, j).data = Before(m, j + 1)
            /\ j = Count(m) => Before(m, j) \o Segment(m, j).data = Bytes(m)
<1>1. CASE ~Large(m)
  <2>1. Count(m) = 1 /\ j = 1
    BY <1>1, OnePacket
  <2> QED BY <1>1, <2>1, OnePacket
<1>2. CASE Large(m)
  <2>1. PICK c : c = Count(m)
    OBVIOUS
  <2>2. /\ c = NbSegments(m.len) /\ c \in Nat /\ c >= 2
        /\ Segment(m, 1) = [tag |-> "start", nb |-> c, data |-> Before(m, 2)]
        /\ \A k \in 2..c :
              /\ Segment(m, k).tag = "chunk" /\ Len(Segment(m, k).data) \in 0..MaxChunk
              /\ k < c => /\ Len(Segment(m, k).data) = MaxChunk
                          /\ Before(m, k) \o Segment(m, k).data = Before(m, k + 1)
              /\ k = c => Before(m, k) \o Segment(m, k).data = Bytes(m)
    BY <1>2, <2>1, SegmentsOf
  <2>3. j = 1 \/ j \in 2..c
    BY <2>1, <2>2
  <2> QED BY <1>2, <2>1, <2>2, <2>3
<1> QED BY <1>1, <1>2

LEMMA BeforeIn ==
  ASSUME NEW m \in Msgs, Large(m), NEW j \in 2..NbSegments(m.len)
  PROVE  /\ Before(m, j) \in Seq(Byte) /\ Before(m, j) # <<>>
         /\ Len(Before(m, 2)) = MaxStartData
<1>1. NbSegments(m.len) \in Nat /\ NbSegments(m.len) >= 2
  BY SegmentsOf
<1>2. /\ Before(m, j) \in Seq(Byte) /\ Len(Before(m, j)) = MaxStartData + (j - 2) * MaxChunk
      /\ MaxStartData + (j - 2) * MaxChunk >= MaxStartData
      /\ MaxStartData + (j - 2) * MaxChunk \in Nat
  BY BeforeOf
<1>3. PICK l : l = Len(Before(m, j))
  OBVIOUS
<1>4. l \in Nat /\ l >= MaxStartData
  BY <1>2, <1>3
<1>5. l # 0
  BY <1>4, Sizes
<1>6. Before(m, j) # <<>>
  BY <1>3, <1>5, EmptySeq
<1>7. PICK k : k = 2
  OBVIOUS
<1>8. k \in 2..NbSegments(m.len)
  BY <1>1, <1>7
<1>9. Len(Before(m, k)) = MaxStartData + (k - 2) * MaxChunk
  BY <1>8, BeforeOf
<1>10. MaxStartData + (k - 2) * MaxChunk = MaxStartData
  BY <1>7, Sizes
<1> QED BY <1>2, <1>6, <1>7, <1>9, <1>10

\* In each case the reader keeps its shape, and only what is not acceptable is refused.
Others(n) ==
    /\ reader' \in [Nodes -> Reader]
    /\ \A k \in Nodes : k # n => reader'[k] = reader[k]

LEMMA MessageReceived ==
  ASSUME Typed, NEW n \in Nodes, NEW m \in Msgs, NEW j \in 1..Count(m),
         ReceiveMessage(n, Segment(m, j))
  PROVE  Others(n) /\ (Taken(n, m, j) \/ (Refused /\ ~Acceptable(m)))
<1>1. PICK w : w = Segment(m, j)
  OBVIOUS
<1>2. w.tag = "message" /\ ReceiveMessage(n, w)
  BY <1>1 DEF ReceiveMessage
<1>3. j = 1 /\ Count(m) = 1 /\ w = [tag |-> "message", msg |-> m]
  <2>1. w.tag # "start" /\ w.tag # "chunk"
    BY <1>2
  <2> QED BY <1>1, <2>1, PacketIs
<1>4. w.msg = m
  BY <1>3
<1>5. reader \in [Nodes -> Reader] /\ broken \in [Nodes -> BOOLEAN] /\ EmptyReader \in Reader
  BY EmptyReaderIn DEF Typed
<1>6. CASE m.type \in ReadableTypes
  <2>1. reader' = [reader EXCEPT ![n] = AfterReset(n)] /\ Deliver(n, m) /\ TakePacket(n) /\ UNCHANGED broken
    BY <1>2, <1>4, <1>6 DEF ReceiveMessage
  <2>2. AfterReset(n) \in Reader
    BY <1>5 DEF AfterReset
  <2>3. Others(n)
    BY <1>5, <2>1, <2>2 DEF Others
  <2> QED BY <1>3, <2>1, <2>3 DEF Taken
<1>7. CASE m.type \notin ReadableTypes
  <2>1. DisconnectPeer /\ UNCHANGED <<reader, received, broken>>
    BY <1>2, <1>4, <1>7 DEF ReceiveMessage
  <2> QED BY <1>5, <1>7, <2>1 DEF Others, Refused, Acceptable
<1> QED BY <1>6, <1>7

LEMMA StartReceived ==
  ASSUME Typed, NEW n \in Nodes, NEW m \in Msgs, NEW j \in 1..Count(m),
         ReceiveStart(n, Segment(m, j))
  PROVE  Others(n) /\ (Taken(n, m, j) \/ (Refused /\ ~Acceptable(m)))
<1>1. PICK w : w = Segment(m, j)
  OBVIOUS
<1>2. w.tag = "start" /\ ReceiveStart(n, w)
  BY <1>1 DEF ReceiveStart
<1>3. /\ Large(m) /\ j = 1 /\ Count(m) = NbSegments(m.len) /\ Count(m) >= 2
      /\ w = [tag |-> "start", nb |-> Count(m), data |-> Before(m, 2)]
  <2>1. w.tag # "message" /\ w.tag # "chunk"
    BY <1>2
  <2> QED BY <1>1, <2>1, PacketIs
<1>4. PICK c, d : c = Count(m) /\ d = Before(m, 2)
  OBVIOUS
<1>5. w.nb = c /\ w.data = d
  BY <1>3, <1>4
<1>6. c \in Nat /\ c >= 2 /\ c = NbSegments(m.len)
  BY <1>3, <1>4, SegmentsOf
<1>7. d \in Seq(Byte) /\ d # <<>> /\ Len(d) = MaxStartData /\ Len(d) >= MaxStartData
  <2>1. PICK k : k = 2
    OBVIOUS
  <2>2. k \in 2..NbSegments(m.len)
    BY <1>6, <2>1
  <2>3. Before(m, k) \in Seq(Byte) /\ Before(m, k) # <<>> /\ Len(Before(m, 2)) = MaxStartData
    BY <1>3, <2>2, BeforeIn
  <2> QED BY <1>4, <2>1, <2>3, Sizes
<1>8. reader \in [Nodes -> Reader] /\ broken \in [Nodes -> BOOLEAN] /\ EmptyReader \in Reader
  BY EmptyReaderIn DEF Typed
<1>9. PICK r : r = AfterReset(n)
  OBVIOUS
<1>10. r \in Reader /\ r.data = <<>>
  BY <1>8, <1>9 DEF AfterReset, ExpectingChunk, EmptyReader, Reader
<1>11. CASE c <= MaxSegments
  <2>1. w.nb \in 2..MaxSegments
    BY <1>5, <1>6, <1>11, SizesAssumption
  <2>2. /\ reader' = [reader EXCEPT ![n] = [data |-> d, remaining |-> c - 1]]
        /\ TakePacket(n) /\ UNCHANGED <<broken, received>>
    BY <1>2, <1>5, <1>7, <1>9, <1>10, <2>1 DEF ReceiveStart
  <2>3. PICK e : e = [data |-> d, remaining |-> c - 1]
    OBVIOUS
  <2>4. e \in Reader
    <3>1. c - 1 \in 0..(MaxSegments - 1) /\ c - 1 # 0
      BY <1>6, <1>11, SizesAssumption
    <3> QED BY <1>7, <2>3, <3>1 DEF Reader
  <2>5. Others(n) /\ reader'[n] = e
    BY <1>8, <2>2, <2>3, <2>4 DEF Others
  <2>6. Holds(e, m, j + 1)
    <3>1. c - 1 = c - (j + 1) + 1 /\ j + 1 = 2
      BY <1>3, <1>6
    <3> QED BY <1>3, <1>4, <2>3, <3>1 DEF Holds
  <2>7. j < Count(m)
    BY <1>3, <1>4, <1>6
  <2> QED BY <2>2, <2>5, <2>6, <2>7 DEF Taken
<1>12. CASE ~(c <= MaxSegments)
  <2>1. w.nb \notin 2..MaxSegments
    BY <1>5, <1>6, <1>12, SizesAssumption
  <2>2. reader' = [reader EXCEPT ![n] = r] /\ DisconnectPeer /\ UNCHANGED <<broken, received>>
    BY <1>2, <1>9, <2>1 DEF ReceiveStart
  <2>3. Others(n)
    BY <1>8, <1>10, <2>2 DEF Others
  <2>4. ~Acceptable(m)
    BY <1>3, <1>6, <1>12 DEF Acceptable
  <2> QED BY <1>8, <2>2, <2>3, <2>4 DEF Refused
<1> QED BY <1>11, <1>12

LEMMA ChunkReceived ==
  ASSUME Typed, NEW n \in Nodes, NEW m \in Msgs, NEW j \in 1..Count(m),
         j = 1 \/ Holds(reader[n], m, j), ReceiveChunk(n, Segment(m, j))
  PROVE  Others(n) /\ (Taken(n, m, j) \/ (Refused /\ ~Acceptable(m)))
<1>1. PICK w : w = Segment(m, j)
  OBVIOUS
<1>2. w.tag = "chunk" /\ ReceiveChunk(n, w)
  BY <1>1 DEF ReceiveChunk
<1>3. PICK c, r, d, x : c = Count(m) /\ r = reader[n] /\ d = w.data /\ x = r.data \o d
  OBVIOUS
<1>4. /\ Large(m) /\ c = NbSegments(m.len) /\ j \in 2..c
      /\ j < c => Len(d) = MaxChunk /\ Before(m, j) \o d = Before(m, j + 1)
      /\ j = c => Before(m, j) \o d = Bytes(m)
  <2>1. w.tag # "message" /\ w.tag # "start"
    BY <1>2
  <2>2. /\ Large(m) /\ Count(m) = NbSegments(m.len) /\ j \in 2..Count(m)
        /\ j < Count(m) => /\ Len(Segment(m, j).data) = MaxChunk
                           /\ Before(m, j) \o Segment(m, j).data = Before(m, j + 1)
        /\ j = Count(m) => Before(m, j) \o Segment(m, j).data = Bytes(m)
    <3>1. Segment(m, j).tag # "message" /\ Segment(m, j).tag # "start"
      BY ONLY <1>1, <2>1
    <3>2. ~(Segment(m, j) = [tag |-> "message", msg |-> m])
      BY ONLY <3>1
    <3>3. ~(Segment(m, j) = [tag |-> "start", nb |-> Count(m), data |-> Before(m, 2)])
      BY ONLY <3>1
    <3> QED BY <3>2, <3>3, PacketIs, Zenon
  <2>3. Segment(m, j).data = d
    BY <1>1, <1>3
  <2> QED BY <1>3, <2>2, <2>3
<1>5. c \in Nat /\ j \in Nat
  BY <1>4, SegmentsOf
<1>6. r.remaining = c - j + 1 /\ r.data = Before(m, j)
  BY <1>3, <1>4 DEF Holds
<1>7. /\ j < c => x = Before(m, j + 1)
      /\ j = c => x = Bytes(m)
  BY <1>3, <1>4, <1>6
<1>8. /\ reader \in [Nodes -> Reader] /\ broken \in [Nodes -> BOOLEAN] /\ EmptyReader \in Reader
      /\ r \in Reader /\ r.remaining \in 0..(MaxSegments - 1)
  BY <1>3, EmptyReaderIn DEF Typed, Reader
<1>9. /\ \/ r.remaining > 1 /\ Len(d) # MaxChunk
         \/ /\ r.remaining > 1
            /\ reader' = [reader EXCEPT ![n] = [data |-> x, remaining |-> r.remaining - 1]]
            /\ TakePacket(n) /\ UNCHANGED <<broken, received>>
         \/ /\ r.remaining = 1
            /\ reader' = [reader EXCEPT ![n] = EmptyReader]
            /\ \/ Head(x)[1] \in ReadableTypes /\ TakePacket(n) /\ Deliver(n, Decoded(x)) /\ UNCHANGED broken
               \/ /\ Head(x)[1] \notin ReadableTypes /\ DisconnectPeer
                  /\ broken' = [broken EXCEPT ![n] = TRUE] /\ UNCHANGED received
  BY <1>2, <1>3 DEF ReceiveChunk
<1>10. (r.remaining > 1 => j < c) /\ (r.remaining = 1 => j = c)
  BY <1>4, <1>5, <1>6
<1>11. CASE /\ r.remaining > 1
            /\ reader' = [reader EXCEPT ![n] = [data |-> x, remaining |-> r.remaining - 1]]
            /\ TakePacket(n) /\ UNCHANGED <<broken, received>>
  <2>1. PICK i, e : i = j + 1 /\ e = [data |-> x, remaining |-> r.remaining - 1]
    OBVIOUS
  <2>2. j < c /\ i \in 2..c
    BY <1>4, <1>5, <1>10, <1>11, <2>1
  <2>3. x = Before(m, i) /\ x \in Seq(Byte) /\ x # <<>>
    BY <1>4, <1>7, <2>1, <2>2, BeforeIn
  <2>4. e \in Reader
    <3>1. r.remaining - 1 \in 0..(MaxSegments - 1) /\ r.remaining - 1 # 0
      BY <1>8, <1>11, SizesAssumption
    <3> QED BY <2>1, <2>3, <3>1 DEF Reader
  <2>5. Others(n) /\ reader'[n] = e
    BY <1>8, <1>11, <2>1, <2>4 DEF Others
  <2>6. Holds(e, m, i)
    <3>1. r.remaining - 1 = c - i + 1
      BY <1>5, <1>6, <2>1
    <3> QED BY <1>3, <1>4, <2>1, <2>3, <3>1 DEF Holds
  <2> QED BY <1>3, <1>11, <2>1, <2>2, <2>5, <2>6 DEF Taken
<1>12. CASE /\ r.remaining = 1
            /\ reader' = [reader EXCEPT ![n] = EmptyReader]
            /\ \/ Head(x)[1] \in ReadableTypes /\ TakePacket(n) /\ Deliver(n, Decoded(x)) /\ UNCHANGED broken
               \/ /\ Head(x)[1] \notin ReadableTypes /\ DisconnectPeer
                  /\ broken' = [broken EXCEPT ![n] = TRUE] /\ UNCHANGED received
  <2>1. j = c /\ x = Bytes(m)
    BY <1>7, <1>10, <1>12
  <2>2. m.len \in Nat /\ m.len > 0
    BY <1>4, MessageFields, Sizes DEF Large
  <2>3. Decoded(x) = m
    BY <2>1, <2>2, ReadBack
  <2>4. Head(x)[1] = m.type
    <3>1. x \in Seq(Byte) /\ Len(x) = m.len + 2 /\ x[1] = <<m.type, 1>>
      BY <2>1, BytesOf
    <3>2. Head(x) = x[1]
      BY <3>1
    <3> QED BY <3>1, <3>2
  <2>5. Others(n)
    BY <1>8, <1>12 DEF Others
  <2>6. CASE Head(x)[1] \in ReadableTypes
    BY <1>3, <1>12, <2>1, <2>3, <2>5, <2>6 DEF Taken
  <2>7. CASE Head(x)[1] \notin ReadableTypes
    <3>1. DisconnectPeer /\ broken' = [broken EXCEPT ![n] = TRUE] /\ UNCHANGED received
      BY <1>12, <2>7
    <3>2. Refused
      BY <1>8, <3>1 DEF Refused
    <3> QED BY <2>4, <2>5, <2>7, <3>2 DEF Acceptable
  <2> QED BY <2>6, <2>7
<1> QED BY <1>4, <1>9, <1>10, <1>11, <1>12

LEMMA ChunkExpected ==
  ASSUME NEW n \in Nodes, NEW m \in Msgs, NEW j \in 1..Count(m),
         j = 1 \/ Holds(reader[n], m, j), ReceiveUnexpectedChunk(n, Segment(m, j))
  PROVE  FALSE
<1>1. PICK w : w = Segment(m, j)
  OBVIOUS
<1>2. w.tag = "chunk" /\ reader[n].remaining = 0
  BY <1>1 DEF ReceiveUnexpectedChunk, ExpectingChunk
<1>3. PICK c : c = Count(m)
  OBVIOUS
<1>4. Large(m) /\ c = NbSegments(m.len) /\ j \in 2..c
  <2>1. w.tag # "message" /\ w.tag # "start"
    BY <1>2
  <2> QED BY <1>1, <1>3, <2>1, PacketIs
<1>5. c \in Nat
  BY <1>4, SegmentsOf
<1>6. 0 = c - j + 1
  BY <1>2, <1>3, <1>4 DEF Holds
<1> QED BY <1>4, <1>5, <1>6

\* The handler takes the packet the reader waits for, or refuses what is not acceptable.
LEMMA CustomMessage ==
  ASSUME Typed, Apart, OverLightning, NEW n \in Nodes, HandleCustomMessage(n)
  PROVE  /\ transport = "lightning" /\ connected /\ Tidy /\ Others(n)
         /\ link[Peer(n)] # <<>>
         /\ \E m \in Msgs : \E j \in 1..Count(m) :
               /\ Taken(n, m, j) \/ (Refused /\ ~Acceptable(m))
               /\ j = Count(m) =>
                     \A e : Flow(Append(Arrived(n), m), sent[Peer(n)], Tail(link[Peer(n)]),
                                 outbox[Peer(n)], e)
               /\ j < Count(m) =>
                     \A e : Holds(e, m, j + 1) =>
                        Flow(Arrived(n), sent[Peer(n)], Tail(link[Peer(n)]), outbox[Peer(n)], e)
<1>1. PICK w \in Range(link[Peer(n)]) :
         /\ Arrives(n, w)
         /\ \/ ReceiveChunk(n, w)
            \/ ReceiveStart(n, w)
            \/ ReceiveMessage(n, w)
            \/ ReceiveUnexpectedChunk(n, w)
  BY DEF HandleCustomMessage
<1>2. /\ transport = "lightning" /\ connected /\ link[Peer(n)] # <<>> /\ w = Head(link[Peer(n)])
  BY <1>1 DEF Arrives
<1>3. Tidy
  BY <1>1 DEF ReceiveChunk, ReceiveStart, ReceiveMessage, ReceiveUnexpectedChunk
<1>4. PICK A, S, L, O, r : /\ A = Arrived(n) /\ S = sent[Peer(n)] /\ L = link[Peer(n)]
                           /\ O = outbox[Peer(n)] /\ r = reader[n]
  OBVIOUS
<1>5. /\ A \in Seq(Msgs) /\ S \in Seq(Msgs) /\ L \in Seq(Packet) /\ O \in Seq(Packet)
      /\ L # <<>> /\ w = Head(L)
  BY <1>2, <1>4, FlowParts
<1>6. Flow(A, S, L, O, r)
  BY <1>2, <1>4 DEF OverLightning, FlowTo
<1>7. PICK m \in Msgs : \E j \in 1..Count(m) :
            /\ Head(L) = Segment(m, j) /\ (j = 1 \/ Holds(r, m, j))
            /\ j = Count(m) => \A e : Flow(Append(A, m), S, Tail(L), O, e)
            /\ j < Count(m) => \A e : Holds(e, m, j + 1) => Flow(A, S, Tail(L), O, e)
  BY <1>5, <1>6, FlowHead
<1>8. PICK j \in 1..Count(m) :
            /\ Head(L) = Segment(m, j) /\ (j = 1 \/ Holds(r, m, j))
            /\ j = Count(m) => \A e : Flow(Append(A, m), S, Tail(L), O, e)
            /\ j < Count(m) => \A e : Holds(e, m, j + 1) => Flow(A, S, Tail(L), O, e)
  BY <1>7
<1>9. w = Segment(m, j) /\ (j = 1 \/ Holds(reader[n], m, j))
  BY <1>4, <1>5, <1>8
<1>10. Others(n) /\ (Taken(n, m, j) \/ (Refused /\ ~Acceptable(m)))
  <2>1. CASE ReceiveChunk(n, w)
    BY <1>9, <2>1, ChunkReceived
  <2>2. CASE ReceiveStart(n, w)
    BY <1>9, <2>2, StartReceived
  <2>3. CASE ReceiveMessage(n, w)
    BY <1>9, <2>3, MessageReceived
  <2>4. ~ReceiveUnexpectedChunk(n, w)
    BY <1>9, ChunkExpected
  <2> QED BY <1>1, <2>1, <2>2, <2>3, <2>4
<1> QED BY <1>2, <1>3, <1>4, <1>8, <1>10

LEMMA HandleCustomMessageKeeps ==
  ASSUME NEW n \in Nodes PROVE DeliveryInv /\ HandleCustomMessage(n) => DeliveryInv'
<1> SUFFICES ASSUME DeliveryInv, HandleCustomMessage(n) PROVE DeliveryInv'
  OBVIOUS
<1>1. Typed /\ Apart /\ OverLightning
  BY DEF DeliveryInv
<1>2. transport = "lightning" /\ connected /\ Tidy /\ Others(n) /\ link[Peer(n)] # <<>>
  BY <1>1, CustomMessage
<1>3. PICK m \in Msgs : \E j \in 1..Count(m) :
               /\ Taken(n, m, j) \/ (Refused /\ ~Acceptable(m))
               /\ j = Count(m) =>
                     \A e : Flow(Append(Arrived(n), m), sent[Peer(n)], Tail(link[Peer(n)]),
                                 outbox[Peer(n)], e)
               /\ j < Count(m) =>
                     \A e : Holds(e, m, j + 1) =>
                        Flow(Arrived(n), sent[Peer(n)], Tail(link[Peer(n)]), outbox[Peer(n)], e)
  BY <1>1, CustomMessage
<1>4. PICK j \in 1..Count(m) :
               /\ Taken(n, m, j) \/ (Refused /\ ~Acceptable(m))
               /\ j = Count(m) =>
                     \A e : Flow(Append(Arrived(n), m), sent[Peer(n)], Tail(link[Peer(n)]),
                                 outbox[Peer(n)], e)
               /\ j < Count(m) =>
                     \A e : Holds(e, m, j + 1) =>
                        Flow(Arrived(n), sent[Peer(n)], Tail(link[Peer(n)]), outbox[Peer(n)], e)
  BY <1>3
<1> DEFINE p == Peer(n)
<1>5. p \in Nodes /\ p # n /\ Peer(p) = n /\ \A k \in Nodes : k = n \/ k = p
  BY TwoParties
<1>6. /\ link \in [Nodes -> Seq(Packet)] /\ received \in [Nodes -> Seq(Msgs)]
      /\ handled \in [Nodes -> Seq(Msgs)] /\ batch \in [Nodes -> Seq(Msgs)]
      /\ reader \in [Nodes -> Reader] /\ broken \in [Nodes -> BOOLEAN]
  BY <1>1, <1>2 DEF Typed, Wire
<1>7. /\ transport' = transport /\ up' = up /\ outbox' = outbox /\ batch' = batch /\ reply' = reply
      /\ sent' = sent /\ handled' = handled /\ seized' = seized
      /\ reader' \in [Nodes -> Reader] /\ \A k \in Nodes : k # n => reader'[k] = reader[k]
  BY <1>2 DEF Tidy, Others
<1>8. ASSUME NEW k \in Nodes
      PROVE  /\ FlowTo(k) /\ Arrived(k) \in Seq(Msgs) /\ sent[Peer(k)] \in Seq(Msgs)
             /\ link[Peer(k)] \in Seq(Packet) /\ outbox[Peer(k)] \in Seq(Packet)
  BY <1>1, <1>2, FlowParts DEF OverLightning
<1>9. CASE Refused
  <2>1. connected' = FALSE /\ link' = [k \in Nodes |-> <<>>] /\ faults' = faults /\ received' = received
        /\ broken' \in [Nodes -> BOOLEAN]
    BY <1>9 DEF Refused, DisconnectPeer
  <2>2. Typed'
    <3>1. link' \in [Nodes -> Seq(Packet)]
      BY <2>1, EmptySeq
    <3> QED BY <1>1, <1>2, <1>7, <2>1, <3>1 DEF Typed, Wire
  <2>3. Apart'
    BY <1>1, <1>2, <1>7, <2>1 DEF Apart
  <2>4. ASSUME NEW k \in Nodes PROVE FlowTo(k)'
    <3>1. PICK A, S, L, O, r, e : /\ A = Arrived(k) /\ S = sent[Peer(k)] /\ L = link[Peer(k)]
                                  /\ O = outbox[Peer(k)] /\ r = reader[k] /\ e = reader'[k]
      OBVIOUS
    <3>2. /\ A \in Seq(Msgs) /\ S \in Seq(Msgs) /\ L \in Seq(Packet) /\ O \in Seq(Packet)
          /\ Flow(A, S, L, O, r)
      BY <1>8, <3>1 DEF FlowTo
    <3>3. Flow(A, S, <<>>, O, e)
      BY <3>2, FlowLost
    <3>4. Arrived(k)' = A /\ sent'[Peer(k)] = S /\ outbox'[Peer(k)] = O
      BY <1>7, <2>1, <3>1 DEF Arrived
    <3>5. link'[Peer(k)] = <<>>
      BY <2>1, TwoParties
    <3> QED BY <3>1, <3>3, <3>4, <3>5 DEF FlowTo
  <2> QED BY <1>2, <1>7, <2>2, <2>3, <2>4 DEF DeliveryInv, OverLightning, OverNostr, InMemory
<1>10. CASE Taken(n, m, j)
  <2>1. /\ link' = [link EXCEPT ![p] = Tail(link[p])] /\ connected' = connected /\ faults' = faults
        /\ broken' = broken
        /\ \/ j = Count(m) /\ received' = [received EXCEPT ![n] = Append(received[n], m)]
           \/ j < Count(m) /\ received' = received /\ Holds(reader'[n], m, j + 1)
    BY <1>10 DEF Taken, TakePacket, Deliver
  <2> HIDE DEF p
  <2>2. Tail(link[p]) \in Seq(Packet)
    BY <1>2, <1>5, <1>6, HeadTailProperties DEF p
  <2>3. Append(received[n], m) \in Seq(Msgs)
    BY <1>6, AppendProperties
  <2>4. Typed'
    <3>1. link' \in [Nodes -> Seq(Packet)]
      BY <1>6, <2>1, <2>2
    <3>2. received' \in [Nodes -> Seq(Msgs)]
      BY <1>6, <2>1, <2>3
    <3> QED BY <1>1, <1>2, <1>7, <2>1, <3>1, <3>2 DEF Typed, Wire
  <2>5. Apart'
    BY <1>1, <1>2, <1>7, <2>1 DEF Apart
  <2>6. link'[n] = link[n] /\ link'[p] = Tail(link[p])
    BY <1>5, <1>6, <2>1
  <2>7. FlowTo(p)'
    <3>1. received'[p] = received[p]
      BY <1>5, <1>6, <2>1
    <3>2. Arrived(p)' = Arrived(p)
      BY <1>7, <3>1 DEF Arrived
    <3>3. reader'[p] = reader[p]
      BY <1>5, <1>7
    <3> QED BY <1>5, <1>7, <1>8, <2>6, <3>2, <3>3 DEF FlowTo
  <2>8. FlowTo(n)'
    <3>1. CASE j = Count(m)
      <4>1. ~(j < Count(m))
        BY <3>1, CountOf
      <4>2. received' = [received EXCEPT ![n] = Append(received[n], m)]
        BY <2>1, <4>1
      <4>3. received'[n] = Append(received[n], m)
        BY <1>6, <4>2
      <4>4. Arrived(n)' = Append(Arrived(n), m)
        <5>1. PICK h, t : h = handled[n] \o batch[n] /\ t = received[n]
          OBVIOUS
        <5>2. h \in Seq(Msgs) /\ t \in Seq(Msgs)
          BY <1>1, <1>6, <5>1, ArrivedIn
        <5>3. h \o Append(t, m) = Append(h \o t, m)
          BY <5>2, AppendLast
        <5> QED BY <1>7, <4>3, <5>1, <5>3 DEF Arrived
      <4>5. Flow(Append(Arrived(n), m), sent[p], Tail(link[p]), outbox[p], reader'[n])
        BY <1>4, <3>1 DEF p
      <4> QED BY <1>7, <2>6, <4>4, <4>5 DEF FlowTo, p
    <3>2. CASE j < Count(m)
      <4>1. j # Count(m)
        BY <3>2, CountOf
      <4>2. received' = received /\ Holds(reader'[n], m, j + 1)
        BY <2>1, <4>1
      <4>3. Arrived(n)' = Arrived(n)
        BY <1>7, <4>2 DEF Arrived
      <4>4. Flow(Arrived(n), sent[p], Tail(link[p]), outbox[p], reader'[n])
        BY <1>4, <3>2, <4>2 DEF p
      <4> QED BY <1>7, <2>6, <4>3, <4>4 DEF FlowTo, p
    <3> QED BY <2>1, <3>1, <3>2
  <2> QED BY <1>2, <1>5, <1>7, <2>4, <2>5, <2>7, <2>8 DEF DeliveryInv, OverLightning, OverNostr, InMemory
<1> QED BY <1>4, <1>9, <1>10

LEMMA StepKeeps == DeliveryInv /\ [Next]_vars => DeliveryInv'
<1> SUFFICES ASSUME DeliveryInv, [Next]_vars PROVE DeliveryInv'
  OBVIOUS
<1>1. CASE UNCHANGED vars
  BY <1>1, StutterKeeps
<1>2. CASE Connect
  BY <1>2, ConnectKeeps
<1>3. CASE Disconnect
  BY <1>3, DisconnectKeeps
<1>4. ASSUME NEW n \in Nodes, NEW m \in Openings[n], Send(n, m) PROVE DeliveryInv'
  BY <1>4, SendKeeps
<1>5. ASSUME NEW n \in Nodes, Flush(n) PROVE DeliveryInv'
  BY <1>5, FlushKeeps
<1>6. ASSUME NEW n \in Nodes, HandleCustomMessage(n) PROVE DeliveryInv'
  BY <1>6, HandleCustomMessageKeeps
<1>7. ASSUME NEW n \in Nodes, TakeReceived(n) PROVE DeliveryInv'
  BY <1>7, TakeReceivedKeeps
<1>8. ASSUME NEW n \in Nodes, ProcessMessage(n) PROVE DeliveryInv'
  BY <1>8, ProcessMessageKeeps
<1>9. ASSUME NEW n \in Nodes, HandleEvent(n) PROVE DeliveryInv'
  BY <1>9, HandleEventKeeps
<1>10. ASSUME NEW n \in Nodes, ReceiveMemory(n) PROVE DeliveryInv'
  BY <1>10, ReceiveMemoryKeeps
<1>11. ASSUME NEW n \in Nodes, AnswerMemory(n) PROVE DeliveryInv'
  BY <1>11, AnswerMemoryKeeps
<1>12. ASSUME NEW n \in Nodes, Stop(n) PROVE DeliveryInv'
  BY <1>12, StopKeeps
<1>13. ASSUME NEW n \in Nodes, Start(n) PROVE DeliveryInv'
  BY <1>13, StartKeeps
<1> QED BY <1>1, <1>2, <1>3, <1>4, <1>5, <1>6, <1>7, <1>8, <1>9, <1>10, <1>11, <1>12, <1>13 DEF Next

LEMMA DeliveryHolds == Spec => []DeliveryInv
<1>1. Init => DeliveryInv
  BY DeliveryInit
<1>2. DeliveryInv /\ [Next]_vars => DeliveryInv'
  BY StepKeeps
<1> QED BY <1>1, <1>2, PTL DEF Spec

\* What a party gets is what the other one sent: over lightning and in memory in its order
\* and once, over a relay once, and always whole, for every size of message and of packet,
\* wherever connections break and processes stop (send_message and handle_custom_message of
\* the MessageHandler, SegmentReader, the listeners of the transports).
THEOREM MessagesArriveAsSent == Spec => []MessagingInv
<1>1. DeliveryInv => MessagingInv
  BY DeliveryMeans
<1> QED BY <1>1, DeliveryHolds, PTL

\* When every message has a type the handler reads and no more segments than it takes, only
\* a fault ends a connection, or a process_events that panicked over a packet: the reader is
\* never surprised by what a handler like it sent, not even after the connection broke in the
\* middle of a message (process_segment_start, process_segment_chunk, SegmentReader::reset).
THEOREM OnlyFaultsDisconnect ==
  ASSUME \A m \in Msgs : /\ m.type \in ReadableTypes
                         /\ m.len > MaxBuf => NbSegments(m.len) <= MaxSegments
  PROVE  Spec => HonestPeerStaysConnected
<1> DEFINE Excused == faults' > faults \/ \E n \in Nodes : seized[n]
<1>1. \A m \in Msgs : Acceptable(m)
  BY DEF Acceptable, Large
<1>2. DeliveryInv /\ [Next]_vars => [connected /\ ~connected' => Excused]_vars
  <2> SUFFICES ASSUME DeliveryInv, Next, connected, ~connected' PROVE Excused
    OBVIOUS
  <2>1. Typed /\ Apart /\ OverLightning /\ faults \in Nat
    BY SizesAssumption DEF DeliveryInv, Typed
  <2>2. CASE Connect
    BY <2>2 DEF Connect
  <2>3. CASE Disconnect
    <3>1. faults' = faults + 1 \/ \E n \in Nodes : seized[n]
      BY <2>3 DEF Disconnect
    <3> QED BY <2>1, <3>1
  <2>4. ASSUME NEW n \in Nodes, Stop(n) PROVE Excused
    <3>1. faults' = faults + 1
      BY <2>4 DEF Stop
    <3> QED BY <2>1, <3>1
  <2>5. ASSUME NEW n \in Nodes, HandleCustomMessage(n) PROVE FALSE
    <3>1. \E m \in Msgs : \E j \in 1..Count(m) : Taken(n, m, j) \/ (Refused /\ ~Acceptable(m))
      BY <2>1, <2>5, CustomMessage
    <3>2. PICK m \in Msgs : \E j \in 1..Count(m) : Taken(n, m, j)
      BY <1>1, <3>1
    <3> QED BY <3>2 DEF Taken, TakePacket
  <2>6. ASSUME NEW n \in Nodes, NEW m \in Openings[n], Send(n, m) PROVE FALSE
    BY <2>6 DEF Send
  <2>7. ASSUME NEW n \in Nodes, Flush(n) PROVE FALSE
    BY <2>7 DEF Flush
  <2>8. ASSUME NEW n \in Nodes, TakeReceived(n) PROVE FALSE
    BY <2>8 DEF TakeReceived
  <2>9. ASSUME NEW n \in Nodes, ProcessMessage(n) PROVE FALSE
    BY <2>9 DEF ProcessMessage
  <2>10. ASSUME NEW n \in Nodes, HandleEvent(n) PROVE FALSE
    BY <2>10 DEF HandleEvent
  <2>11. ASSUME NEW n \in Nodes, ReceiveMemory(n) PROVE FALSE
    BY <2>11 DEF ReceiveMemory
  <2>12. ASSUME NEW n \in Nodes, AnswerMemory(n) PROVE FALSE
    BY <2>12 DEF AnswerMemory
  <2>13. ASSUME NEW n \in Nodes, Start(n) PROVE FALSE
    BY <2>13 DEF Start
  <2> QED BY <2>2, <2>3, <2>4, <2>5, <2>6, <2>7, <2>8, <2>9, <2>10, <2>11, <2>12, <2>13 DEF Next
<1>3. Spec => []DeliveryInv
  BY DeliveryHolds
<1> QED BY <1>2, <1>3, PTL DEF Spec, HonestPeerStaysConnected

-----------------------------------------------------------------------------
(* The limit of a packet.                                                  *)

\* A message this long is not segmented, and with its type makes a packet that cannot be sent.
Unsendable == (MaxData - 1)..MaxBuf

LEMMA FittingPackets ==
  ASSUME NEW m \in Msgs, m.len \notin Unsendable, NEW j \in 1..Count(m)
  PROVE  Fits(Segment(m, j))
<1>1. m.len \in Nat
  BY MessageFields
<1>2. CASE ~Large(m) /\ Segment(m, j) = [tag |-> "message", msg |-> m]
  <2>1. m.len + 2 <= MaxData
    BY <1>1, <1>2, SizesAssumption DEF Large, Unsendable, MaxBuf
  <2> QED BY <1>2, <2>1 DEF Fits, PacketLength
<1>3. CASE Large(m) /\ Segment(m, j) = [tag |-> "start", nb |-> Count(m), data |-> Before(m, 2)]
  <2>1. NbSegments(m.len) \in Nat /\ NbSegments(m.len) >= 2
    BY <1>3, SegmentsOf
  <2>2. Len(Before(m, 2)) = MaxStartData
    BY <1>3, <2>1, BeforeIn
  <2>3. MaxStartData + 9 <= MaxData
    BY SizesAssumption DEF MaxStartData
  <2> QED BY <1>3, <2>2, <2>3 DEF Fits, PacketLength
<1>4. CASE Segment(m, j).tag = "chunk" /\ Len(Segment(m, j).data) \in 0..MaxChunk
  <2>1. PICK w : w = Segment(m, j)
    OBVIOUS
  <2>2. PICK k : k = Len(w.data)
    OBVIOUS
  <2>3. k + 7 <= MaxData
    BY <1>4, <2>1, <2>2, SizesAssumption DEF MaxChunk
  <2> QED BY <1>4, <2>1, <2>2, <2>3 DEF Fits, PacketLength
<1> QED BY <1>2, <1>3, <1>4, PacketIs

\* When no message has one of the three lengths just above the limit of a packet, everything the
\* MessageHandler queues can be sent: its segments are as large as a packet may be and no larger
\* (get_segments, MAX_START_DATA_SIZE, MAX_CHUNK_SIZE).
THEOREM PacketsFitOutsideTheGap ==
  ASSUME \A m \in Msgs : m.len \notin Unsendable
  PROVE  Spec => []PacketsFit
<1>1. DeliveryInv => PacketsFit
  <2> SUFFICES ASSUME DeliveryInv, NEW n \in Nodes, NEW w \in Range(outbox[n]) PROVE Fits(w)
    BY DEF PacketsFit
  <2>1. outbox[n] \in Seq(Packet)
    BY DEF DeliveryInv, Typed
  <2>2. w \in Packet
    BY <2>1, RangeOfSeq
  <2>3. PICK m \in Msgs : \E j \in 1..Count(m) : w = Segment(m, j)
    BY <2>2 DEF Packet
  <2> QED BY <2>3, FittingPackets
<1> QED BY <1>1, DeliveryHolds, PTL

\* And when every message can also be read and reassembled, nothing but a fault ends a
\* connection: process_events never panics over what the handler queued.
THEOREM SendablePeersDisconnectByFaults ==
  ASSUME \A m \in Msgs : /\ m.type \in ReadableTypes
                         /\ m.len > MaxBuf => NbSegments(m.len) <= MaxSegments,
         \A m \in Msgs : m.len \notin Unsendable
  PROVE  Spec => [][connected /\ ~connected' => faults' > faults]_vars
<1>1. Init => \A n \in Nodes : ~seized[n]
  BY DEF Init
<1>2. PacketsFit /\ (\A n \in Nodes : ~seized[n]) /\ DeliveryInv /\ [Next]_vars
         => (\A n \in Nodes : ~seized[n])'
  <2> SUFFICES ASSUME PacketsFit, \A n \in Nodes : ~seized[n], DeliveryInv, [Next]_vars,
                      NEW k \in Nodes
               PROVE  ~seized'[k]
    OBVIOUS
  <2>1. seized \in [Nodes -> BOOLEAN]
    BY DEF DeliveryInv, Typed
  <2>2. ASSUME UNCHANGED seized PROVE ~seized'[k]
    BY <2>2
  <2>3. CASE UNCHANGED vars \/ Connect \/ Disconnect
    BY <2>2, <2>3 DEF vars, Connect, Disconnect
  <2>4. ASSUME NEW n \in Nodes, Flush(n) PROVE ~seized'[k]
    BY <2>4 DEF Flush, PacketsFit
  <2>5. ASSUME NEW n \in Nodes, Stop(n) PROVE ~seized'[k]
    BY <2>1, <2>5 DEF Stop
  <2>6. ASSUME NEW n \in Nodes, HandleCustomMessage(n) PROVE ~seized'[k]
    BY <2>6 DEF HandleCustomMessage, ReceiveChunk, ReceiveStart, ReceiveMessage,
             ReceiveUnexpectedChunk, Tidy
  <2>7. ASSUME NEW n \in Nodes, NEW m \in Openings[n], Send(n, m) PROVE ~seized'[k]
    BY <2>7 DEF Send
  <2>8. ASSUME NEW n \in Nodes, TakeReceived(n) \/ ProcessMessage(n) \/ HandleEvent(n)
                                \/ ReceiveMemory(n) \/ AnswerMemory(n) \/ Start(n)
        PROVE ~seized'[k]
    BY <2>8 DEF TakeReceived, ProcessMessage, HandleEvent, ReceiveMemory, AnswerMemory, Start
  <2> QED BY <2>3, <2>4, <2>5, <2>6, <2>7, <2>8 DEF Next
<1>3. Spec => [](\A n \in Nodes : ~seized[n])
  <2>1. Spec => []PacketsFit
    BY PacketsFitOutsideTheGap
  <2> QED BY <1>1, <1>2, <2>1, DeliveryHolds, PTL DEF Spec
<1>4. (\A n \in Nodes : ~seized[n])
         /\ [connected /\ ~connected' => faults' > faults \/ \E n \in Nodes : seized[n]]_vars
      => [connected /\ ~connected' => faults' > faults]_vars
  OBVIOUS
<1>5. Spec => [][connected /\ ~connected' => faults' > faults \/ \E n \in Nodes : seized[n]]_vars
  BY OnlyFaultsDisconnect DEF HonestPeerStaysConnected
<1> QED BY <1>3, <1>4, <1>5, PTL

=============================================================================
