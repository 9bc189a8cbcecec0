---------------------- MODULE ContractSignatureProofs -----------------------
(***************************************************************************)
(* Proofs about the exchange of signatures for a contract, for any legs,   *)
(* oracles, thresholds, inputs and number of wrong arguments.              *)
(*                                                                         *)
(* Both properties rest on the lists of signatures: the iterator yields    *)
(* every combination once (a loop, which the sections on it unroll), so    *)
(* that the place a signature is verified at is the place it is looked up  *)
(* at, for every outcome and combination of every leg.  SignaturesInv and  *)
(* MessagesInv say that what is kept was verified; HonestInv, that without *)
(* a wrong argument the calls agree.                                       *)
(***************************************************************************)
EXTENDS ContractSignatures, FiniteSetTheorems, WellFoundedInduction, TLAPS

-----------------------------------------------------------------------------
(***************************************************************************)
(* Induction over the numbers, by the least number not in a set.           *)
(***************************************************************************)
\* A set of numbers has a least one.
LEMMA LeastNumber ==
    ASSUME NEW S \in SUBSET Nat, S # {}
    PROVE  \E m \in S : \A k \in S : m <= k
<1>1. PICK m \in S : \A k \in S : ~(<<k, m>> \in OpToRel(<, Nat))
  BY WFMin, NatLessThanWellFounded
<1>2. ASSUME NEW k \in S PROVE m <= k
  <2>1. ~(<<k, m>> \in OpToRel(<, Nat)) /\ k \in Nat /\ m \in Nat
    BY <1>1
  <2>2. ~(k < m)
    BY <2>1 DEF OpToRel
  <2>3. k \in Nat /\ m \in Nat
    BY <2>1
  <2> QED BY <2>2, <2>3
<1> QED BY <1>2

\* What holds of 0, and of n + 1 when it holds of n, holds of every number.
LEMMA Induction ==
    ASSUME NEW S, 0 \in S, \A n \in Nat : n \in S => n + 1 \in S
    PROVE  \A n \in Nat : n \in S
<1> DEFINE T == {n \in Nat : n \notin S}
<1> SUFFICES ASSUME T # {} PROVE FALSE
  OBVIOUS
<1>1. PICK m \in T : \A k \in T : m <= k
  BY LeastNumber
<1>2. m \in Nat /\ m # 0 /\ m - 1 \in Nat /\ (m - 1) + 1 = m
  BY <1>1
<1>3. m - 1 \notin T
  BY <1>1, <1>2
<1> QED BY <1>1, <1>2, <1>3

-----------------------------------------------------------------------------
(***************************************************************************)
(* Joining lists.                                                          *)
(***************************************************************************)
Joins(f, parts, n) == f = [i \in 1..n |-> IF i = 1 THEN parts[i] ELSE f[i - 1] \o parts[i]]

\* The sequences of a sequence can be joined one after another.
LEMMA JoinsExist ==
    ASSUME NEW parts, NEW n \in Nat
    PROVE  \E f : Joins(f, parts, n)
<1> DEFINE T == {k \in Nat : \E f : Joins(f, parts, k)}
<1>1. 0 \in T
  <2>1. Joins([i \in 1..0 |-> 0], parts, 0)
    BY DEF Joins
  <2> QED BY <2>1
<1>2. ASSUME NEW k \in Nat, k \in T PROVE k + 1 \in T
  <2>1. PICK f : Joins(f, parts, k)
    BY <1>2
  <2> DEFINE g == [i \in 1..(k + 1) |-> IF i = 1 THEN parts[i] ELSE f[i - 1] \o parts[i]]
  <2>2. ASSUME NEW i \in 1..k PROVE g[i] = f[i]
    <3>1. f[i] = IF i = 1 THEN parts[i] ELSE f[i - 1] \o parts[i]
      BY <2>1 DEF Joins
    <3>2. i \in 1..(k + 1)
      OBVIOUS
    <3> QED BY <3>1, <3>2
  <2>3. ASSUME NEW i \in 1..(k + 1)
        PROVE  g[i] = IF i = 1 THEN parts[i] ELSE g[i - 1] \o parts[i]
    <3>1. g[i] = IF i = 1 THEN parts[i] ELSE f[i - 1] \o parts[i]
      OBVIOUS
    <3>2. i # 1 => i - 1 \in 1..k
      OBVIOUS
    <3> HIDE DEF g
    <3> QED BY <2>2, <3>1, <3>2
  <2>4. g = [i \in 1..(k + 1) |-> g[i]]
    OBVIOUS
  <2> HIDE DEF g
  <2>5. Joins(g, parts, k + 1)
    BY <2>3, <2>4 DEF Joins
  <2> QED BY <2>5
<1>3. \A k \in Nat : k \in T
  <2> HIDE DEF T
  <2> QED BY <1>1, <1>2, Induction
<1> QED BY <1>3

\* FlattenSeq joins them.
LEMMA FlattenIsJoin ==
    ASSUME NEW parts, Len(parts) \in Nat
    PROVE  /\ Len(parts) = 0 => FlattenSeq(parts) = parts
           /\ Len(parts) > 0 => \E f : /\ Joins(f, parts, Len(parts))
                                       /\ FlattenSeq(parts) = f[Len(parts)]
<1> DEFINE f == CHOOSE f : Joins(f, parts, Len(parts))
<1>1. Joins(f, parts, Len(parts))
  BY JoinsExist
<1>2. Len(parts) # 0 => FlattenSeq(parts) = f[Len(parts)]
  BY DEF FlattenSeq, Joins
<1>3. Len(parts) = 0 => FlattenSeq(parts) = parts
  BY DEF FlattenSeq
<1> HIDE DEF f
<1> QED BY <1>1, <1>2, <1>3

-----------------------------------------------------------------------------
(***************************************************************************)
(* Ordering by serial ids.                                                 *)
(***************************************************************************)
Earlier(ids, i) == {j \in DOMAIN ids : ids[j] < ids[i] \/ (ids[j] = ids[i] /\ j < i)}

\* No two elements have the same place, and the smaller one has the smaller place.
LEMMA PlacesAreDistinct ==
    ASSUME NEW n \in Nat, NEW ids, DOMAIN ids = 1..n, \A i \in 1..n : ids[i] \in Int
    PROVE  /\ \A i \in 1..n : Place(ids, i) \in 1..n
           /\ \A i, j \in 1..n : Place(ids, i) = Place(ids, j) => i = j
           /\ \A i, j \in 1..n : ids[i] < ids[j] => Place(ids, i) < Place(ids, j)
<1> DEFINE N == 1..n
           E(i) == Earlier(ids, i)
           Before(j, i) == ids[j] < ids[i] \/ (ids[j] = ids[i] /\ j < i)
<1>1. IsFiniteSet(N) /\ Cardinality(N) = n
  BY FS_Interval
<1>2. \A i, j \in N : j \in E(i) <=> Before(j, i)
  BY DEF Earlier
<1>3. \A i \in N : E(i) \subseteq N
  BY DEF Earlier
<1>4. \A i, j, k \in N : /\ ~Before(i, i)
                         /\ Before(i, j) /\ Before(j, k) => Before(i, k)
                         /\ i # j => Before(i, j) \/ Before(j, i)
  <2>1. \A i \in N : ids[i] \in Int /\ i \in Int
    OBVIOUS
  <2> HIDE DEF N
  <2> QED BY <2>1
<1>5. \A i \in N : Place(ids, i) = 1 + Cardinality(E(i))
  BY DEF Place, Earlier
<1> HIDE DEF N, E, Before
<1>6. ASSUME NEW i \in N, NEW j \in N, Before(i, j) PROVE Cardinality(E(i)) < Cardinality(E(j))
  <2>1. IsFiniteSet(E(i)) /\ IsFiniteSet(E(j))
    BY <1>1, <1>3, FS_Subset
  <2>2. i \notin E(i)
    BY <1>2, <1>4
  <2>3. E(i) \cup {i} \subseteq E(j)
    BY <1>2, <1>3, <1>4, <1>6
  <2>4. Cardinality(E(i) \cup {i}) = Cardinality(E(i)) + 1
    BY <2>1, <2>2, FS_AddElement
  <2> DEFINE S == E(i) \cup {i}
  <2> HIDE DEF S
  <2>5. Cardinality(S) <= Cardinality(E(j))
    BY <2>1, <2>3, FS_Subset DEF S
  <2>6. Cardinality(E(i)) \in Nat /\ Cardinality(E(j)) \in Nat
    BY <2>1, FS_CardinalityType
  <2> QED BY <2>4, <2>5, <2>6 DEF S
<1>7. ASSUME NEW i \in N PROVE Place(ids, i) \in 1..n
  <2> DEFINE R == N \ {i}
  <2>1. E(i) \subseteq R
    BY <1>2, <1>3, <1>4
  <2>2. IsFiniteSet(R) /\ Cardinality(R) = n - 1
    BY <1>1, FS_RemoveElement
  <2> HIDE DEF R
  <2>3. Cardinality(E(i)) \in Nat /\ Cardinality(E(i)) <= Cardinality(R)
    BY <2>1, <2>2, FS_Subset, FS_CardinalityType
  <2> QED BY <1>5, <2>2, <2>3
<1>8. ASSUME NEW i \in N, NEW j \in N, Place(ids, i) = Place(ids, j) PROVE i = j
  <2>1. Cardinality(E(i)) = Cardinality(E(j)) /\ Cardinality(E(i)) \in Nat /\ Cardinality(E(j)) \in Nat
    <3>1. IsFiniteSet(E(i)) /\ IsFiniteSet(E(j))
      BY <1>1, <1>3, FS_Subset
    <3> QED BY <1>5, <1>8, <3>1, FS_CardinalityType
  <2>2. ~Before(i, j) /\ ~Before(j, i)
    BY <1>6, <2>1
  <2> QED BY <1>4, <2>2
<1>9. ASSUME NEW i \in N, NEW j \in N, ids[i] < ids[j] PROVE Place(ids, i) < Place(ids, j)
  <2>1. Before(i, j)
    BY <1>9 DEF Before
  <2>2. Cardinality(E(i)) < Cardinality(E(j))
    BY <1>6, <2>1
  <2>3. IsFiniteSet(E(i)) /\ IsFiniteSet(E(j))
    BY <1>1, <1>3, FS_Subset
  <2>4. Cardinality(E(i)) \in Nat /\ Cardinality(E(j)) \in Nat
    BY <2>3, FS_CardinalityType
  <2> QED BY <1>5, <2>2, <2>4
<1>10. \A i \in N : Place(ids, i) \in 1..n
  BY ONLY <1>7
<1>11. \A i, j \in N : Place(ids, i) = Place(ids, j) => i = j
  BY ONLY <1>8
<1>12. \A i, j \in N : ids[i] < ids[j] => Place(ids, i) < Place(ids, j)
  BY ONLY <1>9
<1> QED BY ONLY <1>10, <1>11, <1>12 DEF N

\* Every place is that of an element, as there are as many of both.
LEMMA PlacesAreTaken ==
    ASSUME NEW n \in Nat, NEW ids, DOMAIN ids = 1..n, \A i \in 1..n : ids[i] \in Int
    PROVE  \A k \in 1..n : \E i \in 1..n : Place(ids, i) = k
<1> DEFINE N == 1..n
           f == [i \in N |-> Place(ids, i)]
<1>1. IsFiniteSet(N)
  BY FS_Interval
<1>2. f \in Injection(N, N)
  BY PlacesAreDistinct DEF Injection, IsInjective
<1> HIDE DEF f, N
<1>3. f \in Surjection(N, N)
  BY <1>1, <1>2, FS_Injection
<1> QED BY <1>3 DEF Surjection, f, N

-----------------------------------------------------------------------------
(***************************************************************************)
(* Repeating a step.                                                       *)
(***************************************************************************)
\* f[i] is what the step makes of first after i times.
Repeats(f, k, S, first, step) ==
    /\ f \in [0..k -> S] /\ f[0] = first
    /\ \A i \in 1..k : f[i] = step[f[i - 1]]

\* A step can be repeated any number of times.
LEMMA RepeatsExist ==
    ASSUME NEW S, NEW first \in S, NEW step \in [S -> S]
    PROVE  \A k \in Nat : \E f : Repeats(f, k, S, first, step)
<1> DEFINE T == {k \in Nat : \E f : Repeats(f, k, S, first, step)}
<1>1. 0 \in T
  <2>1. Repeats([i \in 0..0 |-> first], 0, S, first, step)
    BY DEF Repeats
  <2> QED BY <2>1
<1>2. ASSUME NEW k \in Nat, k \in T PROVE k + 1 \in T
  <2>1. PICK f : Repeats(f, k, S, first, step)
    BY <1>2
  <2> DEFINE g == [i \in 0..(k + 1) |-> IF i = k + 1 THEN step[f[k]] ELSE f[i]]
  <2>2. f \in [0..k -> S] /\ f[0] = first /\ f[k] \in S /\ step[f[k]] \in S
    BY <2>1 DEF Repeats
  <2>3. g \in [0..(k + 1) -> S] /\ g[0] = first
    BY <2>2
  <2>4. ASSUME NEW i \in 1..(k + 1) PROVE g[i] = step[g[i - 1]]
    <3>1. CASE i = k + 1
      <4>1. g[i] = step[f[k]] /\ g[i - 1] = f[k]
        BY <3>1
      <4> QED BY <4>1
    <3>2. CASE i # k + 1
      <4>1. i \in 1..k /\ i - 1 \in 0..(k + 1) /\ i \in 0..(k + 1) /\ i - 1 # k + 1
        BY <3>2
      <4>2. g[i] = f[i] /\ g[i - 1] = f[i - 1]
        BY <3>2, <4>1
      <4> QED BY <2>1, <4>1, <4>2 DEF Repeats
    <3> QED BY <3>1, <3>2
  <2> HIDE DEF g
  <2>5. Repeats(g, k + 1, S, first, step)
    BY <2>3, <2>4 DEF Repeats
  <2> QED BY <2>5
<1>3. \A k \in Nat : k \in T
  <2> HIDE DEF T
  <2> QED BY <1>1, <1>2, Induction
<1> QED BY <1>3

\* There is one way to repeat it.
LEMMA RepeatsAgree ==
    ASSUME NEW S, NEW first, NEW step, NEW k \in Nat, NEW l \in Nat, NEW f, NEW g,
           Repeats(f, k, S, first, step), Repeats(g, l, S, first, step)
    PROVE  \A i \in Nat : i <= k /\ i <= l => f[i] = g[i]
<1> DEFINE T == {i \in Nat : i <= k /\ i <= l => f[i] = g[i]}
<1>1. 0 \in T
  BY DEF Repeats
<1>2. ASSUME NEW i \in Nat, i \in T PROVE i + 1 \in T
  <2> SUFFICES ASSUME i + 1 <= k, i + 1 <= l PROVE f[i + 1] = g[i + 1]
    OBVIOUS
  <2>1. f[i] = g[i] /\ i + 1 \in 1..k /\ i + 1 \in 1..l /\ (i + 1) - 1 = i
    BY <1>2
  <2>2. f[i + 1] = step[f[(i + 1) - 1]] /\ g[i + 1] = step[g[(i + 1) - 1]]
    BY <2>1 DEF Repeats
  <2> QED BY <2>1, <2>2
<1>3. \A i \in Nat : i \in T
  <2> HIDE DEF T
  <2> QED BY <1>1, <1>2, Induction
<1> QED BY <1>3

\* The function that counts the repetitions of a step.
LEMMA RepetitionsExist ==
    ASSUME NEW S, NEW first \in S, NEW step \in [S -> S]
    PROVE  \E f \in [Nat -> S] : /\ f[0] = first
                                 /\ \A i \in Nat : f[i + 1] = step[f[i]]
<1> DEFINE R(i) == CHOOSE f : Repeats(f, i, S, first, step)
           F == [i \in Nat |-> R(i)[i]]
<1>1. \A i \in Nat : Repeats(R(i), i, S, first, step)
  BY RepeatsExist
<1> HIDE DEF R
<1>2. \A i \in Nat : F[i] = R(i)[i]
  OBVIOUS
<1>3. F \in [Nat -> S] /\ F[0] = first
  <2>1. \A i \in Nat : R(i)[i] \in S
    BY <1>1 DEF Repeats
  <2>2. R(0)[0] = first
    BY <1>1 DEF Repeats
  <2> QED BY <2>1, <2>2
<1>4. ASSUME NEW i \in Nat PROVE F[i + 1] = step[F[i]]
  <2>1. i + 1 \in Nat /\ i + 1 \in 1..(i + 1) /\ (i + 1) - 1 = i /\ i <= i + 1 /\ i <= i
    OBVIOUS
  <2>2. Repeats(R(i), i, S, first, step) /\ Repeats(R(i + 1), i + 1, S, first, step)
    BY <1>1, <2>1
  <2>3. R(i)[i] = R(i + 1)[i]
    BY <2>1, <2>2, RepeatsAgree
  <2>4. R(i + 1)[i + 1] = step[R(i + 1)[(i + 1) - 1]]
    BY <2>1, <2>2 DEF Repeats
  <2> HIDE DEF F
  <2>5. F[i] = R(i)[i] /\ F[i + 1] = R(i + 1)[i + 1]
    BY <1>2, <2>1
  <2> QED BY <2>1, <2>3, <2>4, <2>5
<1> HIDE DEF F
<1> QED BY <1>3, <1>4

-----------------------------------------------------------------------------
(***************************************************************************)
(* The iterator yields every combination once, in lexicographic order.     *)
(***************************************************************************)
\* The selectors: the elements chosen, the least first.
Selectors(n, k) == {s \in [1..k -> 0..(n - 1)] : \A i, j \in 1..k : i < j => s[i] < s[j]}
\* t comes later than s.
Later(s, t, k) == \E c \in 1..k : /\ \A i \in 1..k : i < c => s[i] = t[i]
                                  /\ s[c] < t[c]

\* Elements further on are larger, by as much as they are further on.
LEMMA SelectorGrows ==
    ASSUME NEW n \in Nat, NEW k \in Nat, NEW s \in Selectors(n, k)
    PROVE  \A i, j \in 1..k : i <= j => s[j] - s[i] >= j - i
<1> DEFINE T == {d \in Nat : \A i \in 1..k : i + d <= k => s[i + d] - s[i] >= d}
<1>1. \A i \in 1..k : s[i] \in Int
  BY DEF Selectors
<1>2. 0 \in T
  BY <1>1
<1>3. ASSUME NEW d \in Nat, d \in T PROVE d + 1 \in T
  <2> SUFFICES ASSUME NEW i \in 1..k, i + (d + 1) <= k PROVE s[i + (d + 1)] - s[i] >= d + 1
    OBVIOUS
  <2>1. i + d \in 1..k /\ i + (d + 1) \in 1..k /\ i + d < i + (d + 1)
    OBVIOUS
  <2>2. s[i + d] - s[i] >= d
    BY <1>3, <2>1
  <2>3. s[i + d] < s[i + (d + 1)]
    BY <2>1 DEF Selectors
  <2>4. s[i] \in Int /\ s[i + d] \in Int /\ s[i + (d + 1)] \in Int
    BY <1>1, <2>1
  <2> QED BY <2>2, <2>3, <2>4
<1>4. \A d \in Nat : d \in T
  <2> HIDE DEF T
  <2> QED BY <1>2, <1>3, Induction
<1> SUFFICES ASSUME NEW i \in 1..k, NEW j \in 1..k, i <= j PROVE s[j] - s[i] >= j - i
  OBVIOUS
<1>5. j - i \in Nat /\ i + (j - i) = j
  OBVIOUS
<1>6. j - i \in T
  BY <1>4, <1>5
<1> QED BY <1>5, <1>6

\* An element leaves room for those that follow it, and for those before it.
LEMMA SelectorBounds ==
    ASSUME NEW n \in Nat, NEW k \in Nat \ {0}, NEW s \in Selectors(n, k)
    PROVE  \A i \in 1..k : s[i] \in Int /\ s[i] >= i - 1 /\ s[i] <= n - 1 - (k - i)
<1> SUFFICES ASSUME NEW i \in 1..k PROVE s[i] \in Int /\ s[i] >= i - 1 /\ s[i] <= n - 1 - (k - i)
  OBVIOUS
<1>1. 1 \in 1..k /\ k \in 1..k /\ 1 <= i /\ i <= k
  OBVIOUS
<1>2. s[1] \in 0..(n - 1) /\ s[i] \in 0..(n - 1) /\ s[k] \in 0..(n - 1)
  BY <1>1 DEF Selectors
<1>3. s[i] - s[1] >= i - 1 /\ s[k] - s[i] >= k - i
  BY <1>1, SelectorGrows
<1> QED BY <1>2, <1>3

\* Of two selectors one is later: they differ somewhere first.
LEMMA FirstDifference ==
    ASSUME NEW n \in Nat, NEW k \in Nat, NEW s \in Selectors(n, k), NEW t \in Selectors(n, k), s # t
    PROVE  \E c \in 1..k : s[c] # t[c] /\ \A i \in 1..k : i < c => s[i] = t[i]
<1> DEFINE D == {i \in 1..k : s[i] # t[i]}
<1>1. D \in SUBSET Nat /\ D # {}
  <2>1. s \in [1..k -> 0..(n - 1)] /\ t \in [1..k -> 0..(n - 1)]
    BY DEF Selectors
  <2>2. (\A i \in 1..k : s[i] = t[i]) => s = t
    BY <2>1
  <2> QED BY <2>2
<1>2. PICK c \in D : \A i \in D : c <= i
  <2> HIDE DEF D
  <2> QED BY <1>1, LeastNumber
<1> QED BY <1>2

\* Equal as far as one is later than the other.
LEMMA NoneSmallerIsLater ==
    ASSUME NEW n \in Nat, NEW k \in Nat, NEW s \in Selectors(n, k), NEW t \in Selectors(n, k),
           \A i \in 1..k : s[i] <= t[i]
    PROVE  s = t \/ Later(s, t, k)
<1> SUFFICES ASSUME s # t PROVE Later(s, t, k)
  OBVIOUS
<1>1. PICK c \in 1..k : s[c] # t[c] /\ \A i \in 1..k : i < c => s[i] = t[i]
  BY FirstDifference
<1>2. s[c] \in Int /\ t[c] \in Int
  BY DEF Selectors
<1>3. s[c] < t[c]
  BY <1>1, <1>2
<1> QED BY <1>1, <1>3 DEF Later

\* Being later is an order.
LEMMA LaterIsOrder ==
    ASSUME NEW n \in Nat, NEW k \in Nat,
           NEW r \in Selectors(n, k), NEW s \in Selectors(n, k), NEW t \in Selectors(n, k)
    PROVE  /\ ~Later(s, s, k)
           /\ Later(r, s, k) /\ Later(s, t, k) => Later(r, t, k)
<1>1. \A i \in 1..k : r[i] \in Int /\ s[i] \in Int /\ t[i] \in Int
  BY DEF Selectors
<1>2. ~Later(s, s, k)
  BY <1>1 DEF Later
<1>3. ASSUME Later(r, s, k), Later(s, t, k) PROVE Later(r, t, k)
  <2>1. PICK c \in 1..k : (\A i \in 1..k : i < c => r[i] = s[i]) /\ r[c] < s[c]
    BY <1>3 DEF Later
  <2>2. PICK d \in 1..k : (\A i \in 1..k : i < d => s[i] = t[i]) /\ s[d] < t[d]
    BY <1>3 DEF Later
  <2>3. CASE c < d
    <3>1. s[c] = t[c] /\ \A i \in 1..k : i < c => r[i] = t[i]
      BY <2>1, <2>2, <2>3
    <3> QED BY <2>1, <3>1 DEF Later
  <2>4. CASE d < c
    <3>1. r[d] = s[d] /\ \A i \in 1..k : i < d => r[i] = t[i]
      BY <2>1, <2>2, <2>4
    <3> QED BY <2>2, <3>1 DEF Later
  <2>5. CASE c = d
    <3>1. r[c] < t[c] /\ \A i \in 1..k : i < c => r[i] = t[i]
      BY <1>1, <2>1, <2>2, <2>5
    <3> QED BY <3>1 DEF Later
  <2> QED BY <2>3, <2>4, <2>5
<1> QED BY <1>2, <1>3

\* What an element of a selector may be replaced by.
Movable(n, k, s) == {i \in 1..k : s[i] # n - 1 - (k - i)} \cup {1}

\* The last element that can move is one of those, and none after it can.
LEMMA LastMovable ==
    ASSUME NEW n \in Nat, NEW k \in Nat \ {0}, NEW s
    PROVE  /\ Max(Movable(n, k, s)) \in 1..k
           /\ Max(Movable(n, k, s)) \in Movable(n, k, s)
           /\ \A i \in 1..k : i > Max(Movable(n, k, s)) => s[i] = n - 1 - (k - i)
<1> DEFINE M == Movable(n, k, s)
           B == {k - i : i \in M}
<1>1. M \subseteq 1..k /\ 1 \in M
  BY DEF Movable
<1>2. B \in SUBSET Nat /\ B # {}
  <2> HIDE DEF M
  <2> QED BY <1>1
<1>3. PICK b \in B : \A x \in B : b <= x
  <2> HIDE DEF B
  <2> QED BY <1>2, LeastNumber
<1>4. PICK m \in M : b = k - m
  <2> HIDE DEF M
  <2> QED BY <1>3
<1>5. ASSUME NEW i \in M PROVE i <= m
  <2>1. k - m <= k - i
    <3> HIDE DEF M
    <3> QED BY <1>3, <1>4
  <2> QED BY <1>1, <1>4, <2>1
<1>6. Max(M) \in M /\ \A i \in M : i <= Max(M)
  <2>1. \E x \in M : \A y \in M : x >= y
    <3> HIDE DEF M
    <3> QED BY <1>1, <1>4, <1>5
  <2> HIDE DEF M
  <2> QED BY <2>1 DEF Max
<1>7. ASSUME NEW i \in 1..k, i > Max(M) PROVE s[i] = n - 1 - (k - i)
  <2> DEFINE top == Max(M)
  <2>1. i \notin M
    <3>1. top \in M /\ (\A j \in M : j <= top) /\ i > top
      BY <1>6, <1>7
    <3> HIDE DEF M, top
    <3>2. top \in 1..k
      BY <1>1, <3>1
    <3> QED BY <3>1, <3>2
  <2> QED BY <2>1 DEF Movable
<1> QED BY <1>1, <1>6, <1>7

\* CombinationIterator::next is the selector that comes right after, and
\* stops at the last one.
LEMMA NextIsNext ==
    ASSUME NEW n \in Nat, NEW k \in Nat \ {0}, NEW s \in Selectors(n, k),
           NEW r, r = NextSelector(n, s)
    PROVE  \/ /\ r[1] = n - k + 1
              /\ \A t \in Selectors(n, k) : ~Later(s, t, k)
           \/ /\ r[1] # n - k + 1
              /\ r \in Selectors(n, k) /\ Later(s, r, k)
              /\ \A t \in Selectors(n, k) : Later(s, t, k) => t = r \/ Later(r, t, k)
<1> DEFINE cur == Max(Movable(n, k, s))
<1>1. s \in [1..k -> 0..(n - 1)] /\ \A i, j \in 1..k : i < j => s[i] < s[j]
  BY DEF Selectors
<1>2. Len(s) = k
  BY <1>1
<1>3. r = [i \in 1..k |-> IF i < cur THEN s[i] ELSE s[cur] + 1 + (i - cur)]
  BY <1>2 DEF NextSelector, Movable
<1>4. /\ cur \in 1..k /\ cur \in Movable(n, k, s) /\ 1 \in 1..k
      /\ \A i \in 1..k : i > cur => s[i] = n - 1 - (k - i)
  BY LastMovable
<1>5. \A u \in Selectors(n, k) : \A i \in 1..k :
         u[i] \in Int /\ u[i] >= i - 1 /\ u[i] <= n - 1 - (k - i)
  BY SelectorBounds
<1> HIDE DEF cur
<1>6. \A i \in 1..k : i \in Int /\ r[i] = IF i < cur THEN s[i] ELSE s[cur] + 1 + (i - cur)
  BY <1>3
<1>7. CASE s[cur] = n - 1 - (k - cur)
  <2>1. cur = 1
    BY <1>4, <1>7 DEF Movable
  <2>2. \A i \in 1..k : s[i] = n - 1 - (k - i)
    BY <1>4, <1>7, <2>1
  <2>3. r[1] = n - k + 1
    BY <1>4, <1>6, <2>1, <2>2
  <2>4. ASSUME NEW t \in Selectors(n, k), Later(s, t, k) PROVE FALSE
    <3>1. PICK c \in 1..k : s[c] < t[c]
      BY <2>4 DEF Later
    <3> QED BY <1>5, <2>2, <3>1
  <2> QED BY <2>3, <2>4
<1>8. CASE s[cur] # n - 1 - (k - cur)
  <2>1. s[cur] \in Int /\ s[cur] < n - 1 - (k - cur) /\ s[cur] >= 0
    <3>1. s[cur] \in Int /\ s[cur] >= cur - 1 /\ s[cur] <= n - 1 - (k - cur)
      BY <1>4, <1>5
    <3> QED BY <1>4, <1>8, <3>1
  <2>2. r[1] # n - k + 1
    <3>1. s[1] \in Int /\ s[1] <= n - 1 - (k - 1)
      BY <1>4, <1>5
    <3>2. CASE cur = 1
      BY <1>4, <1>6, <2>1, <3>2
    <3>3. CASE cur # 1
      BY <1>4, <1>6, <3>1, <3>3
    <3> QED BY <3>2, <3>3
  <2>3. ASSUME NEW i \in 1..k PROVE r[i] \in 0..(n - 1)
    <3>1. CASE i < cur
      BY <1>1, <1>6, <3>1
    <3>2. CASE i >= cur
      BY <1>4, <1>6, <2>1, <3>2
    <3> QED BY <1>4, <3>1, <3>2
  <2>4. ASSUME NEW i \in 1..k, NEW j \in 1..k, i < j PROVE r[i] < r[j]
    <3>1. CASE j < cur
      BY <1>1, <1>4, <1>6, <2>4, <3>1
    <3>2. CASE i < cur /\ j >= cur
      <4>1. s[i] < s[cur] /\ s[i] \in Int
        BY <1>1, <1>4, <1>5, <3>2
      <4>2. r[i] = s[i] /\ r[j] = s[cur] + 1 + (j - cur)
        BY <1>4, <1>6, <3>2
      <4> QED BY <1>4, <2>1, <3>2, <4>1, <4>2
    <3>3. CASE i >= cur
      <4>1. r[i] = s[cur] + 1 + (i - cur) /\ r[j] = s[cur] + 1 + (j - cur)
        BY <1>4, <1>6, <2>4, <3>3
      <4> QED BY <1>4, <2>1, <2>4, <4>1
    <3> QED BY <1>4, <2>4, <3>1, <3>2, <3>3
  <2>5. r \in Selectors(n, k)
    <3>1. r \in [1..k -> 0..(n - 1)]
      BY <1>3, <2>3
    <3> QED BY <2>4, <3>1 DEF Selectors
  <2>6. Later(s, r, k)
    <3>1. r[cur] = s[cur] + 1 /\ \A i \in 1..k : i < cur => s[i] = r[i]
      BY <1>4, <1>6, <2>1
    <3> QED BY <1>4, <2>1, <3>1 DEF Later
  <2>7. ASSUME NEW t \in Selectors(n, k), Later(s, t, k) PROVE t = r \/ Later(r, t, k)
    <3>1. PICK c \in 1..k : (\A i \in 1..k : i < c => s[i] = t[i]) /\ s[c] < t[c]
      BY <2>7 DEF Later
    <3>2. c <= cur
      BY <1>4, <1>5, <3>1
    <3>3. CASE c < cur
      <4>1. r[c] = s[c] /\ \A i \in 1..k : i < c => r[i] = t[i]
        BY <1>4, <1>6, <3>1, <3>3
      <4> QED BY <3>1, <4>1 DEF Later
    <3>4. CASE c = cur
      <4>1. t[cur] \in Int /\ t[cur] >= s[cur] + 1
        BY <1>4, <1>5, <2>1, <3>1, <3>4
      <4>2. ASSUME NEW i \in 1..k PROVE r[i] <= t[i]
        <5>1. CASE i < cur
          <6>1. r[i] = t[i] /\ t[i] \in Int
            BY <1>4, <1>5, <1>6, <3>1, <3>4, <5>1
          <6> QED BY <6>1
        <5>2. CASE i >= cur
          <6>1. t[i] - t[cur] >= i - cur
            BY <1>4, <5>2, SelectorGrows
          <6>2. t[i] \in Int /\ r[i] = s[cur] + 1 + (i - cur)
            BY <1>4, <1>5, <1>6, <5>2
          <6> QED BY <1>4, <2>1, <4>1, <6>1, <6>2
        <5> QED BY <1>4, <5>1, <5>2
      <4> QED BY <2>5, <4>2, NoneSmallerIsLater
    <3> QED BY <1>4, <3>2, <3>3, <3>4
  <2> QED BY <2>2, <2>5, <2>6, <2>7
<1> QED BY <1>7, <1>8

\* The least of all.
LEMMA FirstIsFirst ==
    ASSUME NEW n \in Nat, NEW k \in 1..n
    PROVE  /\ FirstSelector(k) \in Selectors(n, k)
           /\ \A t \in Selectors(n, k) : t = FirstSelector(k) \/ Later(FirstSelector(k), t, k)
<1> DEFINE s == FirstSelector(k)
<1>1. s = [i \in 1..k |-> i - 1] /\ k \in Nat \ {0}
  BY DEF FirstSelector
<1>2. s \in Selectors(n, k)
  BY <1>1 DEF Selectors
<1>3. ASSUME NEW t \in Selectors(n, k) PROVE t = s \/ Later(s, t, k)
  <2>1. \A i \in 1..k : s[i] <= t[i]
    BY <1>1, SelectorBounds
  <2> HIDE DEF s
  <2> QED BY <1>1, <1>2, <2>1, NoneSmallerIsLater
<1> QED BY <1>2, <1>3

\* What the iterator has yielded: in order, and what is missing comes later.
Yielded(n, k) ==
    {acc \in Seq(Selectors(n, k)) :
        /\ Len(acc) > 0
        /\ \A i, j \in 1..Len(acc) : i < j => Later(acc[i], acc[j], k)
        /\ \A t \in Selectors(n, k) :
              (\E i \in 1..Len(acc) : acc[i] = t) \/ Later(acc[Len(acc)], t, k)}
\* One step of the iterator.
Extend(n, k, acc) ==
    LET next == NextSelector(n, Last(acc))
    IN  IF next[1] = n - k + 1 THEN acc ELSE Append(acc, next)

\* One call of the iterator, which returns None at the end.
LEMMA ExtendYields ==
    ASSUME NEW n \in Nat, NEW k \in 1..n, NEW acc \in Yielded(n, k)
    PROVE  /\ Extend(n, k, acc) \in Yielded(n, k)
           /\ \/ Len(Extend(n, k, acc)) = Len(acc) + 1
              \/ /\ Extend(n, k, acc) = acc
                 /\ \A t \in Selectors(n, k) : \E i \in 1..Len(acc) : acc[i] = t
<1> DEFINE s == acc[Len(acc)]
           r == NextSelector(n, s)
           m == Len(acc)
<1>1. /\ acc \in Seq(Selectors(n, k)) /\ m \in Nat /\ m > 0
      /\ \A i, j \in 1..m : i < j => Later(acc[i], acc[j], k)
      /\ \A t \in Selectors(n, k) : (\E i \in 1..m : acc[i] = t) \/ Later(s, t, k)
  BY DEF Yielded
<1>2. s \in Selectors(n, k) /\ \A i \in 1..m : acc[i] \in Selectors(n, k)
  BY <1>1
<1>3. k \in Nat \ {0} /\ k \in Nat
  OBVIOUS
<1>4. Extend(n, k, acc) = IF r[1] = n - k + 1 THEN acc ELSE Append(acc, r)
  BY DEF Extend, Last
<1> HIDE DEF r, s
<1>5. \/ /\ r[1] = n - k + 1
         /\ \A t \in Selectors(n, k) : ~Later(s, t, k)
      \/ /\ r[1] # n - k + 1
         /\ r \in Selectors(n, k) /\ Later(s, r, k)
         /\ \A t \in Selectors(n, k) : Later(s, t, k) => t = r \/ Later(r, t, k)
  BY <1>2, <1>3, NextIsNext DEF r
<1>6. CASE r[1] = n - k + 1
  BY <1>1, <1>4, <1>5, <1>6
<1>7. CASE r[1] # n - k + 1
  <2> DEFINE new == Append(acc, r)
  <2>1. /\ r \in Selectors(n, k) /\ Later(s, r, k)
        /\ \A t \in Selectors(n, k) : Later(s, t, k) => t = r \/ Later(r, t, k)
    BY <1>5, <1>7
  <2>2. /\ new \in Seq(Selectors(n, k)) /\ Len(new) = m + 1
        /\ new[m + 1] = r /\ \A i \in 1..m : new[i] = acc[i]
    BY <1>1, <2>1
  <2> HIDE DEF new, m
  <2>3. ASSUME NEW i \in 1..m PROVE Later(acc[i], r, k)
    <3>1. CASE i = m
      BY <2>1, <3>1 DEF s, m
    <3>2. CASE i # m
      <4>1. Later(acc[i], s, k)
        BY <1>1, <3>2 DEF s, m
      <4> QED BY <1>2, <1>3, <2>1, <4>1, LaterIsOrder
    <3> QED BY <3>1, <3>2
  <2>4. ASSUME NEW i \in 1..(m + 1), NEW j \in 1..(m + 1), i < j PROVE Later(new[i], new[j], k)
    <3>1. CASE j = m + 1
      <4>1. i \in 1..m
        BY <1>1, <2>4, <3>1
      <4> QED BY <2>2, <2>3, <3>1, <4>1
    <3>2. CASE j # m + 1
      <4>1. i \in 1..m /\ j \in 1..m
        BY <1>1, <2>4, <3>2
      <4> QED BY <1>1, <2>2, <2>4, <4>1
    <3> QED BY <3>1, <3>2
  <2>5. ASSUME NEW t \in Selectors(n, k)
        PROVE  (\E i \in 1..(m + 1) : new[i] = t) \/ Later(new[m + 1], t, k)
    <3>1. CASE \E i \in 1..m : acc[i] = t
      <4>1. PICK i \in 1..m : acc[i] = t
        BY <3>1
      <4>2. i \in 1..(m + 1) /\ new[i] = t
        BY <1>1, <2>2, <4>1
      <4> QED BY <4>2
    <3>2. CASE Later(s, t, k)
      <4>1. t = r \/ Later(r, t, k)
        BY <2>1, <3>2
      <4>2. m + 1 \in 1..(m + 1)
        BY <1>1
      <4> QED BY <2>2, <4>1, <4>2
    <3> QED BY <1>1, <3>1, <3>2
  <2>6. m + 1 > 0
    BY <1>1
  <2>7. new \in Yielded(n, k)
    BY <2>2, <2>4, <2>5, <2>6 DEF Yielded
  <2> QED BY <1>4, <1>7, <2>2, <2>7 DEF m, new
<1> QED BY <1>6, <1>7

\* A selector is the list of a set: two with the same elements are the same.
LEMMA SameElements ==
    ASSUME NEW n \in Nat, NEW k \in Nat, NEW s \in Selectors(n, k), NEW t \in Selectors(n, k),
           {s[i] : i \in 1..k} = {t[i] : i \in 1..k}
    PROVE  s = t
<1> SUFFICES ASSUME s # t PROVE FALSE
  OBVIOUS
<1>1. PICK c \in 1..k : s[c] # t[c] /\ \A i \in 1..k : i < c => s[i] = t[i]
  BY FirstDifference
<1>2. \A i, j \in 1..k : /\ s[i] \in Int /\ t[i] \in Int
                         /\ i < j => s[i] < s[j] /\ t[i] < t[j]
  BY DEF Selectors
<1>3. PICK i \in 1..k : s[c] = t[i]
  OBVIOUS
<1>4. PICK j \in 1..k : t[c] = s[j]
  OBVIOUS
<1>5. i >= c
  <2> SUFFICES ASSUME i < c PROVE FALSE
    OBVIOUS
  <2>1. t[i] = s[i] /\ s[i] < s[c]
    BY <1>1, <1>2
  <2> QED BY <1>2, <1>3, <2>1
<1>6. j >= c
  <2> SUFFICES ASSUME j < c PROVE FALSE
    OBVIOUS
  <2>1. t[j] = s[j] /\ t[j] < t[c]
    BY <1>1, <1>2
  <2> QED BY <1>2, <1>4, <2>1
<1>7. i > c /\ j > c
  BY <1>1, <1>3, <1>4, <1>5, <1>6
<1>8. t[c] < t[i] /\ s[c] < s[j]
  BY <1>2, <1>7
<1> QED BY <1>2, <1>3, <1>4, <1>8

\* A selector has as many elements as it is long.
LEMMA SelectorSize ==
    ASSUME NEW n \in Nat, NEW k \in Nat, NEW s \in Selectors(n, k)
    PROVE  /\ {s[i] + 1 : i \in 1..k} \in kSubset(k, 1..n)
           /\ {s[i] : i \in 1..k} \in kSubset(k, 0..(n - 1))
<1>1. s \in [1..k -> 0..(n - 1)] /\ \A i, j \in 1..k : i < j => s[i] < s[j]
  BY DEF Selectors
<1>2. IsFiniteSet(1..k) /\ Cardinality(1..k) = k
  BY FS_Interval
<1>3. \A i, j \in 1..k : i # j => s[i] # s[j]
  BY <1>1
<1>4. {s[i] + 1 : i \in 1..k} \in kSubset(k, 1..n)
  <2> DEFINE B == {s[i] + 1 : i \in 1..k}
             f == [i \in 1..k |-> s[i] + 1]
  <2>1. f \in Surjection(1..k, B) /\ f \in Injection(1..k, B)
    BY <1>1, <1>3 DEF Surjection, Injection, IsInjective
  <2>2. B \subseteq 1..n
    BY <1>1
  <2> HIDE DEF f, B
  <2>3. Cardinality(B) = k
    BY <1>2, <2>1, FS_Surjection
  <2> QED BY <2>2, <2>3 DEF kSubset, B
<1>5. {s[i] : i \in 1..k} \in kSubset(k, 0..(n - 1))
  <2> DEFINE B == {s[i] : i \in 1..k}
  <2>1. s \in Surjection(1..k, B) /\ s \in Injection(1..k, B)
    BY <1>1, <1>3 DEF Surjection, Injection, IsInjective
  <2>2. B \subseteq 0..(n - 1)
    BY <1>1
  <2> HIDE DEF B
  <2>3. Cardinality(B) = k
    BY <1>2, <2>1, FS_Surjection
  <2> QED BY <2>2, <2>3 DEF kSubset, B
<1> QED BY <1>4, <1>5

\* No more can be yielded than there are subsets.
LEMMA YieldedIsShort ==
    ASSUME NEW n \in Nat, NEW k \in 1..n, NEW acc \in Yielded(n, k)
    PROVE  /\ Cardinality(kSubset(k, 1..n)) \in Nat
           /\ Len(acc) <= Cardinality(kSubset(k, 1..n))
<1> DEFINE m == Len(acc)
           K == kSubset(k, 1..n)
           f == [i \in 1..m |-> {acc[i][j] + 1 : j \in 1..k}]
<1>1. /\ acc \in Seq(Selectors(n, k)) /\ m \in Nat
      /\ \A i, j \in 1..m : i < j => Later(acc[i], acc[j], k)
  BY DEF Yielded
<1>2. \A i \in 1..m : acc[i] \in Selectors(n, k)
  BY <1>1
<1>3. k \in Nat
  OBVIOUS
<1>4. \A i \in 1..m : f[i] = {acc[i][j] + 1 : j \in 1..k} /\ f[i] \in K
  BY <1>2, <1>3, SelectorSize
<1>5. ASSUME NEW i \in 1..m, NEW j \in 1..m, f[i] = f[j] PROVE i = j
  <2>1. \A x \in 1..k : acc[i][x] \in Int /\ acc[j][x] \in Int
    BY <1>2 DEF Selectors
  <2>2. {acc[i][x] + 1 : x \in 1..k} = {acc[j][x] + 1 : x \in 1..k}
    BY <1>4, <1>5
  <2>3. \A x \in 1..k : (\E y \in 1..k : acc[i][x] = acc[j][y]) /\ (\E y \in 1..k : acc[j][x] = acc[i][y])
    <3> SUFFICES ASSUME NEW x \in 1..k
                 PROVE  (\E y \in 1..k : acc[i][x] = acc[j][y]) /\ (\E y \in 1..k : acc[j][x] = acc[i][y])
      OBVIOUS
    <3>1. PICK y \in 1..k : acc[i][x] + 1 = acc[j][y] + 1
      BY <2>2
    <3>2. PICK z \in 1..k : acc[j][x] + 1 = acc[i][z] + 1
      BY <2>2
    <3>3. acc[i][x] = acc[j][y]
      <4>1. acc[i][x] \in Int /\ acc[j][y] \in Int
        BY <2>1
      <4> QED BY <3>1, <4>1
    <3>4. acc[j][x] = acc[i][z]
      <4>1. acc[j][x] \in Int /\ acc[i][z] \in Int
        BY <2>1
      <4> QED BY <3>2, <4>1
    <3> QED BY <3>3, <3>4
  <2>4. {acc[i][x] : x \in 1..k} = {acc[j][x] : x \in 1..k}
    <3>1. ASSUME NEW x \in 1..k PROVE acc[i][x] \in {acc[j][y] : y \in 1..k}
      BY <2>3
    <3>2. ASSUME NEW x \in 1..k PROVE acc[j][x] \in {acc[i][y] : y \in 1..k}
      BY <2>3
    <3> QED BY <3>1, <3>2
  <2>5. acc[i] = acc[j]
    BY <1>2, <1>3, <2>4, SameElements
  <2>6. ~Later(acc[i], acc[j], k) /\ ~Later(acc[j], acc[i], k)
    BY <1>2, <1>3, <2>5, LaterIsOrder
  <2> QED BY <1>1, <2>6
<1>6. IsFiniteSet(1..m) /\ Cardinality(1..m) = m
  <2> HIDE DEF m
  <2>1. m \in Int /\ 1 \in Int /\ (1 > m <=> m = 0) /\ m - 1 + 1 = m
    BY <1>1
  <2> QED BY <2>1, FS_Interval
<1>7. IsFiniteSet(K)
  <2>1. IsFiniteSet(SUBSET (1..n))
    <3> DEFINE N == 1..n
    <3>1. IsFiniteSet(N)
      BY FS_Interval
    <3> HIDE DEF N
    <3>2. IsFiniteSet(SUBSET N)
      BY <3>1, FS_SUBSET
    <3> QED BY <3>2 DEF N
  <2>2. K \in SUBSET (SUBSET (1..n))
    BY DEF kSubset
  <2> HIDE DEF K
  <2> QED BY <2>1, <2>2, FS_Subset
<1>8. f \in [1..m -> K]
  <2>1. f = [i \in 1..m |-> f[i]]
    OBVIOUS
  <2> HIDE DEF f, K
  <2> QED BY <1>4, <2>1
<1>9. f \in Injection(1..m, K)
  <2> HIDE DEF f, K
  <2> QED BY <1>5, <1>8 DEF Injection, IsInjective
<1> HIDE DEF f, K
<1>10. Cardinality(K) \in Nat /\ m <= Cardinality(K)
  BY <1>6, <1>7, <1>9, FS_Injection, FS_CardinalityType
<1> QED BY <1>10 DEF K

\* The iterator, run to its end, yields every combination.
LEMMA CombinationsYieldAll ==
    ASSUME NEW n \in Nat, NEW k \in 1..n
    PROVE  /\ Combinations(n, k) \in Yielded(n, k)
           /\ \A t \in Selectors(n, k) :
                 \E i \in 1..Len(Combinations(n, k)) : Combinations(n, k)[i] = t
<1> DEFINE Y == Yielded(n, k)
           first == <<FirstSelector(k)>>
           N == Cardinality(kSubset(k, 1..n))
           Runs(y) == y = [i \in Nat |-> IF i = 0 THEN first ELSE Extend(n, k, y[i - 1])]
           step == [acc \in Y |-> Extend(n, k, acc)]
           y == CHOOSE y : Runs(y)
<1>1. first \in Y
  <2>1. /\ FirstSelector(k) \in Selectors(n, k)
        /\ \A t \in Selectors(n, k) : t = FirstSelector(k) \/ Later(FirstSelector(k), t, k)
    BY FirstIsFirst
  <2> DEFINE s == FirstSelector(k)
  <2>2. first = <<s>>
    OBVIOUS
  <2> HIDE DEF s, first
  <2>3. /\ first \in Seq(Selectors(n, k)) /\ Len(first) = 1 /\ first[1] = s
    BY <2>1, <2>2 DEF s
  <2>4. \A i, j \in 1..Len(first) : i < j => Later(first[i], first[j], k)
    BY <2>3
  <2>5. \A t \in Selectors(n, k) :
           (\E i \in 1..Len(first) : first[i] = t) \/ Later(first[Len(first)], t, k)
    <3>1. 1 \in 1..Len(first) /\ first[Len(first)] = s
      BY <2>3
    <3>2. \A t \in Selectors(n, k) : t = s \/ Later(s, t, k)
      BY <2>1 DEF s
    <3> QED BY <2>3, <3>1, <3>2
  <2>6. Len(first) > 0
    BY <2>3
  <2> QED BY <2>3, <2>4, <2>5, <2>6 DEF Yielded
<1>2. \A acc \in Y : Extend(n, k, acc) \in Y
  BY ExtendYields
<1>3. \E f : Runs(f)
  <2>1. step \in [Y -> Y] /\ \A acc \in Y : step[acc] = Extend(n, k, acc)
    BY <1>2
  <2> HIDE DEF step, Y, first
  <2>2. PICK f \in [Nat -> Y] : f[0] = first /\ \A i \in Nat : f[i + 1] = step[f[i]]
    <3>1. step \in [Y -> Y]
      BY <2>1
    <3> QED BY <1>1, <3>1, RepetitionsExist
  <2>3. ASSUME NEW i \in Nat PROVE f[i] = IF i = 0 THEN first ELSE Extend(n, k, f[i - 1])
    <3>1. CASE i = 0
      BY <2>2, <3>1
    <3>2. CASE i # 0
      <4>1. i - 1 \in Nat /\ (i - 1) + 1 = i
        BY <3>2
      <4>2. f[i - 1] \in Y
        BY <2>2, <4>1
      <4>3. f[(i - 1) + 1] = step[f[i - 1]]
        BY <2>2, <4>1
      <4> QED BY <2>1, <3>2, <4>1, <4>2, <4>3
    <3> QED BY <3>1, <3>2
  <2>4. f = [i \in Nat |-> f[i]]
    BY <2>2
  <2> DEFINE g == [i \in Nat |-> IF i = 0 THEN first ELSE Extend(n, k, f[i - 1])]
  <2>5. f = g
    BY <2>3, <2>4
  <2> QED BY <2>5
<1>4. Runs(y)
  <2> HIDE DEF Runs
  <2> QED BY <1>3
<1>5. Combinations(n, k) = y[N]
  BY DEF Combinations, Extend
<1>6. \A i \in Nat : y[i] = IF i = 0 THEN first ELSE Extend(n, k, y[i - 1])
  <2> HIDE DEF y
  <2> QED BY <1>4
<1> HIDE DEF y, Y, N, Runs, step
<1> DEFINE T == {i \in Nat : y[i] \in Y /\ (Extend(n, k, y[i]) = y[i] \/ Len(y[i]) = i + 1)}
<1>7. 0 \in T
  <2>1. y[0] = first
    BY <1>6
  <2>2. Len(first) = 1
    OBVIOUS
  <2> HIDE DEF first
  <2> QED BY <1>1, <2>1, <2>2
<1>8. ASSUME NEW i \in Nat, i \in T PROVE i + 1 \in T
  <2>1. i + 1 \in Nat /\ i + 1 # 0 /\ (i + 1) - 1 = i
    OBVIOUS
  <2>2. y[i + 1] = Extend(n, k, y[i])
    BY <1>6, <2>1
  <2>3. y[i] \in Y /\ (Extend(n, k, y[i]) = y[i] \/ Len(y[i]) = i + 1)
    BY <1>8
  <2>4. y[i + 1] \in Y
    BY <1>2, <2>2, <2>3
  <2>5. CASE Extend(n, k, y[i]) = y[i]
    <3>1. y[i + 1] = y[i]
      BY <2>2, <2>5
    <3> QED BY <2>1, <2>4, <2>5, <3>1
  <2>6. CASE Extend(n, k, y[i]) # y[i]
    <3>1. Len(Extend(n, k, y[i])) = Len(y[i]) + 1
      BY <2>3, <2>6, ExtendYields DEF Y
    <3>2. Len(y[i + 1]) = (i + 1) + 1
      BY <2>2, <2>3, <2>6, <3>1
    <3> QED BY <2>1, <2>4, <3>2
  <2> QED BY <2>5, <2>6
<1>9. \A i \in Nat : i \in T
  <2> HIDE DEF T
  <2> QED BY <1>7, <1>8, Induction
<1>10. N \in Nat
  BY <1>1, YieldedIsShort DEF Y, N
<1>11. y[N] \in Y /\ (Extend(n, k, y[N]) = y[N] \/ Len(y[N]) = N + 1)
  BY <1>9, <1>10
<1>12. Len(y[N]) <= N /\ Len(y[N]) \in Nat
  <2>1. Len(y[N]) <= N
    BY <1>11, YieldedIsShort DEF Y, N
  <2>2. y[N] \in Seq(Selectors(n, k))
    BY <1>11 DEF Y, Yielded
  <2>3. Len(y[N]) \in Nat
    BY <2>2
  <2> QED BY <2>1, <2>3
<1>13. Extend(n, k, y[N]) = y[N]
  BY <1>10, <1>11, <1>12
<1>14. \A t \in Selectors(n, k) : \E i \in 1..Len(y[N]) : y[N][i] = t
  <2>1. Len(y[N]) # Len(y[N]) + 1
    BY <1>12
  <2> QED BY <1>11, <1>13, <2>1, ExtendYields DEF Y
<1> QED BY <1>5, <1>11, <1>14 DEF Y

\* What the iterator yields are selectors, each at one place.
LEMMA CombinationsAre ==
    ASSUME NEW n \in Nat, NEW k \in 1..n
    PROVE  /\ Combinations(n, k) \in Seq(Selectors(n, k))
           /\ Len(Combinations(n, k)) \in Nat /\ Len(Combinations(n, k)) > 0
           /\ \A i, j \in 1..Len(Combinations(n, k)) :
                 Combinations(n, k)[i] = Combinations(n, k)[j] => i = j
<1> DEFINE acc == Combinations(n, k)
           m == Len(acc)
<1>1. acc \in Yielded(n, k)
  BY CombinationsYieldAll
<1> HIDE DEF acc
<1>2. /\ acc \in Seq(Selectors(n, k)) /\ m > 0
      /\ \A i, j \in 1..m : i < j => Later(acc[i], acc[j], k)
  BY <1>1 DEF Yielded
<1>3. m \in Nat /\ \A i \in 1..m : acc[i] \in Selectors(n, k)
  BY <1>2
<1>4. ASSUME NEW i \in 1..m, NEW j \in 1..m, acc[i] = acc[j] PROVE i = j
  <2>1. k \in Nat
    OBVIOUS
  <2> HIDE DEF m
  <2>2. ~Later(acc[i], acc[j], k) /\ ~Later(acc[j], acc[i], k)
    BY <1>3, <1>4, <2>1, LaterIsOrder
  <2> QED BY <1>2, <1>3, <2>2
<1> QED BY <1>2, <1>3, <1>4 DEF acc

\* get_index_for_combination finds every combination again.
LEMMA CombinationIsFound ==
    ASSUME NEW n \in Nat, NEW k \in 1..n, NEW s \in Selectors(n, k)
    PROVE  /\ IndexForCombination(n, k, s) \in 1..Len(Combinations(n, k))
           /\ Combinations(n, k)[IndexForCombination(n, k, s)] = s
<1> DEFINE all == Combinations(n, k)
<1>1. all \in Seq(Selectors(n, k))
  BY CombinationsAre
<1>2. PICK i \in 1..Len(all) : all[i] = s
  BY CombinationsYieldAll
<1>3. IndexForCombination(n, k, s)
        = IF s \in ToSet(all) THEN CHOOSE j \in DOMAIN all : all[j] = s ELSE 0
  BY DEF IndexForCombination
<1> HIDE DEF all
<1>4. DOMAIN all = 1..Len(all)
  BY <1>1
<1>5. s \in ToSet(all)
  BY <1>2, <1>4 DEF ToSet
<1> DEFINE found == CHOOSE j \in DOMAIN all : all[j] = s
<1>6. found \in DOMAIN all /\ all[found] = s
  BY <1>2, <1>4
<1>7. IndexForCombination(n, k, s) = found
  BY <1>3, <1>5
<1> HIDE DEF found
<1> QED BY <1>4, <1>6, <1>7 DEF all

\* Every set of k elements is that of a selector: its elements in order.
LEMMA SetHasSelector ==
    ASSUME NEW n \in Nat, NEW k \in 1..n, NEW Q \in kSubset(k, 0..(n - 1))
    PROVE  \E s \in Selectors(n, k) : {s[i] : i \in 1..k} = Q
<1>1. Q \subseteq 0..(n - 1) /\ Cardinality(Q) = k /\ k \in Nat
  BY DEF kSubset
<1>2. IsFiniteSet(Q)
  <2> DEFINE N == 0..(n - 1)
  <2>1. IsFiniteSet(N)
    BY FS_Interval
  <2>2. Q \in SUBSET N
    BY <1>1
  <2> HIDE DEF N
  <2> QED BY <2>1, <2>2, FS_Subset
<1>3. PICK b : b \in Bijection(1..k, Q)
  <2>1. ExistsBijection(1..k, Q)
    BY <1>1, <1>2, FS_CardinalityType
  <2> QED BY <2>1 DEF ExistsBijection
<1>4. /\ b \in [1..k -> Q] /\ DOMAIN b = 1..k
      /\ \A q \in Q : \E i \in 1..k : b[i] = q
      /\ \A i, j \in 1..k : b[i] = b[j] => i = j
  BY <1>3 DEF Bijection, Injection, Surjection, IsInjective
<1>5. \A i \in 1..k : b[i] \in 0..(n - 1) /\ b[i] \in Int
  <2> SUFFICES ASSUME NEW i \in 1..k PROVE b[i] \in 0..(n - 1) /\ b[i] \in Int
    OBVIOUS
  <2>1. b[i] \in Q
    BY <1>4
  <2>2. b[i] \in 0..(n - 1)
    BY <1>1, <2>1
  <2> QED BY <2>2
<1> DEFINE P(x) == Place(b, x)
           at(i) == CHOOSE x \in 1..k : P(x) = i
           s == [i \in 1..k |-> b[at(i)]]
<1>6. /\ \A x \in 1..k : P(x) \in 1..k
      /\ \A x, z \in 1..k : P(x) = P(z) => x = z
      /\ \A x, z \in 1..k : b[x] < b[z] => P(x) < P(z)
  <2>1. k \in Nat /\ DOMAIN b = 1..k /\ \A i \in 1..k : b[i] \in Int
    BY <1>1, <1>4, <1>5
  <2> QED BY <2>1, PlacesAreDistinct
<1>7. \A i \in 1..k : \E x \in 1..k : P(x) = i
  BY <1>1, <1>4, <1>5, PlacesAreTaken
<1> HIDE DEF P
<1>8. \A i \in 1..k : at(i) \in 1..k /\ P(at(i)) = i
  BY <1>7
<1> HIDE DEF at
<1>9. s \in [1..k -> 0..(n - 1)]
  BY <1>5, <1>8
<1>10. ASSUME NEW i \in 1..k, NEW j \in 1..k, i < j PROVE s[i] < s[j]
  <2>1. at(i) \in 1..k /\ at(j) \in 1..k /\ P(at(i)) = i /\ P(at(j)) = j
    BY <1>8
  <2>2. at(i) # at(j)
    BY <1>10, <2>1
  <2>3. b[at(i)] # b[at(j)]
    BY <1>4, <2>1, <2>2
  <2>4. ~(b[at(j)] < b[at(i)])
    <3> SUFFICES ASSUME b[at(j)] < b[at(i)] PROVE FALSE
      OBVIOUS
    <3>1. P(at(j)) < P(at(i))
      BY <1>6, <2>1
    <3>2. j < i
      BY <2>1, <3>1
    <3> QED BY <1>10, <3>2
  <2>5. b[at(i)] \in Int /\ b[at(j)] \in Int
    BY <1>5, <2>1
  <2> QED BY <2>3, <2>4, <2>5
<1>11. s \in Selectors(n, k)
  BY <1>9, <1>10 DEF Selectors
<1>12. {s[i] : i \in 1..k} = Q
  <2>1. ASSUME NEW i \in 1..k PROVE s[i] \in Q
    BY <1>4, <1>8
  <2>2. ASSUME NEW q \in Q PROVE \E i \in 1..k : s[i] = q
    <3>1. PICK x \in 1..k : b[x] = q
      BY <1>4
    <3>2. P(x) \in 1..k /\ at(P(x)) \in 1..k /\ P(at(P(x))) = P(x)
      BY <1>6, <1>8
    <3>3. at(P(x)) = x
      BY <1>6, <3>2
    <3> QED BY <3>1, <3>2, <3>3
  <2> HIDE DEF s
  <2> QED BY <2>1, <2>2
<1> QED BY <1>11, <1>12

-----------------------------------------------------------------------------
(***************************************************************************)
(* Where the parts of a list are when they are joined.                     *)
(***************************************************************************)
\* n sequences over E.
PartsOf(parts, n, E) == parts \in [1..n -> Seq(E)]
\* f[i] is the first i of them, joined.
Joined(f, parts, n, E) ==
    /\ \A i \in 1..n : f[i] \in Seq(E)
    /\ n >= 1 => f[1] = parts[1]
    /\ \A i \in 2..n : f[i] = f[i - 1] \o parts[i] /\ Len(f[i]) = Len(f[i - 1]) + Len(parts[i])

\* The joined parts are a sequence, as long as the parts together.
LEMMA JoinsAre ==
    ASSUME NEW E, NEW n \in Nat, NEW parts, PartsOf(parts, n, E), NEW f, Joins(f, parts, n)
    PROVE  Joined(f, parts, n, E)
<1>1. \A i \in 1..n : f[i] = IF i = 1 THEN parts[i] ELSE f[i - 1] \o parts[i]
  BY DEF Joins
<1> DEFINE T == {i \in Nat : i \in 1..n => f[i] \in Seq(E)}
<1>2. 0 \in T
  OBVIOUS
<1>3. ASSUME NEW i \in Nat, i \in T PROVE i + 1 \in T
  <2> SUFFICES ASSUME i + 1 \in 1..n PROVE f[i + 1] \in Seq(E)
    OBVIOUS
  <2>1. parts[i + 1] \in Seq(E)
    BY DEF PartsOf
  <2>2. CASE i = 0
    <3>1. i + 1 = 1 /\ f[i + 1] = parts[i + 1]
      BY <1>1, <2>2
    <3> QED BY <2>1, <3>1
  <2>3. CASE i # 0
    <3>1. f[i] \in Seq(E) /\ (i + 1) - 1 = i /\ i + 1 # 1
      BY <1>3, <2>3
    <3>2. f[i + 1] = f[i] \o parts[i + 1]
      BY <1>1, <3>1
    <3> QED BY <2>1, <3>1, <3>2
  <2> QED BY <2>2, <2>3
<1>4. \A i \in Nat : i \in T
  <2> HIDE DEF T
  <2> QED BY <1>2, <1>3, Induction
<1>5. \A i \in 1..n : f[i] \in Seq(E)
  BY <1>4
<1>6. ASSUME NEW i \in 2..n
      PROVE  f[i] = f[i - 1] \o parts[i] /\ Len(f[i]) = Len(f[i - 1]) + Len(parts[i])
  <2>1. i \in 1..n /\ i # 1 /\ i - 1 \in 1..n
    OBVIOUS
  <2>2. f[i] = f[i - 1] \o parts[i] /\ f[i - 1] \in Seq(E) /\ parts[i] \in Seq(E)
    BY <1>1, <1>5, <2>1 DEF PartsOf
  <2> QED BY <2>2
<1>7. n >= 1 => f[1] = parts[1]
  BY <1>1
<1> QED BY <1>5, <1>6, <1>7 DEF Joined

\* Their lengths are the same.
SameLengths(f, g, m) == \A i \in 1..m : Len(f[i]) = Len(g[i])

\* Parts of the same lengths are as long together.
LEMMA PartsOfSameLengths ==
    ASSUME NEW E, NEW F, NEW n \in Nat, NEW m \in Nat, m <= n,
           NEW parts, PartsOf(parts, n, E), NEW shape, PartsOf(shape, m, F),
           SameLengths(shape, parts, m),
           NEW f, Joins(f, parts, n), NEW g, Joins(g, shape, m)
    PROVE  SameLengths(f, g, m)
<1> DEFINE T == {i \in Nat : i \in 1..m => Len(f[i]) = Len(g[i])}
<1>1. /\ n >= 1 => f[1] = parts[1]
      /\ \A i \in 2..n : Len(f[i]) = Len(f[i - 1]) + Len(parts[i])
  <2>1. Joined(f, parts, n, E)
    BY JoinsAre
  <2> QED BY <2>1 DEF Joined
<1>2. /\ m >= 1 => g[1] = shape[1]
      /\ \A i \in 2..m : Len(g[i]) = Len(g[i - 1]) + Len(shape[i])
  <2>1. Joined(g, shape, m, F)
    BY JoinsAre
  <2> QED BY <2>1 DEF Joined
<1>3. 0 \in T
  OBVIOUS
<1>4. ASSUME NEW i \in Nat, i \in T PROVE i + 1 \in T
  <2> SUFFICES ASSUME i + 1 \in 1..m PROVE Len(f[i + 1]) = Len(g[i + 1])
    OBVIOUS
  <2>1. CASE i = 0
    <3>1. i + 1 = 1 /\ m >= 1 /\ n >= 1 /\ 1 \in 1..m
      BY <2>1
    <3>2. Len(shape[1]) = Len(parts[1])
      BY <3>1 DEF SameLengths
    <3> QED BY <1>1, <1>2, <3>1, <3>2
  <2>2. CASE i # 0
    <3>1. i \in 1..m /\ i + 1 \in 2..n /\ i + 1 \in 2..m /\ (i + 1) - 1 = i
      BY <2>2
    <3>4. Len(shape[i + 1]) = Len(parts[i + 1]) /\ Len(parts[i + 1]) \in Int
      BY DEF SameLengths, PartsOf
    <3>2. Len(f[i]) = Len(g[i])
      BY <1>4, <3>1
    <3>3. Len(f[i + 1]) = Len(f[i]) + Len(parts[i + 1]) /\ Len(g[i + 1]) = Len(g[i]) + Len(shape[i + 1])
      BY <1>1, <1>2, <3>1
    <3> QED BY <3>2, <3>3, <3>4
  <2> QED BY <2>1, <2>2
<1>5. \A i \in Nat : i \in T
  <2> HIDE DEF T
  <2> QED BY <1>3, <1>4, Induction
<1> QED BY <1>5 DEF SameLengths

\* The k-th part begins after those before it.
Placed(parts, shape, k, E) ==
    /\ FlattenSeq(parts) \in Seq(E) /\ Len(FlattenSeq(shape)) \in Nat
    /\ \A i \in 1..Len(parts[k]) :
          /\ Len(FlattenSeq(shape)) + i \in 1..Len(FlattenSeq(parts))
          /\ FlattenSeq(parts)[Len(FlattenSeq(shape)) + i] = parts[k][i]

\* A part starts after those before it.
LEMMA FlattenPlaces ==
    ASSUME NEW E, NEW F, NEW n \in Nat, NEW k \in 1..n,
           NEW parts, PartsOf(parts, n, E), NEW shape, PartsOf(shape, k - 1, F),
           SameLengths(shape, parts, k - 1)
    PROVE  Placed(parts, shape, k, E)
<1>p. PartsOf(parts, n, E) /\ PartsOf(shape, k - 1, F)
  OBVIOUS
<1>t. parts \in [1..n -> Seq(E)] /\ shape \in [1..(k - 1) -> Seq(F)]
  BY DEF PartsOf
<1>1. Len(parts) = n /\ Len(shape) = k - 1 /\ k - 1 \in Nat /\ n > 0 /\ k - 1 <= n
  BY <1>t
<1>2. PICK f : Joins(f, parts, n) /\ FlattenSeq(parts) = f[n]
  BY <1>1, FlattenIsJoin
<1>3. /\ \A i \in 1..n : f[i] \in Seq(E)
      /\ f[1] = parts[1]
      /\ \A i \in 2..n : f[i] = f[i - 1] \o parts[i] /\ Len(f[i]) = Len(f[i - 1]) + Len(parts[i])
  <2>1. Joined(f, parts, n, E)
    BY <1>p, <1>2, JoinsAre
  <2>2. n >= 1
    BY <1>1
  <2> QED BY <2>1, <2>2 DEF Joined
<1> DEFINE start == IF k = 1 THEN 0 ELSE Len(f[k - 1])
<1>4. Len(FlattenSeq(shape)) = start
  <2>1. CASE k = 1
    <3>1. FlattenSeq(shape) = shape
      BY <1>1, <2>1, FlattenIsJoin
    <3> QED BY <1>1, <2>1, <3>1
  <2>2. CASE k # 1
    <3>1. k - 1 > 0 /\ k - 1 \in 1..(k - 1)
      BY <2>2
    <3>2. PICK g : Joins(g, shape, k - 1) /\ FlattenSeq(shape) = g[k - 1]
      BY <1>1, <3>1, FlattenIsJoin
    <3>3. SameLengths(f, g, k - 1)
      BY <1>p, <1>1, <1>2, <3>2, PartsOfSameLengths
    <3> QED BY <2>2, <3>1, <3>2, <3>3 DEF SameLengths
  <2> QED BY <2>1, <2>2
<1>5. start \in Nat
  BY <1>3
<1> DEFINE P(j) == \A i \in 1..Len(parts[k]) :
                      start + i \in 1..Len(f[j]) /\ f[j][start + i] = parts[k][i]
           T == {d \in Nat : k + d <= n => P(k + d)}
<1>6. P(k)
  <2> SUFFICES ASSUME NEW i \in 1..Len(parts[k])
               PROVE  start + i \in 1..Len(f[k]) /\ f[k][start + i] = parts[k][i]
    OBVIOUS
  <2>1. parts[k] \in Seq(E) /\ f[k] \in Seq(E)
    BY <1>3, <1>t
  <2>2. CASE k = 1
    BY <1>3, <2>1, <2>2
  <2>3. CASE k # 1
    <3>1. k \in 2..n /\ k - 1 \in 1..n
      BY <2>3
    <3>2. f[k] = f[k - 1] \o parts[k] /\ f[k - 1] \in Seq(E) /\ start = Len(f[k - 1])
      BY <1>3, <2>3, <3>1
    <3> DEFINE x == f[k - 1]
               z == parts[k]
    <3>3. x \in Seq(E) /\ z \in Seq(E) /\ start = Len(x) /\ i \in 1..Len(z)
      BY <2>1, <3>2
    <3> HIDE DEF start, x, z
    <3>4. Len(x) + i \in 1..Len(x \o z) /\ (x \o z)[Len(x) + i] = z[i]
      BY <3>3
    <3> QED BY <3>2, <3>3, <3>4 DEF x, z
  <2> QED BY <2>2, <2>3
<1> HIDE DEF start
<1>7. ASSUME NEW d \in Nat, d \in T PROVE d + 1 \in T
  <2> SUFFICES ASSUME k + (d + 1) <= n PROVE P(k + (d + 1))
    <3> HIDE DEF P
    <3> QED OBVIOUS
  <2> SUFFICES ASSUME NEW i \in 1..Len(parts[k])
               PROVE  start + i \in 1..Len(f[k + (d + 1)]) /\ f[k + (d + 1)][start + i] = parts[k][i]
    OBVIOUS
  <2>1. /\ k + d \in 1..n /\ k + d <= n /\ k + (d + 1) \in 2..n /\ (k + (d + 1)) - 1 = k + d
    <3>1. k \in Nat /\ k >= 1 /\ k + (d + 1) <= n
      OBVIOUS
    <3> QED BY <3>1
  <2>2. start + i \in 1..Len(f[k + d]) /\ f[k + d][start + i] = parts[k][i]
    BY <1>7, <2>1
  <2>3. /\ f[k + (d + 1)] = f[k + d] \o parts[k + (d + 1)]
        /\ f[k + d] \in Seq(E) /\ parts[k + (d + 1)] \in Seq(E)
    <3>1. f[k + (d + 1)] = f[(k + (d + 1)) - 1] \o parts[k + (d + 1)]
      BY <1>3, <2>1
    <3>2. f[k + d] \in Seq(E)
      BY <1>3, <2>1
    <3>3. k + (d + 1) \in 1..n
      BY <2>1
    <3> QED BY <1>t, <2>1, <3>1, <3>2, <3>3
  <2> DEFINE x == f[k + d]
             z == parts[k + (d + 1)]
             j == start + i
  <2>4. x \in Seq(E) /\ z \in Seq(E) /\ j \in 1..Len(x)
    BY <2>2, <2>3
  <2> HIDE DEF x, z, j
  <2>5. j \in 1..Len(x \o z) /\ (x \o z)[j] = x[j]
    BY <2>4
  <2> QED BY <2>2, <2>3, <2>5 DEF x, z, j
<1>8. 0 \in T
  BY <1>6
<1>9. \A d \in Nat : d \in T
  <2> HIDE DEF T
  <2> QED BY <1>7, <1>8, Induction
<1>10. P(n)
  <2>1. n - k \in Nat /\ k + (n - k) = n
    OBVIOUS
  <2>2. n - k \in T
    BY <1>9, <2>1
  <2> HIDE DEF P
  <2> QED BY <2>1, <2>2
<1>11. FlattenSeq(parts) \in Seq(E)
  BY <1>1, <1>2, <1>3
<1> QED BY <1>2, <1>4, <1>5, <1>10, <1>11 DEF Placed

\* Counting by rows.
LEMMA RowsAndColumns ==
    ASSUME NEW q \in Nat, NEW n \in Nat \ {0}, NEW r \in 0..(n - 1), NEW z, z = q * n + r
    PROVE  z \div n = q /\ z % n = r
  OBVIOUS

\* The rows of a table, one after the other.
HasCell(rows, n, x, j) ==
    \E i \in 1..(rows * n) : /\ i = n * (x - 1) + j
                             /\ (i - 1) \div n + 1 = x /\ ((i - 1) % n) + 1 = j

\* Every row and column has its number.
LEMMA InTable ==
    ASSUME NEW rows \in Nat, NEW n \in Nat \ {0}, NEW x \in 1..rows, NEW j \in 1..n
    PROVE  HasCell(rows, n, x, j)
<1> DEFINE i == n * (x - 1) + j
           q == x - 1
           r == j - 1
<1>1. q \in Nat /\ r \in 0..(n - 1)
  OBVIOUS
<1>2. i - 1 = q * n + r
  OBVIOUS
<1>3. i \in Nat /\ i >= 1
  OBVIOUS
<1>4. i <= rows * n
  OBVIOUS
<1>5. (i - 1) \div n = q /\ (i - 1) % n = r
  <2> HIDE DEF i, q, r
  <2>1. i - 1 = i - 1 /\ i - 1 \in Int
    BY <1>3
  <2> DEFINE z == i - 1
  <2>2. z = q * n + r
    BY <1>2
  <2> HIDE DEF z
  <2>3. z \div n = q /\ z % n = r
    BY <1>1, <2>2, RowsAndColumns
  <2> QED BY <2>3 DEF z
<1>6. i \in 1..(rows * n)
  BY <1>3, <1>4
<1>7. (i - 1) \div n + 1 = x /\ ((i - 1) % n) + 1 = j
  BY <1>5
<1> QED BY <1>6, <1>7 DEF HasCell

\* A place in the table has a row and a column.
LEMMA TablePlace ==
    ASSUME NEW rows \in Nat, NEW n \in Nat \ {0}, NEW i \in 1..(rows * n)
    PROVE  /\ (i - 1) \div n + 1 \in 1..rows
           /\ ((i - 1) % n) + 1 \in 1..n
  OBVIOUS

-----------------------------------------------------------------------------
(***************************************************************************)
(* The lists of signatures of ContractSigning, as functions of the         *)
(* contract alone.                                                         *)
(***************************************************************************)
\* The combinations of oracles that may settle a leg, and the entries for all outcomes.
Quorums(leg) == Combinations(leg.oracles, leg.threshold)
Rows(leg) == Len(leg.payouts) * Len(Quorums(leg))
Entry(leg, i) == [outcome |-> ((i - 1) \div Len(Quorums(leg))) + 1,
                  oracles |-> ToSet(Quorums(leg)[((i - 1) % Len(Quorums(leg))) + 1])]
EntriesOf(leg) == [i \in 1..Rows(leg) |-> Entry(leg, i)]
\* The CETs a party signs a leg over: those of the leg, or all.
CetsOfAll(c) == FlattenSeq([k \in DOMAIN c |-> c[k].payouts])
SignedOver(p, c, k) == IF p = "accept" THEN c[k].payouts ELSE CetsOfAll(c)
SigOf(p, c, k, i) ==
    [by |-> p, cet |-> SignedOver(p, c, k)[Entry(c[k], i).outcome],
     point |-> [leg |-> k, outcome |-> Entry(c[k], i).outcome, oracles |-> Entry(c[k], i).oracles]]
LegSigs(p, c, k) == [i \in 1..Rows(c[k]) |-> SigOf(p, c, k, i)]
SigsOf(p, c) == FlattenSeq([k \in DOMAIN c |-> LegSigs(p, c, k)])
StartOf(c, k) == Len(FlattenSeq([l \in 1..(k - 1) |-> EntriesOf(c[l])]))
\* The signatures of p at the places of every leg are those of its outcomes.
Verified(p, c, sigs) ==
    \A k \in DOMAIN c : \A i \in 1..Rows(c[k]) :
        StartOf(c, k) + i \in DOMAIN sigs /\ sigs[StartOf(c, k) + i] = SigOf(p, c, k, i)

\* The operators of the instance are those of this module.
LEMMA SameCardinality == \A S : Signatures!Cardinality(S) = Cardinality(S)
  BY Zenon DEF Signatures!Cardinality, Cardinality

\* The operators of the instance are those of this module.
LEMMA SameCombinations == \A n, k : Signatures!Combinations(n, k) = Combinations(n, k)
  BY DEF Signatures!Combinations, Combinations, Signatures!kSubset, kSubset,
         Signatures!FirstSelector, FirstSelector, Signatures!NextSelector, NextSelector,
         Signatures!Max, Max, Signatures!Last, Last, Signatures!Cardinality, Cardinality

\* Likewise.
LEMMA SameFlatten == \A s : Signatures!FlattenSeq(s) = FlattenSeq(s)
  BY DEF Signatures!FlattenSeq, FlattenSeq

\* Likewise.
LEMMA SameToSet == \A s : Signatures!ToSet(s) = ToSet(s)
  BY DEF Signatures!ToSet, ToSet

\* iter_outcomes: the entries of a leg.
LEMMA EntriesAre == \A k : Signatures!IterOutcomes(k) = EntriesOf(contract[k])
  BY SameCombinations, SameToSet
  DEF Signatures!IterOutcomes, Signatures!Leg, EntriesOf, Entry, Rows, Quorums

\* The CETs of a leg, and those of all legs.
LEMMA CetsAre == /\ Signatures!AllCets = CetsOfAll(contract)
                 /\ \A k : Signatures!Cets(k) = contract[k].payouts
  BY SameFlatten DEF Signatures!AllCets, Signatures!Cets, Signatures!Leg, CetsOfAll

\* Where the signatures of a leg start.
LEMMA StartIs == \A k : Signatures!AdaptorSigStart(k) = StartOf(contract, k)
  BY SameFlatten, EntriesAre DEF Signatures!AdaptorSigStart, StartOf

\* get_adaptor_signatures: what each party makes for a leg.
LEMMA LegSigsAre ==
    ASSUME NEW k
    PROVE  /\ Signatures!AdaptorSignatures("accept", k, Signatures!Cets(k)) = LegSigs("accept", contract, k)
           /\ Signatures!AdaptorSignatures("offer", k, Signatures!AllCets) = LegSigs("offer", contract, k)
<1> DEFINE F(p, cets) == Signatures!AdaptorSignatures(p, k, cets)
           n == Rows(contract[k])
<1>1. ASSUME NEW p, NEW cets, cets = SignedOver(p, contract, k)
      PROVE  F(p, cets) = LegSigs(p, contract, k)
  <2>1. DOMAIN EntriesOf(contract[k]) = 1..n
    BY DEF EntriesOf
  <2>2. \A i \in 1..n : EntriesOf(contract[k])[i] = Entry(contract[k], i)
    BY DEF EntriesOf
  <2>3. F(p, cets) = [i \in 1..n |->
            [by |-> p, cet |-> cets[EntriesOf(contract[k])[i].outcome],
             point |-> [leg |-> k, outcome |-> EntriesOf(contract[k])[i].outcome,
                        oracles |-> EntriesOf(contract[k])[i].oracles]]]
    BY <2>1, EntriesAre DEF Signatures!AdaptorSignatures, Signatures!AdaptorSig, Signatures!AdaptorPoint
  <2>4. F(p, cets) = [i \in 1..n |-> SigOf(p, contract, k, i)]
    BY <1>1, <2>2, <2>3 DEF SigOf
  <2> QED BY <2>4 DEF LegSigs
<1>2. Signatures!Cets(k) = SignedOver("accept", contract, k)
  BY CetsAre DEF SignedOver
<1>3. Signatures!AllCets = SignedOver("offer", contract, k)
  BY CetsAre DEF SignedOver
<1> HIDE DEF F
<1>4. F("accept", Signatures!Cets(k)) = LegSigs("accept", contract, k)
  BY <1>1, <1>2
<1>5. F("offer", Signatures!AllCets) = LegSigs("offer", contract, k)
  BY <1>1, <1>3
<1> QED BY <1>4, <1>5 DEF F

\* What verifying the signatures of the other party checks.
LEMMA VerifiedIs ==
    ASSUME NEW sigs
    PROVE  /\ (\A k \in DOMAIN contract :
                  Signatures!VerifyAdaptorInfo("accept", k, Signatures!Cets(k), sigs))
                <=> Verified("accept", contract, sigs)
           /\ (\A k \in DOMAIN contract :
                  Signatures!VerifyAdaptorInfo("offer", k, Signatures!AllCets, sigs))
                <=> Verified("offer", contract, sigs)
<1>1. ASSUME NEW p, NEW k
      PROVE  /\ DOMAIN LegSigs(p, contract, k) = 1..Rows(contract[k])
             /\ \A i \in 1..Rows(contract[k]) : LegSigs(p, contract, k)[i] = SigOf(p, contract, k, i)
  BY DEF LegSigs
<1>2. ASSUME NEW k
      PROVE  /\ Signatures!VerifyAdaptorInfo("accept", k, Signatures!Cets(k), sigs)
                 <=> \A i \in 1..Rows(contract[k]) :
                        /\ StartOf(contract, k) + i \in DOMAIN sigs
                        /\ sigs[StartOf(contract, k) + i] = SigOf("accept", contract, k, i)
             /\ Signatures!VerifyAdaptorInfo("offer", k, Signatures!AllCets, sigs)
                 <=> \A i \in 1..Rows(contract[k]) :
                        /\ StartOf(contract, k) + i \in DOMAIN sigs
                        /\ sigs[StartOf(contract, k) + i] = SigOf("offer", contract, k, i)
  <2>1. Signatures!AdaptorSigStart(k) = StartOf(contract, k)
    BY StartIs
  <2>2. /\ Signatures!AdaptorSignatures("accept", k, Signatures!Cets(k)) = LegSigs("accept", contract, k)
        /\ Signatures!AdaptorSignatures("offer", k, Signatures!AllCets) = LegSigs("offer", contract, k)
    BY LegSigsAre
  <2>3. Signatures!VerifyAdaptorInfo("accept", k, Signatures!Cets(k), sigs)
          <=> \A i \in 1..Rows(contract[k]) :
                 /\ StartOf(contract, k) + i \in DOMAIN sigs
                 /\ sigs[StartOf(contract, k) + i] = SigOf("accept", contract, k, i)
    BY <1>1, <2>1, <2>2 DEF Signatures!VerifyAdaptorInfo
  <2>4. Signatures!VerifyAdaptorInfo("offer", k, Signatures!AllCets, sigs)
          <=> \A i \in 1..Rows(contract[k]) :
                 /\ StartOf(contract, k) + i \in DOMAIN sigs
                 /\ sigs[StartOf(contract, k) + i] = SigOf("offer", contract, k, i)
    BY <1>1, <2>1, <2>2 DEF Signatures!VerifyAdaptorInfo
  <2> QED BY <2>3, <2>4
<1> QED BY <1>2 DEF Verified

\* The legs of a contract.
LEMMA ContractsAreValid ==
    ASSUME NEW c \in Contracts
    PROVE  /\ Len(c) \in Nat /\ DOMAIN c = 1..Len(c)
           /\ \A k \in 1..Len(c) :
                 /\ c[k].oracles \in Nat /\ c[k].threshold \in 1..c[k].oracles
                 /\ c[k].payouts \in Seq(Nat)
<1>1. ValidContract(c)
  BY ExchangeAssumption
<1>2. c \in Seq([kind : {"enum", "numerical"}, oracles : Nat, threshold : Nat, payouts : Seq(Nat)])
  BY <1>1 DEF ValidContract
<1>3. DOMAIN c = 1..Len(c) /\ Len(c) \in Nat
  BY <1>2
<1>4. ASSUME NEW k \in 1..Len(c)
      PROVE  /\ c[k].oracles \in Nat /\ c[k].threshold \in 1..c[k].oracles
             /\ c[k].payouts \in Seq(Nat)
  <2>1. c[k] \in [kind : {"enum", "numerical"}, oracles : Nat, threshold : Nat, payouts : Seq(Nat)]
    <3> DEFINE S == [kind : {"enum", "numerical"}, oracles : Nat, threshold : Nat, payouts : Seq(Nat)]
    <3>1. c \in Seq(S)
      BY <1>2
    <3> HIDE DEF S
    <3>2. c[k] \in S
      BY <3>1
    <3> QED BY <3>2 DEF S
  <2>2. Quorate(c[k])
    BY <1>1, <1>3 DEF ValidContract
  <2> QED BY <2>1, <2>2 DEF Quorate
<1> QED BY <1>3, <1>4

\* A leg has quorums.
LEMMA QuorumsAre ==
    ASSUME NEW leg, leg.oracles \in Nat, leg.threshold \in 1..leg.oracles
    PROVE  /\ Quorums(leg) \in Seq(Selectors(leg.oracles, leg.threshold))
           /\ Len(Quorums(leg)) \in Nat \ {0}
<1> DEFINE n == leg.oracles
           k == leg.threshold
<1>1. n \in Nat /\ k \in 1..n /\ Quorums(leg) = Combinations(n, k)
  BY DEF Quorums
<1> HIDE DEF n, k
<1>2. Combinations(n, k) \in Seq(Selectors(n, k)) /\ Len(Combinations(n, k)) \in Nat /\ Len(Combinations(n, k)) > 0
  BY <1>1, CombinationsAre
<1> QED BY <1>1, <1>2 DEF n, k

\* The number of signatures of a leg.
LEMMA RowsAre ==
    ASSUME NEW c \in Contracts, NEW k \in 1..Len(c)
    PROVE  Rows(c[k]) \in Nat
<1> DEFINE a == Len(c[k].payouts)
           b == Len(Quorums(c[k]))
<1>1. a \in Nat
  BY ContractsAreValid
<1>2. b \in Nat
  BY ContractsAreValid, QuorumsAre
<1> HIDE DEF a, b
<1>3. a * b \in Nat
  BY <1>1, <1>2
<1> QED BY <1>3 DEF a, b, Rows

\* The signatures a party makes are those the other one expects.
LEMMA SigsVerify ==
    ASSUME NEW c \in Contracts, NEW p
    PROVE  Verified(p, c, SigsOf(p, c))
<1> DEFINE n == Len(c)
           parts == [k \in 1..n |-> LegSigs(p, c, k)]
           E == UNION {{SigOf(p, c, k, i) : i \in 1..Rows(c[k])} : k \in 1..n}
<1>1. n \in Nat /\ DOMAIN c = 1..n
  BY ContractsAreValid
<1>2. SigsOf(p, c) = FlattenSeq(parts)
  BY <1>1 DEF SigsOf
<1>3. \A k \in 1..n : Rows(c[k]) \in Nat
  BY RowsAre
<1>4. \A k \in 1..n : \A i \in 1..Rows(c[k]) : SigOf(p, c, k, i) \in E
  OBVIOUS
<1> HIDE DEF E, n
<1>6. \A k \in 1..n : /\ LegSigs(p, c, k) \in Seq(E) /\ Len(LegSigs(p, c, k)) = Rows(c[k])
                      /\ \A i \in 1..Rows(c[k]) : LegSigs(p, c, k)[i] = SigOf(p, c, k, i)
  <2> SUFFICES ASSUME NEW k \in 1..n
               PROVE  /\ LegSigs(p, c, k) \in Seq(E) /\ Len(LegSigs(p, c, k)) = Rows(c[k])
                      /\ \A i \in 1..Rows(c[k]) : LegSigs(p, c, k)[i] = SigOf(p, c, k, i)
    OBVIOUS
  <2> DEFINE m == Rows(c[k])
             G(i) == SigOf(p, c, k, i)
  <2>1. m \in Nat /\ \A i \in 1..m : G(i) \in E
    BY <1>3, <1>4
  <2>2. LegSigs(p, c, k) = [i \in 1..m |-> G(i)]
    BY DEF LegSigs
  <2> HIDE DEF m, G
  <2>3. [i \in 1..m |-> G(i)] \in Seq(E) /\ Len([i \in 1..m |-> G(i)]) = m
    BY <2>1
  <2>4. /\ LegSigs(p, c, k) \in Seq(E) /\ Len(LegSigs(p, c, k)) = m
        /\ \A i \in 1..m : LegSigs(p, c, k)[i] = G(i)
    BY <2>2, <2>3
  <2> QED BY <2>4 DEF m, G
<1>7. parts \in [1..n -> Seq(E)] /\ \A k \in 1..n : parts[k] = LegSigs(p, c, k)
  BY <1>6
<1> HIDE DEF parts
<1>8. ASSUME NEW k \in 1..n, NEW i \in 1..Rows(c[k])
      PROVE  /\ StartOf(c, k) + i \in DOMAIN SigsOf(p, c)
             /\ SigsOf(p, c)[StartOf(c, k) + i] = SigOf(p, c, k, i)
  <2> DEFINE F == UNION {{Entry(c[l], j) : j \in 1..Rows(c[l])} : l \in 1..n}
             shape == [l \in 1..(k - 1) |-> EntriesOf(c[l])]
  <2>1. \A l \in 1..n : \A j \in 1..Rows(c[l]) : Entry(c[l], j) \in F
    OBVIOUS
  <2> HIDE DEF F
  <2>2. \A l \in 1..n : EntriesOf(c[l]) \in Seq(F) /\ Len(EntriesOf(c[l])) = Rows(c[l])
    <3> SUFFICES ASSUME NEW l \in 1..n PROVE EntriesOf(c[l]) \in Seq(F) /\ Len(EntriesOf(c[l])) = Rows(c[l])
      OBVIOUS
    <3> DEFINE m == Rows(c[l])
               G(j) == Entry(c[l], j)
    <3>1. m \in Nat /\ \A j \in 1..m : G(j) \in F
      BY <1>3, <2>1
    <3>2. EntriesOf(c[l]) = [j \in 1..m |-> G(j)]
      BY DEF EntriesOf
    <3> HIDE DEF m, G
    <3>3. [j \in 1..m |-> G(j)] \in Seq(F) /\ Len([j \in 1..m |-> G(j)]) = m
      BY <3>1
    <3> QED BY <3>2, <3>3 DEF m
  <2>3. k \in 1..n /\ \A l \in 1..(k - 1) : l \in 1..n
    BY <1>1
  <2>4. shape \in [1..(k - 1) -> Seq(F)] /\ \A l \in 1..(k - 1) : Len(shape[l]) = Len(parts[l])
    BY <1>6, <1>7, <2>2, <2>3
  <2>5. StartOf(c, k) = Len(FlattenSeq(shape))
    BY DEF StartOf
  <2> HIDE DEF shape
  <2>6. /\ FlattenSeq(parts) \in Seq(E)
        /\ \A j \in 1..Len(parts[k]) :
              /\ Len(FlattenSeq(shape)) + j \in 1..Len(FlattenSeq(parts))
              /\ FlattenSeq(parts)[Len(FlattenSeq(shape)) + j] = parts[k][j]
    <3>1. PartsOf(parts, n, E) /\ PartsOf(shape, k - 1, F) /\ SameLengths(shape, parts, k - 1)
      BY <1>7, <2>4 DEF PartsOf, SameLengths
    <3>2. Placed(parts, shape, k, E)
      BY <1>1, <3>1, FlattenPlaces
    <3> QED BY <3>2 DEF Placed
  <2>7. Len(parts[k]) = Rows(c[k]) /\ parts[k][i] = SigOf(p, c, k, i)
    BY <1>6, <1>7
  <2> QED BY <1>2, <2>5, <2>6, <2>7
<1>9. Verified(p, c, SigsOf(p, c))
  BY <1>1, <1>8 DEF Verified
<1> QED BY <1>9

\* One part joined is that part.
LEMMA FlattenOne ==
    ASSUME NEW parts, Len(parts) = 1
    PROVE  FlattenSeq(parts) = parts[1]
<1>1. PICK f : Joins(f, parts, 1) /\ FlattenSeq(parts) = f[1]
  <2>1. Len(parts) \in Nat /\ Len(parts) > 0
    OBVIOUS
  <2>2. \E f : Joins(f, parts, Len(parts)) /\ FlattenSeq(parts) = f[Len(parts)]
    BY <2>1, FlattenIsJoin
  <2> QED BY <2>2
<1>2. f[1] = parts[1]
  BY <1>1 DEF Joins
<1> QED BY <1>1, <1>2

\* The table of signatures has an entry for each outcome and each quorum.
LEMMA EntryFor ==
    ASSUME NEW leg, leg.oracles \in Nat, leg.threshold \in 1..leg.oracles, leg.payouts \in Seq(Nat),
           NEW x \in 1..Len(leg.payouts), NEW Q \in kSubset(leg.threshold, 0..(leg.oracles - 1))
    PROVE  \E i \in 1..Rows(leg) : Entry(leg, i) = [outcome |-> x, oracles |-> Q]
<1> DEFINE n == leg.oracles
           k == leg.threshold
           all == Quorums(leg)
           m == Len(all)
           rows == Len(leg.payouts)
<1>1. n \in Nat /\ k \in 1..n /\ all = Combinations(n, k) /\ Q \in kSubset(k, 0..(n - 1)) /\ rows \in Nat
      /\ m \in Nat \ {0} /\ x \in 1..rows /\ Rows(leg) = rows * m
  BY QuorumsAre DEF Quorums, Rows
<1> HIDE DEF n, k, rows, all
<1>2. PICK t \in Selectors(n, k) : {t[i] : i \in 1..k} = Q
  BY <1>1, SetHasSelector
<1>3. PICK j \in 1..m : all[j] = t
  <2>1. \A s \in Selectors(n, k) : \E i \in 1..Len(Combinations(n, k)) : Combinations(n, k)[i] = s
    BY <1>1, CombinationsYieldAll
  <2> QED BY <1>1, <2>1 DEF m
<1>4. ToSet(t) = Q
  <2>1. DOMAIN t = 1..k
    BY DEF Selectors
  <2> QED BY <1>2, <2>1 DEF ToSet
<1> HIDE DEF m
<1>5. PICK i \in 1..(rows * m) : (i - 1) \div m + 1 = x /\ ((i - 1) % m) + 1 = j
  <2>1. HasCell(rows, m, x, j)
    BY <1>1, InTable
  <2> QED BY <2>1 DEF HasCell
<1>6. Entry(leg, i) = [outcome |-> (i - 1) \div m + 1, oracles |-> ToSet(all[((i - 1) % m) + 1])]
  BY DEF Entry, m, all
<1>7. Entry(leg, i) = [outcome |-> x, oracles |-> Q]
  BY <1>3, <1>4, <1>5, <1>6
<1> QED BY <1>1, <1>5, <1>7

\* Verified signatures cover a contract with one leg.
LEMMA VerifiedCovers ==
    ASSUME NEW c \in Contracts, Len(c) = 1, NEW p, NEW s, Verified(p, c, s),
           NEW k \in DOMAIN c, NEW x \in DOMAIN c[k].payouts,
           NEW Q \in kSubset(c[k].threshold, 0..(c[k].oracles - 1))
    PROVE  \E i \in DOMAIN s : s[i] = [by |-> p, cet |-> c[k].payouts[x],
                                       point |-> [leg |-> k, outcome |-> x, oracles |-> Q]]
<1>1. /\ DOMAIN c = 1..1 /\ k = 1 /\ k \in 1..Len(c)
      /\ c[k].oracles \in Nat /\ c[k].threshold \in 1..c[k].oracles /\ c[k].payouts \in Seq(Nat)
  BY ContractsAreValid
<1>2. x \in 1..Len(c[k].payouts)
  BY <1>1
<1>3. PICK i \in 1..Rows(c[k]) : Entry(c[k], i) = [outcome |-> x, oracles |-> Q]
  BY <1>1, <1>2, EntryFor
<1>4. Rows(c[k]) \in Nat
  BY <1>1, RowsAre
<1>5. StartOf(c, k) = 0
  <2> DEFINE shape == [l \in 1..(k - 1) |-> EntriesOf(c[l])]
  <2>1. Len(shape) = 0
    BY <1>1
  <2>2. StartOf(c, k) = Len(FlattenSeq(shape))
    BY DEF StartOf
  <2> HIDE DEF shape
  <2>3. FlattenSeq(shape) = shape
    BY <2>1, FlattenIsJoin
  <2> QED BY <2>1, <2>2, <2>3
<1>6. SignedOver(p, c, k) = c[k].payouts
  <2> DEFINE parts == [l \in DOMAIN c |-> c[l].payouts]
  <2>1. Len(parts) = 1 /\ parts[1] = c[1].payouts
    BY <1>1
  <2> HIDE DEF parts
  <2>2. FlattenSeq(parts) = c[1].payouts
    BY <2>1, FlattenOne
  <2> QED BY <1>1, <2>2 DEF SignedOver, CetsOfAll, parts
<1>7. StartOf(c, k) + i \in DOMAIN s /\ s[StartOf(c, k) + i] = SigOf(p, c, k, i)
  BY DEF Verified
<1>8. StartOf(c, k) + i = i
  BY <1>4, <1>5
<1>9. i \in DOMAIN s /\ s[i] = SigOf(p, c, k, i)
  BY <1>7, <1>8
<1>10. SigOf(p, c, k, i) = [by |-> p, cet |-> c[k].payouts[x],
                            point |-> [leg |-> k, outcome |-> x, oracles |-> Q]]
  BY <1>3, <1>6 DEF SigOf
<1> QED BY <1>9, <1>10

-----------------------------------------------------------------------------
(***************************************************************************)
(* The exchange with a manager.                                            *)
(***************************************************************************)
\* The witnesses when the parties of S have signed the inputs.
WitnessOf(S, ord) == [i \in DOMAIN ord |-> {p \in S : ord[i].owner = p \/ ord[i].dlc}]
\* What the offering party received, and what the accepting party received.
OfferHolds == ~altered => signed["offer"] = SigsOf("accept", contract)
AcceptHolds == ~altered => signed["accept"] = SigsOf("offer", contract) /\ witness = WitnessOf({"offer"}, order)
\* Unless a message was altered, what is held and witnessed at each stage is what the
\* other party made; what was verified, altered or not, is kept.
SignaturesInv ==
    /\ contract \in Contracts /\ altered \in BOOLEAN
    /\ \A i \in DOMAIN order : order[i] \in ManagerInputs
    /\ exchange \in {"offered", "accepted", "signed", "confirmed", "failed"}
    /\ DOMAIN signed = {"offer", "accept"}
    /\ exchange \in {"offered", "accepted"} => witness = WitnessOf({}, order)
    /\ exchange = "accepted" => OfferHolds
    /\ exchange = "signed" => Verified("accept", contract, signed["offer"]) /\ AcceptHolds
    /\ exchange = "confirmed" => /\ Verified("accept", contract, signed["offer"])
                                 /\ Verified("offer", contract, signed["accept"])
    /\ Signatures!HonestFundingCompletes

\* What each party makes for the contract.
LEMMA MadeAre ==
    /\ Signatures!FlattenSeq([k \in DOMAIN contract |->
           Signatures!AdaptorSignatures("accept", k, Signatures!Cets(k))]) = SigsOf("accept", contract)
    /\ Signatures!FlattenSeq([k \in DOMAIN contract |->
           Signatures!AdaptorSignatures("offer", k, Signatures!AllCets)]) = SigsOf("offer", contract)
  BY SameFlatten, LegSigsAre DEF SigsOf

\* A party adds its signature to what was signed before, the acceptor after the offerer.
LEMMA SigningAdds ==
    ASSUME NEW p, NEW S, p = "offer" \/ "offer" \in S
    PROVE  Signatures!SignFundingInputs(p, WitnessOf(S, order)) = WitnessOf(S \cup {p}, order)
<1> DEFINE w == WitnessOf(S, order)
           W == Signatures!SignFundingInputs(p, w)
           signs(i) == order[i].owner = p \/ (order[i].dlc /\ (p = "offer" \/ w[i] # {}))
<1>1. DOMAIN w = DOMAIN order /\ \A i \in DOMAIN order : w[i] = {q \in S : order[i].owner = q \/ order[i].dlc}
  BY DEF WitnessOf
<1>2. W = [i \in DOMAIN w |-> IF signs(i) THEN w[i] \cup {p} ELSE w[i]]
  BY DEF Signatures!SignFundingInputs
<1>3. \A i \in DOMAIN order : signs(i) <=> order[i].owner = p \/ order[i].dlc
  BY <1>1
<1> HIDE DEF w, signs
<1>4. W = [i \in DOMAIN order |-> IF signs(i) THEN w[i] \cup {p} ELSE w[i]]
  BY <1>1, <1>2
<1>5. ASSUME NEW i \in DOMAIN order
      PROVE  (IF signs(i) THEN w[i] \cup {p} ELSE w[i])
               = {q \in S \cup {p} : order[i].owner = q \/ order[i].dlc}
  BY <1>1, <1>3
<1>6. W = [i \in DOMAIN order |-> {q \in S \cup {p} : order[i].owner = q \/ order[i].dlc}]
  BY <1>4, <1>5
<1> QED BY <1>6 DEF WitnessOf, w

\* With the signatures of both, the funding transaction is complete.
LEMMA BothComplete ==
    ASSUME \A i \in DOMAIN order : order[i] \in ManagerInputs
    PROVE  Signatures!Complete(WitnessOf({"offer", "accept"}, order))
<1>1. ManagerInputs \subseteq [owner : {"offer", "accept"}, dlc : BOOLEAN]
  BY ExchangeAssumption
<1>2. ASSUME NEW i \in DOMAIN order
      PROVE  WitnessOf({"offer", "accept"}, order)[i]
               = IF order[i].dlc THEN Signatures!Parties ELSE {order[i].owner}
  <2>1. order[i].owner \in {"offer", "accept"} /\ order[i].dlc \in BOOLEAN
    BY <1>1
  <2>2. WitnessOf({"offer", "accept"}, order)[i]
          = {q \in {"offer", "accept"} : order[i].owner = q \/ order[i].dlc}
    BY DEF WitnessOf
  <2> QED BY <2>1, <2>2 DEF Signatures!Parties
<1>3. DOMAIN WitnessOf({"offer", "accept"}, order) = DOMAIN order
  BY DEF WitnessOf
<1> QED BY <1>2, <1>3 DEF Signatures!Complete

\* The offered contract.
LEMMA SignaturesInvInit == ASSUME Signatures!Init PROVE SignaturesInv
<1>1. contract \in Contracts /\ exchange = "offered"
  BY DEF Signatures!Init
<1>2. \A i \in DOMAIN order : order[i] \in ManagerInputs
  BY DEF Signatures!Init, Signatures!SetToSeqs
<1>3. witness = WitnessOf({}, order)
  BY DEF Signatures!Init, WitnessOf
<1>4. DOMAIN signed = {"offer", "accept"}
  BY DEF Signatures!Init, Signatures!Parties
<1>5. altered = FALSE
  BY DEF Signatures!Init
<1> QED BY <1>1, <1>2, <1>3, <1>4, <1>5 DEF SignaturesInv, Signatures!HonestFundingCompletes

\* accept_contract.
LEMMA AcceptContractKeeps ==
    ASSUME SignaturesInv, Signatures!AcceptContract
    PROVE  SignaturesInv'
<1>1. contract' = contract /\ order' = order /\ witness' = witness /\ exchange = "offered" /\ exchange' = "accepted"
  BY DEF Signatures!AcceptContract
<1>2. PICK s : /\ signed' = [signed EXCEPT !["offer"] = s]
               /\ altered' = (s # SigsOf("accept", contract))
  BY MadeAre DEF Signatures!AcceptContract
<1>3. DOMAIN signed = {"offer", "accept"} /\ witness = WitnessOf({}, order)
  BY <1>1 DEF SignaturesInv
<1>4. DOMAIN signed' = {"offer", "accept"} /\ signed'["offer"] = s /\ altered' \in BOOLEAN
  BY <1>2, <1>3
<1>5. OfferHolds'
  BY <1>1, <1>2, <1>4 DEF OfferHolds
<1>6. contract \in Contracts /\ \A i \in DOMAIN order : order[i] \in ManagerInputs
  BY DEF SignaturesInv
<1>7. witness' = WitnessOf({}, order')
  BY <1>1, <1>3
<1>8. Signatures!HonestFundingCompletes'
  BY <1>1 DEF Signatures!HonestFundingCompletes
<1> QED BY <1>1, <1>4, <1>5, <1>6, <1>7, <1>8 DEF SignaturesInv

\* verify_accepted_and_sign_contract.
LEMMA VerifyAcceptedKeeps ==
    ASSUME SignaturesInv, Signatures!VerifyAcceptedAndSign
    PROVE  SignaturesInv'
<1>1. contract' = contract /\ order' = order /\ exchange = "accepted"
  BY DEF Signatures!VerifyAcceptedAndSign
<1>2. /\ witness = WitnessOf({}, order) /\ OfferHolds
      /\ DOMAIN signed = {"offer", "accept"} /\ altered \in BOOLEAN
  BY <1>1 DEF SignaturesInv
<1>3. contract \in Contracts /\ \A i \in DOMAIN order : order[i] \in ManagerInputs
  BY DEF SignaturesInv
<1>4. CASE Verified("accept", contract, signed["offer"])
  <2>1. /\ exchange' = "signed"
        /\ \E s, w : /\ signed' = [signed EXCEPT !["accept"] = s] /\ witness' = w
                     /\ altered' = (altered \/ s # SigsOf("offer", contract)
                                      \/ w # Signatures!SignFundingInputs("offer", witness))
    BY <1>4, VerifiedIs, MadeAre DEF Signatures!VerifyAcceptedAndSign
  <2>2. PICK s, w : /\ signed' = [signed EXCEPT !["accept"] = s] /\ witness' = w
                    /\ altered' = (altered \/ s # SigsOf("offer", contract)
                                     \/ w # Signatures!SignFundingInputs("offer", witness))
    BY <2>1
  <2>3. DOMAIN signed' = {"offer", "accept"} /\ signed'["offer"] = signed["offer"] /\ signed'["accept"] = s
    BY <1>2, <2>2
  <2>4. Signatures!SignFundingInputs("offer", witness) = WitnessOf({"offer"}, order)
    <3>1. {} \cup {"offer"} = {"offer"}
      OBVIOUS
    <3> QED BY <1>2, <3>1, SigningAdds
  <2>5. altered' \in BOOLEAN
    BY <2>2
  <2>6. AcceptHolds' /\ Verified("accept", contract, signed["offer"])'
    BY <1>1, <1>4, <2>2, <2>3, <2>4 DEF AcceptHolds
  <2>7. Signatures!HonestFundingCompletes'
    BY <2>1 DEF Signatures!HonestFundingCompletes
  <2> QED BY <1>1, <1>3, <2>1, <2>3, <2>5, <2>6, <2>7 DEF SignaturesInv
<1>5. CASE ~Verified("accept", contract, signed["offer"])
  <2>1. exchange' = "failed" /\ signed' = signed /\ altered' = altered
    BY <1>5, VerifiedIs DEF Signatures!VerifyAcceptedAndSign
  <2>2. altered
    BY <1>2, <1>3, <1>5, SigsVerify DEF OfferHolds
  <2>3. Signatures!HonestFundingCompletes'
    BY <2>1, <2>2 DEF Signatures!HonestFundingCompletes
  <2> QED BY <1>1, <1>2, <1>3, <2>1, <2>3 DEF SignaturesInv
<1> QED BY <1>4, <1>5

\* verify_signed_contract.
LEMMA VerifySignedKeeps ==
    ASSUME SignaturesInv, Signatures!VerifySigned
    PROVE  SignaturesInv'
<1>1. /\ contract' = contract /\ order' = order /\ signed' = signed /\ altered' = altered
      /\ exchange = "signed"
  BY DEF Signatures!VerifySigned
<1>2. /\ AcceptHolds /\ Verified("accept", contract, signed["offer"])
      /\ DOMAIN signed = {"offer", "accept"} /\ altered \in BOOLEAN
  BY <1>1 DEF SignaturesInv
<1>3. contract \in Contracts /\ \A i \in DOMAIN order : order[i] \in ManagerInputs
  BY DEF SignaturesInv
<1>4. CASE Verified("offer", contract, signed["accept"])
  <2>1. /\ witness' = Signatures!SignFundingInputs("accept", witness)
        /\ exchange' = IF Signatures!Complete(witness') THEN "confirmed" ELSE "failed"
    BY <1>4, VerifiedIs DEF Signatures!VerifySigned
  <2>2. ASSUME ~altered PROVE exchange' = "confirmed"
    <3>1. witness = WitnessOf({"offer"}, order)
      BY <1>2, <2>2 DEF AcceptHolds
    <3>2. {"offer"} \cup {"accept"} = {"offer", "accept"} /\ "offer" \in {"offer"}
      OBVIOUS
    <3>3. witness' = WitnessOf({"offer", "accept"}, order)
      BY <2>1, <3>1, <3>2, SigningAdds
    <3> QED BY <1>3, <2>1, <3>3, BothComplete
  <2>3. /\ Verified("accept", contract, signed["offer"])'
        /\ Verified("offer", contract, signed["accept"])'
    BY <1>1, <1>2, <1>4
  <2>4. Signatures!HonestFundingCompletes'
    BY <1>1, <2>2 DEF Signatures!HonestFundingCompletes
  <2>5. exchange' \in {"confirmed", "failed"}
    BY <2>1
  <2> QED BY <1>1, <1>2, <1>3, <2>3, <2>4, <2>5 DEF SignaturesInv
<1>5. CASE ~Verified("offer", contract, signed["accept"])
  <2>1. exchange' = "failed"
    BY <1>5, VerifiedIs DEF Signatures!VerifySigned
  <2>2. altered
    BY <1>2, <1>3, <1>5, SigsVerify DEF AcceptHolds
  <2>3. Signatures!HonestFundingCompletes'
    BY <1>1, <2>1, <2>2 DEF Signatures!HonestFundingCompletes
  <2> QED BY <1>1, <1>2, <1>3, <2>1, <2>3 DEF SignaturesInv
<1> QED BY <1>4, <1>5

\* What neither signs nor verifies.
LEMMA SignaturesInvStays ==
    ASSUME SignaturesInv, UNCHANGED <<contract, order, exchange, signed, altered, witness>>
    PROVE  SignaturesInv'
  BY DEF SignaturesInv, OfferHolds, AcceptHolds, WitnessOf, Signatures!HonestFundingCompletes

\* Every step.
LEMMA SignaturesInvNext ==
    ASSUME SignaturesInv, Signatures!Next
    PROVE  SignaturesInv'
<1>1. CASE Signatures!AcceptContract
  BY <1>1, AcceptContractKeeps
<1>2. CASE Signatures!VerifyAcceptedAndSign
  BY <1>2, VerifyAcceptedKeeps
<1>3. CASE Signatures!VerifySigned
  BY <1>3, VerifySignedKeeps
<1>4. ASSUME NEW k, NEW o, Signatures!Mature(k, o) PROVE SignaturesInv'
  BY <1>4, SignaturesInvStays DEF Signatures!Mature
<1>5. ASSUME NEW k, NEW o, NEW outcome, Signatures!Attest(k, o, outcome) PROVE SignaturesInv'
  BY <1>5, SignaturesInvStays DEF Signatures!Attest
<1>6. ASSUME NEW p, Signatures!CheckConfirmed(p) PROVE SignaturesInv'
  BY <1>6, SignaturesInvStays DEF Signatures!CheckConfirmed
<1> QED BY <1>1, <1>2, <1>3, <1>4, <1>5, <1>6 DEF Signatures!Next

\* With one leg, what was verified has a signature of every outcome and quorum.
LEMMA SignaturesCover ==
    ASSUME SignaturesInv, \A c \in Contracts : Len(c) = 1
    PROVE  Signatures!FundedIsCovered
<1> SUFFICES ASSUME exchange = "confirmed",
                    NEW p \in Signatures!Parties, NEW k \in DOMAIN contract,
                    NEW x \in Signatures!Outcomes(k),
                    NEW Q \in Signatures!kSubset(Signatures!Leg(k).threshold, Signatures!Oracles(k))
             PROVE  \E i \in DOMAIN signed[p] :
                      signed[p][i] = Signatures!AdaptorSig(Signatures!Other(p), Signatures!Leg(k).payouts[x],
                          Signatures!AdaptorPoint(k, [outcome |-> x, oracles |-> Q]))
  BY DEF Signatures!FundedIsCovered
<1>1. /\ contract \in Contracts /\ Len(contract) = 1
      /\ Verified("accept", contract, signed["offer"])
      /\ Verified("offer", contract, signed["accept"])
  BY DEF SignaturesInv
<1>2. x \in DOMAIN contract[k].payouts
  BY DEF Signatures!Outcomes, Signatures!Leg
<1>3. Q \in kSubset(contract[k].threshold, 0..(contract[k].oracles - 1))
  BY SameCardinality DEF Signatures!kSubset, kSubset, Signatures!Leg, Signatures!Oracles
<1>4. p \in {"offer", "accept"} /\ Signatures!Other("offer") = "accept" /\ Signatures!Other("accept") = "offer"
  BY DEF Signatures!Parties, Signatures!Other
<1>5. \E i \in DOMAIN signed[p] :
         signed[p][i] = [by |-> Signatures!Other(p), cet |-> contract[k].payouts[x],
                         point |-> [leg |-> k, outcome |-> x, oracles |-> Q]]
  BY <1>1, <1>2, <1>3, <1>4, VerifiedCovers
<1> QED BY <1>5 DEF Signatures!AdaptorSig, Signatures!AdaptorPoint, Signatures!Leg

-----------------------------------------------------------------------------
(***************************************************************************)
(* The API without a manager.                                              *)
(***************************************************************************)
LEMMA StatelessCombinations ==
    /\ \A n, k : Stateless!Combinations(n, k) = Combinations(n, k)
    /\ \A n, k, s : Stateless!IndexForCombination(n, k, s) = IndexForCombination(n, k, s)
<1>1. \A n, k : Stateless!Combinations(n, k) = Combinations(n, k)
  BY DEF Stateless!Combinations, Combinations, Stateless!kSubset, kSubset,
         Stateless!FirstSelector, FirstSelector, Stateless!NextSelector, NextSelector,
         Stateless!Max, Max, Stateless!Last, Last, Stateless!Cardinality, Cardinality
<1>2. \A n, k, s : Stateless!IndexForCombination(n, k, s) = IndexForCombination(n, k, s)
  BY DEF Stateless!IndexForCombination, IndexForCombination, Stateless!ToSet, ToSet,
         Stateless!Combinations, Combinations, Stateless!kSubset, kSubset,
         Stateless!FirstSelector, FirstSelector, Stateless!NextSelector, NextSelector,
         Stateless!Max, Max, Stateless!Last, Last, Stateless!Cardinality, Cardinality
<1> QED BY <1>1, <1>2

\* The operators of the instance are those of this module.
LEMMA StatelessCardinality == \A S : Stateless!Cardinality(S) = Cardinality(S)
  BY Zenon DEF Stateless!Cardinality, Cardinality

\* Likewise.
LEMMA StatelessSequences ==
    /\ \A s : Stateless!FlattenSeq(s) = FlattenSeq(s)
    /\ \A s : Stateless!ToSet(s) = ToSet(s)
    /\ \A k, S : Stateless!kSubset(k, S) = kSubset(k, S)
    /\ \A S : Stateless!SetToSeqs(S) = SetToSeqs(S)
<1>1. \A s : Stateless!FlattenSeq(s) = FlattenSeq(s)
  BY DEF Stateless!FlattenSeq, FlattenSeq
<1>2. \A s : Stateless!ToSet(s) = ToSet(s)
  BY DEF Stateless!ToSet, ToSet
<1>3. \A k, S : Stateless!kSubset(k, S) = kSubset(k, S)
  BY StatelessCardinality DEF Stateless!kSubset, kSubset
<1>4. \A S : Stateless!SetToSeqs(S) = SetToSeqs(S)
  BY StatelessCardinality DEF Stateless!SetToSeqs, SetToSeqs
<1> QED BY <1>1, <1>2, <1>3, <1>4

\* Likewise.
LEMMA StatelessOrder ==
    \A s, ids : Stateless!OrderBySerialIds(s, ids) = OrderBySerialIds(s, ids)
  BY DEF Stateless!OrderBySerialIds, OrderBySerialIds, Stateless!Place, Place,
         Stateless!Cardinality, Cardinality

-----------------------------------------------------------------------------
(***************************************************************************)
(* Checks: all pass, or but for a witness that is not there yet.           *)
(***************************************************************************)
\* A check, and the error it returns when it fails.
Errors == {"InvalidOffer", "InvalidAccept", "InvalidSign", "InvalidFundingInput", "PsbtMismatch",
           "MissingFinalizedInput", "Key"}
Check == BOOLEAN \X Errors
AllPass(checks) == \A i \in DOMAIN checks : checks[i][1]
AllButWitnesses(checks) ==
    \A i \in DOMAIN checks : checks[i][1] \/ checks[i][2] = "MissingFinalizedInput"

\* The checks of two lists, one after the other.
LEMMA ChecksJoin ==
    ASSUME NEW A \in Seq(Check), NEW B \in Seq(Check)
    PROVE  /\ A \o B \in Seq(Check)
           /\ AllPass(A \o B) <=> AllPass(A) /\ AllPass(B)
           /\ AllButWitnesses(A \o B) <=> AllButWitnesses(A) /\ AllButWitnesses(B)
<1> DEFINE C == A \o B
           m == Len(A)
           n == Len(B)
<1>1. /\ m \in Nat /\ n \in Nat /\ DOMAIN A = 1..m /\ DOMAIN B = 1..n /\ DOMAIN C = 1..(m + n)
      /\ C \in Seq(Check)
      /\ \A i \in 1..m : C[i] = A[i]
      /\ \A i \in 1..n : C[m + i] = B[i]
  OBVIOUS
<1> HIDE DEF C, m, n
<1>2. \A i \in 1..(m + n) : i \in 1..m \/ \E j \in 1..n : i = m + j
  <2> SUFFICES ASSUME NEW i \in 1..(m + n), i \notin 1..m PROVE \E j \in 1..n : i = m + j
    OBVIOUS
  <2>1. i - m \in 1..n /\ i = m + (i - m)
    BY <1>1
  <2> QED BY <2>1
<1>3. (\A j \in 1..n : m + j \in 1..(m + n)) /\ \A j \in 1..m : j \in 1..(m + n)
  BY <1>1
<1>4. ASSUME NEW G, (\A i \in 1..(m + n) : C[i] \in G) PROVE (\A i \in 1..m : A[i] \in G) /\ \A i \in 1..n : B[i] \in G
  BY <1>1, <1>3, <1>4
<1>5. ASSUME NEW G, (\A i \in 1..m : A[i] \in G) /\ \A i \in 1..n : B[i] \in G PROVE \A i \in 1..(m + n) : C[i] \in G
  BY <1>1, <1>2, <1>5
<1>7. ASSUME NEW s \in Seq(Check)
      PROVE  /\ AllPass(s) <=> \A i \in DOMAIN s : s[i] \in {c \in Check : c[1]}
             /\ AllButWitnesses(s) <=>
                   \A i \in DOMAIN s : s[i] \in {c \in Check : c[1] \/ c[2] = "MissingFinalizedInput"}
  <2>1. \A i \in DOMAIN s : s[i] \in Check
    OBVIOUS
  <2> QED BY <2>1 DEF AllPass, AllButWitnesses
<1> DEFINE G1 == {c \in Check : c[1]}
           G2 == {c \in Check : c[1] \/ c[2] = "MissingFinalizedInput"}
<1>8. /\ AllPass(A) <=> \A i \in 1..m : A[i] \in G1
      /\ AllPass(B) <=> \A i \in 1..n : B[i] \in G1
      /\ AllPass(C) <=> \A i \in 1..(m + n) : C[i] \in G1
      /\ AllButWitnesses(A) <=> \A i \in 1..m : A[i] \in G2
      /\ AllButWitnesses(B) <=> \A i \in 1..n : B[i] \in G2
      /\ AllButWitnesses(C) <=> \A i \in 1..(m + n) : C[i] \in G2
  BY <1>1, <1>7
<1> HIDE DEF G1, G2
<1>9. (AllPass(C) <=> AllPass(A) /\ AllPass(B))
  BY <1>4, <1>5, <1>8
<1>10. AllButWitnesses(C) <=> AllButWitnesses(A) /\ AllButWitnesses(B)
  BY <1>4, <1>5, <1>8
<1> QED BY <1>1, <1>9, <1>10 DEF C

\* A call returns ok when all checks pass, and misses a witness when only that fails.
LEMMA FirstFailedIs ==
    ASSUME NEW checks \in Seq(Check)
    PROVE  /\ Stateless!FirstFailed(checks) = "ok" <=> AllPass(checks)
           /\ AllButWitnesses(checks) =>
                 Stateless!FirstFailed(checks) \in {"ok", "MissingFinalizedInput"}
<1> DEFINE failed == {i \in DOMAIN checks : ~checks[i][1]}
           m == Stateless!Min(failed)
<1>1. DOMAIN checks \subseteq Nat /\ \A i \in DOMAIN checks : checks[i] \in Check
  OBVIOUS
<1>2. CASE failed = {}
  <2>1. Stateless!FirstFailed(checks) = "ok"
    BY <1>2 DEF Stateless!FirstFailed
  <2> QED BY <1>2, <2>1 DEF AllPass
<1>3. CASE failed # {}
  <2>1. \E i \in failed : \A j \in failed : i <= j
    BY <1>1, <1>3, LeastNumber
  <2>2. m \in failed
    <3> HIDE DEF failed
    <3> QED BY <2>1 DEF Stateless!Min
  <2>3. Stateless!FirstFailed(checks) = checks[m][2]
    BY <1>3 DEF Stateless!FirstFailed
  <2> HIDE DEF m
  <2>4. checks[m] \in Check /\ ~checks[m][1] /\ m \in DOMAIN checks
    BY <1>1, <2>2
  <2>5. checks[m][2] # "ok"
    BY <2>4 DEF Check, Errors
  <2> QED BY <2>3, <2>4, <2>5 DEF AllPass, AllButWitnesses
<1> QED BY <1>2, <1>3

\* A check.
LEMMA CheckIs ==
    ASSUME NEW b \in BOOLEAN, NEW e \in Errors
    PROVE  <<b, e>> \in Check
  BY DEF Check

\* What validate_context makes sure of.
LEMMA ContextIs ==
    ASSUME NEW o, NEW a
    PROVE  /\ Stateless!ContextChecks(o, a) \in Seq(Check)
           /\ AllPass(Stateless!ContextChecks(o, a)) <=>
                 /\ o.version = 1 /\ a.version = 1 /\ o.temp = a.temp /\ ~a.negotiation
                 /\ Stateless!ValidOfferInputs(o) /\ Stateless!NoDlcInputs(a.inputs)
                 /\ Stateless!UniqueSerialIds(Stateless!AllInputs(o, a))
                 /\ o.collateral + a.collateral = o.total
                 /\ Stateless!ValidLegs(o.legs)
<1> DEFINE b1 == o.version = 1
           b2 == a.version = 1
           b3 == o.temp = a.temp
           b4 == ~a.negotiation
           b5 == Stateless!ValidOfferInputs(o) /\ Stateless!NoDlcInputs(a.inputs)
           b6 == Stateless!UniqueSerialIds(Stateless!AllInputs(o, a))
           b7 == o.collateral + a.collateral = o.total
           b8 == Stateless!ValidLegs(o.legs)
           C == Stateless!ContextChecks(o, a)
<1>1. C = << <<b1, "InvalidOffer">>, <<b2, "InvalidAccept">>, <<b3, "InvalidAccept">>,
             <<b4, "InvalidAccept">>, <<b5, "InvalidFundingInput">>, <<b6, "InvalidFundingInput">>,
             <<b7, "InvalidAccept">>, <<b8, "InvalidOffer">> >>
  BY DEF Stateless!ContextChecks, Stateless!PROTOCOL_VERSION
<1>2. /\ b1 \in BOOLEAN /\ b2 \in BOOLEAN /\ b3 \in BOOLEAN /\ b4 \in BOOLEAN
      /\ b5 \in BOOLEAN /\ b6 \in BOOLEAN /\ b7 \in BOOLEAN /\ b8 \in BOOLEAN
  BY DEF Stateless!ValidOfferInputs, Stateless!NoDlcInputs, Stateless!UniqueSerialIds,
         Stateless!IsInjective, Stateless!ValidLegs
<1> HIDE DEF b1, b2, b3, b4, b5, b6, b7, b8, C
<1>3. /\ <<b1, "InvalidOffer">> \in Check /\ <<b2, "InvalidAccept">> \in Check
      /\ <<b3, "InvalidAccept">> \in Check /\ <<b4, "InvalidAccept">> \in Check
      /\ <<b5, "InvalidFundingInput">> \in Check /\ <<b6, "InvalidFundingInput">> \in Check
      /\ <<b7, "InvalidAccept">> \in Check /\ <<b8, "InvalidOffer">> \in Check
  <2>1. /\ "InvalidOffer" \in Errors
        /\ "InvalidAccept" \in Errors
        /\ "InvalidFundingInput" \in Errors
    BY DEF Errors
  <2> QED BY <1>2, <2>1, CheckIs
<1>4. C \in Seq(Check)
  BY <1>1, <1>3
<1>5. DOMAIN C = 1..8 /\ C[1][1] = b1 /\ C[2][1] = b2 /\ C[3][1] = b3 /\ C[4][1] = b4
      /\ C[5][1] = b5 /\ C[6][1] = b6 /\ C[7][1] = b7 /\ C[8][1] = b8
  BY <1>1
<1>6. AllPass(C) <=> b1 /\ b2 /\ b3 /\ b4 /\ b5 /\ b6 /\ b7 /\ b8
  BY <1>5 DEF AllPass
<1> QED BY <1>4, <1>6 DEF C, b1, b2, b3, b4, b5, b6, b7, b8

\* A list of one check.
LEMMA OneCheck ==
    ASSUME NEW b \in BOOLEAN, NEW e \in Errors
    PROVE  /\ << <<b, e>> >> \in Seq(Check)
           /\ AllPass(<< <<b, e>> >>) <=> b
<1>1. <<b, e>> \in Check
  BY DEF Check
<1> QED BY <1>1 DEF AllPass

\* A list of two.
LEMMA TwoChecks ==
    ASSUME NEW b \in BOOLEAN, NEW e \in Errors, NEW c \in BOOLEAN, NEW f \in Errors
    PROVE  /\ << <<b, e>>, <<c, f>> >> \in Seq(Check)
           /\ AllPass(<< <<b, e>>, <<c, f>> >>) <=> b /\ c
<1>1. <<b, e>> \in Check /\ <<c, f>> \in Check
  BY DEF Check
<1>2. AllPass(<< <<b, e>>, <<c, f>> >>) <=> <<b, e>>[1] /\ <<c, f>>[1]
  BY DEF AllPass
<1> QED BY <1>1, <1>2

\* What is checked of a SignDlc message.
LEMMA SignMessageIs ==
    ASSUME NEW o, NEW a, NEW s
    PROVE  /\ Stateless!SignMessageChecks(o, a, s) \in Seq(Check)
           /\ AllPass(Stateless!SignMessageChecks(o, a, s)) <=>
                 s.version = 1 /\ s.contract_id = Stateless!ContractId(o, a)
<1> DEFINE b == s.version = 1
           c == s.contract_id = Stateless!ContractId(o, a)
<1>1. b \in BOOLEAN /\ c \in BOOLEAN /\ "InvalidSign" \in Errors
  BY DEF Errors
<1>2. Stateless!SignMessageChecks(o, a, s) = << <<b, "InvalidSign">>, <<c, "InvalidSign">> >>
  BY DEF Stateless!SignMessageChecks, Stateless!PROTOCOL_VERSION
<1> HIDE DEF b, c
<1>3. /\ << <<b, "InvalidSign">>, <<c, "InvalidSign">> >> \in Seq(Check)
      /\ AllPass(<< <<b, "InvalidSign">>, <<c, "InvalidSign">> >>) <=> b /\ c
  BY <1>1, TwoChecks
<1> QED BY <1>2, <1>3 DEF b, c

\* What is checked of the signatures of the other party.
LEMMA CounterpartyIs ==
    ASSUME NEW o, NEW a, NEW key, NEW refund_sig, NEW cet_sigs, NEW e \in Errors
    PROVE  /\ Stateless!CounterpartyChecks(o, a, key, refund_sig, cet_sigs, e) \in Seq(Check)
           /\ AllPass(Stateless!CounterpartyChecks(o, a, key, refund_sig, cet_sigs, e)) <=>
                 /\ refund_sig = Stateless!Sig(key, Stateless!Refund(o, a))
                 /\ cet_sigs = Stateless!AdaptorSignatures(key, o, a)
  BY TwoChecks DEF Stateless!CounterpartyChecks

\* What is checked of a PSBT.
LEMMA PsbtIs ==
    ASSUME NEW o, NEW a, NEW psbt
    PROVE  /\ Stateless!PsbtChecks(o, a, psbt) \in Seq(Check)
           /\ AllPass(Stateless!PsbtChecks(o, a, psbt)) <=> psbt.fund = Stateless!Fund(o, a)
<1> DEFINE b == psbt.fund = Stateless!Fund(o, a)
<1>1. b \in BOOLEAN /\ "PsbtMismatch" \in Errors
  BY DEF Errors
<1>2. Stateless!PsbtChecks(o, a, psbt) = << <<b, "PsbtMismatch">> >>
  BY DEF Stateless!PsbtChecks
<1> HIDE DEF b
<1>3. << <<b, "PsbtMismatch">> >> \in Seq(Check) /\ (AllPass(<< <<b, "PsbtMismatch">> >>) <=> b)
  BY <1>1, OneCheck
<1> QED BY <1>2, <1>3 DEF b

\* What a party that has a message has checked of it.
Context(o, a) == AllPass(Stateless!ContextChecks(o, a))
\* An acceptance with the signatures of its party over its transactions.
Accepted(o, a) ==
    /\ Context(o, a)
    /\ a.refund_sig = Stateless!Sig(a.key, Stateless!Refund(o, a))
    /\ a.cet_sigs = Stateless!AdaptorSignatures(a.key, o, a)
\* A SignDlc message with those of the offering party.
SignedBy(o, a, s) ==
    /\ s.version = 1 /\ s.contract_id = Stateless!ContractId(o, a)
    /\ s.refund_sig = Stateless!Sig(o.key, Stateless!Refund(o, a))
    /\ s.cet_sigs = Stateless!AdaptorSignatures(o.key, o, a)
\* The key of a party, which says whose signatures are used.
KeyOf(o, a, p) == IF p = "offer" THEN o.key ELSE a.key
Messages(o, a, s, p, key) ==
    /\ Accepted(o, a) /\ SignedBy(o, a, s)
    /\ p \in {"offer", "accept"} /\ key = KeyOf(o, a, p) /\ Stateless!SettlingParty(o, key) = p

\* Messages that were checked pass the checks of sign_cet and sign_refund.
LEMMA SettlingPasses ==
    ASSUME NEW o, NEW a, NEW s, NEW p, NEW key, Messages(o, a, s, p, key)
    PROVE  /\ Stateless!SettlingChecks(o, a, s, key) \in Seq(Check)
           /\ AllPass(Stateless!SettlingChecks(o, a, s, key))
<1>1. Stateless!ContextChecks(o, a) \in Seq(Check) /\ AllPass(Stateless!ContextChecks(o, a))
  BY ContextIs DEF Messages, Accepted, Context
<1>2. Stateless!SignMessageChecks(o, a, s) \in Seq(Check) /\ AllPass(Stateless!SignMessageChecks(o, a, s))
  BY SignMessageIs DEF Messages, SignedBy
<1> DEFINE A == Stateless!ContextChecks(o, a)
           B == Stateless!SignMessageChecks(o, a, s)
           b == key \in {o.key, a.key}
           C == << <<b, "Key">> >>
<1>3. C \in Seq(Check) /\ AllPass(C)
  <2>1. b /\ b \in BOOLEAN /\ "Key" \in Errors
    BY DEF Messages, KeyOf, Errors
  <2> HIDE DEF b
  <2> QED BY <2>1, OneCheck
<1>4. Stateless!SettlingChecks(o, a, s, key) = (A \o B) \o C
  BY DEF Stateless!SettlingChecks
<1> HIDE DEF A, B, C
<1>5. A \o B \in Seq(Check) /\ AllPass(A \o B)
  BY <1>1, <1>2, ChecksJoin DEF A, B
<1>6. (A \o B) \o C \in Seq(Check) /\ AllPass((A \o B) \o C)
  BY <1>3, <1>5, ChecksJoin
<1> QED BY <1>4, <1>6

\* One more check that passes.
LEMMA PassesWith ==
    ASSUME NEW A \in Seq(Check), AllPass(A), NEW e \in Errors
    PROVE  Stateless!FirstFailed(A \o << <<TRUE, e>> >>) = "ok"
<1> DEFINE B == << <<TRUE, e>> >>
<1>1. B \in Seq(Check) /\ AllPass(B)
  BY OneCheck
<1> HIDE DEF B
<1>2. A \o B \in Seq(Check) /\ AllPass(A \o B)
  BY <1>1, ChecksJoin
<1>3. Stateless!FirstFailed(A \o B) = "ok"
  BY <1>2, FirstFailedIs
<1> QED BY <1>3 DEF B

\* The refund can be made from the messages.
LEMMA RefundIsReady ==
    ASSUME NEW o, NEW a, NEW s, NEW p, NEW key, Messages(o, a, s, p, key)
    PROVE  /\ Stateless!RefundOf(o, a, s, key).error = "ok"
           /\ Stateless!Spends(Stateless!RefundOf(o, a, s, key).tx, Stateless!RefundOf(o, a, s, key).sigs)
<1> DEFINE R == Stateless!Refund(o, a)
           ckey == Stateless!CounterpartyKey(o, a, p)
           other == Stateless!CounterpartySigs(a, s, p).refund_sig
           e == IF p = "offer" THEN "InvalidAccept" ELSE "InvalidSign"
           S == Stateless!SettlingChecks(o, a, s, key)
<1>1. p \in {"offer", "accept"} /\ key = KeyOf(o, a, p) /\ Stateless!SettlingParty(o, key) = p
  BY DEF Messages
<1>2. other = Stateless!Sig(ckey, R)
  BY <1>1 DEF Messages, Accepted, SignedBy, Stateless!CounterpartySigs, Stateless!CounterpartyKey
<1>3. S \in Seq(Check) /\ AllPass(S)
  BY SettlingPasses
<1>4. Stateless!RefundOf(o, a, s, key) =
         Stateless!Settled(Stateless!FirstFailed(S \o << <<other = Stateless!Sig(ckey, R), e>> >>),
                           R, {other, Stateless!Sig(key, R)})
  BY <1>1 DEF Stateless!RefundOf
<1> DEFINE b == other = Stateless!Sig(ckey, R)
<1>5. b = TRUE
  BY <1>2
<1>6. Stateless!FirstFailed(S \o << <<b, e>> >>) = "ok"
  <2>1. e \in Errors
    BY DEF Errors
  <2> HIDE DEF e, S, b
  <2>2. Stateless!FirstFailed(S \o << <<TRUE, e>> >>) = "ok"
    BY <1>3, <2>1, PassesWith
  <2> QED BY <1>5, <2>2
<1>7. {ckey, key} = R.fund.keys
  BY <1>1 DEF KeyOf, Stateless!CounterpartyKey, Stateless!Refund, Stateless!Fund
<1>8. {other, Stateless!Sig(key, R)} = {Stateless!Sig(x, R) : x \in R.fund.keys}
  <2> HIDE DEF R, ckey, other
  <2>1. {other, Stateless!Sig(key, R)} = {Stateless!Sig(x, R) : x \in {ckey, key}}
    BY <1>2
  <2> QED BY <1>7, <2>1
<1> DEFINE v == Stateless!FirstFailed(S \o << <<b, e>> >>)
<1>9. Stateless!RefundOf(o, a, s, key) = Stateless!Settled(v, R, {other, Stateless!Sig(key, R)})
  BY <1>4
<1>10. v = "ok"
  BY <1>6
<1> HIDE DEF S, R, other, ckey, e, b, v
<1> QED BY <1>8, <1>9, <1>10 DEF Stateless!Settled, Stateless!Spends

-----------------------------------------------------------------------------
(***************************************************************************)
(* The signature of an outcome and a combination of a leg.                 *)
(***************************************************************************)
\* Legs of validated terms.
LegsOK(o) ==
    /\ Len(o.legs) \in Nat /\ DOMAIN o.legs = 1..Len(o.legs)
    /\ \A k \in 1..Len(o.legs) :
          /\ Quorate(o.legs[k])
          /\ Len(o.legs[k].outcomes) \in Nat /\ DOMAIN o.legs[k].outcomes = 1..Len(o.legs[k].outcomes)
\* The signatures of a leg, a row for each outcome and combination.
QuorumsOf(leg) == Combinations(leg.oracles, leg.threshold)
RowsOf(leg) == Len(leg.outcomes) * Len(QuorumsOf(leg))
LegSig(key, o, a, k, x, Q) ==
    [key |-> key, over |-> Stateless!Cet(o, a, k, x), event |-> o.legs[k].event,
     outcome |-> o.legs[k].outcomes[x].outcome, oracles |-> Q]
RowSig(key, o, a, k, i) ==
    LegSig(key, o, a, k, (i - 1) \div Len(QuorumsOf(o.legs[k])) + 1,
           ToSet(QuorumsOf(o.legs[k])[((i - 1) % Len(QuorumsOf(o.legs[k]))) + 1]))

\* A leg has quorums, hence a number of rows.
LEMMA QuorumsOfAre ==
    ASSUME NEW leg, Quorate(leg), Len(leg.outcomes) \in Nat
    PROVE  /\ Len(QuorumsOf(leg)) \in Nat \ {0}
           /\ RowsOf(leg) \in Nat
<1> DEFINE n == leg.oracles
           t == leg.threshold
           m == Len(QuorumsOf(leg))
           r == Len(leg.outcomes)
<1>1. n \in Nat /\ t \in 1..n
  BY DEF Quorate
<1>2. m = Len(Combinations(n, t))
  BY DEF QuorumsOf
<1>3. r \in Nat /\ RowsOf(leg) = r * m
  BY DEF RowsOf
<1> HIDE DEF n, t, m, r
<1>4. Len(Combinations(n, t)) \in Nat /\ Len(Combinations(n, t)) > 0
  BY <1>1, CombinationsAre
<1>5. m \in Nat \ {0}
  BY <1>2, <1>4
<1>6. r * m \in Nat
  BY <1>3, <1>5
<1> QED BY <1>3, <1>5, <1>6 DEF m

\* The adaptor signatures of a leg, by row.
LEMMA LegSignaturesAre ==
    ASSUME NEW key, NEW o, NEW a, NEW k
    PROVE  Stateless!LegSignatures(key, o, a, k) = [i \in 1..RowsOf(o.legs[k]) |-> RowSig(key, o, a, k, i)]
  BY StatelessCombinations, StatelessSequences
  DEF Stateless!LegSignatures, RowsOf, RowSig, LegSig, QuorumsOf

\* The signatures of a leg start after those of the legs before it.
LEMMA AdaptorAt ==
    ASSUME NEW key, NEW o, NEW a, LegsOK(o), NEW k \in 1..Len(o.legs), NEW i \in 1..RowsOf(o.legs[k])
    PROVE  /\ Stateless!AdaptorSigStart(o, k) \in Nat
           /\ Stateless!AdaptorSignatures(key, o, a)[Stateless!AdaptorSigStart(o, k) + i] = RowSig(key, o, a, k, i)
<1> DEFINE n == Len(o.legs)
           R(l) == RowsOf(o.legs[l])
           G(l, j) == RowSig(key, o, a, l, j)
           E == UNION {{G(l, j) : j \in 1..R(l)} : l \in 1..n}
           parts == [l \in 1..n |-> [j \in 1..R(l) |-> G(l, j)]]
           shape == [l \in 1..(k - 1) |-> [j \in 1..R(l) |-> j]]
<1>1. n \in Nat /\ DOMAIN o.legs = 1..n /\ \A l \in 1..n : R(l) \in Nat
  BY QuorumsOfAre DEF LegsOK
<1>2. Stateless!AdaptorSignatures(key, o, a) = FlattenSeq(parts)
  BY <1>1, LegSignaturesAre, StatelessSequences DEF Stateless!AdaptorSignatures
<1>3. Stateless!AdaptorSigStart(o, k) = Len(FlattenSeq(shape))
  BY StatelessCombinations, StatelessSequences DEF Stateless!AdaptorSigStart, RowsOf, QuorumsOf
<1>4. \A l \in 1..n : \A j \in 1..R(l) : G(l, j) \in E
  OBVIOUS
<1>5. k \in 1..n /\ i \in 1..R(k) /\ \A l \in 1..(k - 1) : l \in 1..n
  BY <1>1
<1> HIDE DEF E, n, R, G
<1>6. \A l \in 1..n : /\ [j \in 1..R(l) |-> G(l, j)] \in Seq(E) /\ Len([j \in 1..R(l) |-> G(l, j)]) = R(l)
                      /\ [j \in 1..R(l) |-> j] \in Seq(Nat) /\ Len([j \in 1..R(l) |-> j]) = R(l)
  <2> SUFFICES ASSUME NEW l \in 1..n
               PROVE  /\ [j \in 1..R(l) |-> G(l, j)] \in Seq(E) /\ Len([j \in 1..R(l) |-> G(l, j)]) = R(l)
                      /\ [j \in 1..R(l) |-> j] \in Seq(Nat) /\ Len([j \in 1..R(l) |-> j]) = R(l)
    OBVIOUS
  <2> DEFINE m == R(l)
             H(j) == G(l, j)
  <2>1. m \in Nat /\ \A j \in 1..m : H(j) \in E
    BY <1>1, <1>4
  <2> HIDE DEF m, H
  <2>2. [j \in 1..m |-> H(j)] \in Seq(E) /\ Len([j \in 1..m |-> H(j)]) = m
    BY <2>1
  <2>3. [j \in 1..m |-> j] \in Seq(Nat) /\ Len([j \in 1..m |-> j]) = m
    BY <2>1
  <2> QED BY <2>2, <2>3 DEF m, H
<1>7. parts \in [1..n -> Seq(E)] /\ Len(parts[k]) = R(k) /\ parts[k][i] = G(k, i)
  BY <1>5, <1>6
<1>8. shape \in [1..(k - 1) -> Seq(Nat)] /\ \A l \in 1..(k - 1) : Len(shape[l]) = Len(parts[l])
  BY <1>5, <1>6
<1> HIDE DEF parts, shape
<1>9. PartsOf(parts, n, E) /\ PartsOf(shape, k - 1, Nat) /\ SameLengths(shape, parts, k - 1)
  BY <1>7, <1>8 DEF PartsOf, SameLengths
<1>10. Placed(parts, shape, k, E)
  BY <1>1, <1>5, <1>9, FlattenPlaces
<1>11. i \in 1..Len(parts[k])
  BY <1>5, <1>7
<1>12. FlattenSeq(parts)[Len(FlattenSeq(shape)) + i] = G(k, i) /\ Len(FlattenSeq(shape)) \in Nat
  BY <1>7, <1>10, <1>11 DEF Placed
<1> QED BY <1>2, <1>3, <1>12 DEF G

\* The signature of outcome x and combination s of leg k is at the computed index.
AdaptorIs(key, o, a, k, x, s) ==
    /\ IndexForCombination(o.legs[k].oracles, o.legs[k].threshold, s) # 0
    /\ Stateless!AdaptorSignatures(key, o, a)[Stateless!AdaptorSigStart(o, k)
           + Len(QuorumsOf(o.legs[k])) * (x - 1)
           + IndexForCombination(o.legs[k].oracles, o.legs[k].threshold, s)]
         = LegSig(key, o, a, k, x, ToSet(s))

\* The index that sign_cet computes is that of its outcome and combination.
LEMMA AdaptorFor ==
    ASSUME NEW key, NEW o, NEW a, LegsOK(o), NEW k \in 1..Len(o.legs),
           NEW x \in 1..Len(o.legs[k].outcomes), NEW s \in Selectors(o.legs[k].oracles, o.legs[k].threshold)
    PROVE  AdaptorIs(key, o, a, k, x, s)
<1> DEFINE leg == o.legs[k]
           n == leg.oracles
           t == leg.threshold
           all == QuorumsOf(leg)
           m == Len(all)
           rows == Len(leg.outcomes)
           j == IndexForCombination(n, t, s)
           start == Stateless!AdaptorSigStart(o, k)
<1>1. n \in Nat /\ t \in 1..n /\ rows \in Nat /\ m \in Nat \ {0} /\ x \in 1..rows /\ all = Combinations(n, t)
      /\ RowsOf(leg) = rows * m /\ s \in Selectors(n, t)
  BY QuorumsOfAre DEF LegsOK, Quorate, QuorumsOf, RowsOf
<1> HIDE DEF n, t, all, rows, leg, j, start
<1>2. j \in 1..Len(Combinations(n, t)) /\ Combinations(n, t)[j] = s
  BY <1>1, CombinationIsFound DEF j
<1>3. j \in 1..m /\ all[j] = s
  BY <1>1, <1>2
<1>4. PICK i \in 1..(rows * m) : i = m * (x - 1) + j /\ (i - 1) \div m + 1 = x /\ ((i - 1) % m) + 1 = j
  <2> HIDE DEF m
  <2>1. HasCell(rows, m, x, j)
    BY <1>1, <1>3, InTable
  <2> QED BY <2>1 DEF HasCell
<1>5. start \in Nat /\ Stateless!AdaptorSignatures(key, o, a)[start + i] = RowSig(key, o, a, k, i)
  BY <1>1, AdaptorAt DEF leg, start
<1>6. RowSig(key, o, a, k, i) = LegSig(key, o, a, k, (i - 1) \div m + 1, ToSet(all[((i - 1) % m) + 1]))
  BY DEF RowSig, m, all, leg
<1>7. RowSig(key, o, a, k, i) = LegSig(key, o, a, k, x, ToSet(s))
  BY <1>3, <1>4, <1>6
<1>8. start + i = start + m * (x - 1) + j
  <2> DEFINE z == m * (x - 1)
  <2>1. z \in Nat
    <3>1. x - 1 \in Nat
      BY <1>1
    <3> HIDE DEF m
    <3> QED BY <1>1, <3>1
  <2>2. i = z + j
    BY <1>4
  <2> HIDE DEF z
  <2>3. start + i = start + z + j
    BY <1>3, <1>5, <2>1, <2>2
  <2> QED BY <2>3 DEF z
<1>9. Stateless!AdaptorSignatures(key, o, a)[start + m * (x - 1) + j] = LegSig(key, o, a, k, x, ToSet(s))
  BY <1>5, <1>7, <1>8
<1>10. j # 0
  BY <1>3
<1> QED BY <1>9, <1>10 DEF start, m, all, j, n, t, leg, AdaptorIs

-----------------------------------------------------------------------------
(***************************************************************************)
(* Attestations of one outcome by the oracles of a combination.            *)
(***************************************************************************)
\* The attestations of one outcome by the oracles of s.
Got(leg, s, outcome) ==
    [i \in DOMAIN s |-> [index |-> s[i], event |-> leg.event, oracle |-> s[i], outcome |-> outcome]]

\* A set of oracles in order is a selector.
LEMMA InOrderSelects ==
    ASSUME NEW n \in Nat, NEW t \in 1..n, NEW Q \in kSubset(t, 0..(n - 1)), NEW s \in Stateless!InOrder(Q)
    PROVE  s \in Selectors(n, t)
<1>1. Q \subseteq 0..(n - 1) /\ Cardinality(Q) = t
  BY DEF kSubset
<1>2. s \in SetToSeqs(Q) /\ \A i, j \in DOMAIN s : i < j => s[i] < s[j]
  BY StatelessSequences DEF Stateless!InOrder
<1>3. s \in [1..t -> Q]
  BY <1>1, <1>2 DEF SetToSeqs
<1>4. s \in [1..t -> 0..(n - 1)]
  BY <1>1, <1>3
<1> QED BY <1>2, <1>4 DEF Selectors

\* The i-th of the first t numbers is i.
LEMMA NthIs ==
    ASSUME NEW t \in Nat, NEW i \in 1..t
    PROVE  Stateless!Nth(1..t, i) = i
<1>1. ASSUME NEW x \in 1..t PROVE Stateless!Cardinality({y \in 1..t : y < x}) = x - 1
  <2>1. {y \in 1..t : y < x} = 1..(x - 1)
    <3>1. ASSUME NEW y \in 1..t, y < x PROVE y \in 1..(x - 1)
      BY <3>1
    <3>2. ASSUME NEW y \in 1..(x - 1) PROVE y \in 1..t /\ y < x
      BY <3>2
    <3> QED BY <3>1, <3>2
  <2>2. x - 1 \in Nat
    OBVIOUS
  <2>3. Cardinality(1..(x - 1)) = x - 1
    <3>1. Cardinality(1..(x - 1)) = IF 1 <= x - 1 THEN (x - 1) - 1 + 1 ELSE 0
      BY FS_Interval
    <3> QED BY <2>2, <3>1
  <2> QED BY <2>1, <2>3, StatelessCardinality
<1>2. i \in 1..t /\ Stateless!Cardinality({y \in 1..t : y < i}) = i - 1
  BY <1>1
<1>3. \A x \in 1..t : Stateless!Cardinality({y \in 1..t : y < x}) = i - 1 => x = i
  BY <1>1
<1> QED BY <1>2, <1>3 DEF Stateless!Nth

\* What the attestations of a combination amount to.
LEMMA GotIs ==
    ASSUME NEW leg, NEW t \in Nat \ {0}, leg.threshold = t, NEW s, DOMAIN s = 1..t,
           s = [i \in 1..t |-> s[i]], NEW outcome, NEW got, got = Got(leg, s, outcome)
    PROVE  /\ DOMAIN got = 1..t /\ got # <<>>
           /\ Stateless!Count(got, outcome) = t
           /\ Stateless!Majorities(got) = {outcome}
           /\ Stateless!Combination(leg, got, outcome) = s
<1>1. /\ DOMAIN got = 1..t
      /\ \A i \in 1..t : got[i].index = s[i] /\ got[i].outcome = outcome
  BY DEF Got
<1>2. 1 \in 1..t
  OBVIOUS
<1>3. got # <<>>
  BY <1>1, <1>2
<1>4. {i \in DOMAIN got : got[i].outcome = outcome} = 1..t
  BY <1>1
<1>5. Stateless!Count(got, outcome) = t
  <2>1. Cardinality(1..t) = t
    BY FS_Interval
  <2> QED BY <1>4, <2>1, StatelessCardinality DEF Stateless!Count
<1>6. Stateless!Majorities(got) = {outcome}
  <2> DEFINE J == {j \in DOMAIN got : \A l \in DOMAIN got :
                       Stateless!Count(got, got[l].outcome) <= Stateless!Count(got, got[j].outcome)}
  <2>1. Stateless!Majorities(got) = {got[i].outcome : i \in J}
    BY DEF Stateless!Majorities
  <2>2. J = 1..t
    BY <1>1, <1>5
  <2> HIDE DEF J
  <2>3. {got[i].outcome : i \in 1..t} = {outcome}
    <3>1. \A i \in 1..t : got[i].outcome = outcome
      BY ONLY <1>1
    <3> QED BY ONLY <1>2, <3>1
  <2> QED BY ONLY <2>1, <2>2, <2>3
<1>7. Stateless!Combination(leg, got, outcome) = s
  <2>1. Stateless!Combination(leg, got, outcome) = [i \in 1..t |-> got[Stateless!Nth(1..t, i)].index]
    BY <1>4 DEF Stateless!Combination
  <2>2. \A i \in 1..t : got[Stateless!Nth(1..t, i)].index = s[i]
    BY <1>1, NthIs
  <2> QED BY <2>1, <2>2
<1> QED BY <1>1, <1>3, <1>5, <1>6, <1>7

\* A selector has its length in distinct oracles.
LEMMA SelectorIs ==
    ASSUME NEW n \in Nat, NEW t \in 1..n, NEW s \in Selectors(n, t)
    PROVE  /\ DOMAIN s = 1..t /\ s = [i \in 1..t |-> s[i]]
           /\ ToSet(s) = {s[i] : i \in 1..t} /\ Cardinality(ToSet(s)) = t
           /\ \A i \in 1..t : s[i] \in 0..(n - 1)
<1>1. s \in [1..t -> 0..(n - 1)]
  BY DEF Selectors
<1>2. DOMAIN s = 1..t /\ ToSet(s) = {s[i] : i \in 1..t}
  BY <1>1 DEF ToSet
<1>3. Cardinality({s[i] : i \in 1..t}) = t
  <2>1. {s[i] : i \in 1..t} \in kSubset(t, 0..(n - 1))
    <3>1. t \in Nat
      OBVIOUS
    <3> QED BY <3>1, SelectorSize
  <2> QED BY <2>1 DEF kSubset
<1> QED BY <1>1, <1>2, <1>3

\* The attestations decrypt the signature that was made for them.
LEMMA DecryptedIs ==
    ASSUME NEW n \in Nat, NEW t \in 1..n, NEW s \in Selectors(n, t), NEW leg, NEW outcome, NEW got,
           got = Got(leg, s, outcome), NEW adaptor, adaptor.event = leg.event,
           adaptor.outcome = outcome, adaptor.oracles = ToSet(s)
    PROVE  Stateless!Decrypted(adaptor, got, Stateless!ToSet(s)) = Stateless!Sig(adaptor.key, adaptor.over)
<1> DEFINE used == {i \in DOMAIN got : got[i].index \in Stateless!ToSet(s)}
<1>1. /\ DOMAIN s = 1..t /\ ToSet(s) = {s[i] : i \in 1..t} /\ Cardinality(ToSet(s)) = t
  BY SelectorIs
<1>2. /\ DOMAIN got = 1..t
      /\ \A i \in 1..t : got[i].index = s[i] /\ got[i].oracle = s[i] /\ got[i].event = leg.event /\ got[i].outcome = outcome
  BY <1>1 DEF Got
<1>3. used = 1..t
  BY <1>1, <1>2, StatelessSequences
<1>4. Cardinality(1..t) = t
  BY FS_Interval
<1>5. Stateless!Cardinality(used) = Stateless!Cardinality(adaptor.oracles)
  BY <1>1, <1>3, <1>4, StatelessCardinality
<1> HIDE DEF used
<1>6. {<<got[i].event, got[i].oracle, got[i].outcome>> : i \in used}
         = {<<adaptor.event, y, adaptor.outcome>> : y \in adaptor.oracles}
  <2>1. {<<got[i].event, got[i].oracle, got[i].outcome>> : i \in used}
           = {<<leg.event, s[i], outcome>> : i \in 1..t}
    BY <1>2, <1>3
  <2>2. {<<adaptor.event, y, adaptor.outcome>> : y \in adaptor.oracles}
           = {<<leg.event, s[i], outcome>> : i \in 1..t}
    BY <1>1
  <2> QED BY <2>1, <2>2
<1>7. Stateless!Decrypted(adaptor, got, Stateless!ToSet(s)) =
         IF /\ Stateless!Cardinality(used) = Stateless!Cardinality(adaptor.oracles)
            /\ {<<got[i].event, got[i].oracle, got[i].outcome>> : i \in used}
                 = {<<adaptor.event, y, adaptor.outcome>> : y \in adaptor.oracles}
         THEN Stateless!Sig(adaptor.key, adaptor.over) ELSE Stateless!Sig(None, None)
  BY DEF Stateless!Decrypted, used
<1> QED BY <1>5, <1>6, <1>7

\* The oracles of a combination attest an outcome of a leg.
Attested(o, k, x, s, outcome, got) ==
    /\ LegsOK(o)
    /\ k \in 1..Len(o.legs) /\ x \in 1..Len(o.legs[k].outcomes)
    /\ s \in Selectors(o.legs[k].oracles, o.legs[k].threshold)
    /\ outcome = o.legs[k].outcomes[x].outcome /\ got = Got(o.legs[k], s, outcome)

\* The outcome that all attest, on the first leg that has it.
LEMMA LegIsFound ==
    ASSUME NEW o, NEW k, NEW x, NEW s, NEW outcome, NEW got, Attested(o, k, x, s, outcome, got),
           \A l \in 1..(k - 1) : ~Stateless!Resolves(o.legs[l], got, outcome)
    PROVE  /\ Stateless!ValidAttestations(o.legs[k], got)
           /\ k \in {l \in DOMAIN o.legs : Stateless!Resolves(o.legs[l], got, outcome)}
           /\ Stateless!Min({l \in DOMAIN o.legs : Stateless!Resolves(o.legs[l], got, outcome)}) = k
<1> DEFINE leg == o.legs[k]
           n == leg.oracles
           t == leg.threshold
           R == {l \in DOMAIN o.legs : Stateless!Resolves(o.legs[l], got, outcome)}
<1>1. n \in Nat /\ t \in 1..n /\ t \in Nat \ {0} /\ leg.threshold = t /\ leg.oracles = n
      /\ DOMAIN leg.outcomes = 1..Len(leg.outcomes) /\ DOMAIN o.legs = 1..Len(o.legs) /\ Len(o.legs) \in Nat
  BY DEF Attested, LegsOK, Quorate
<1>2. got = Got(leg, s, outcome) /\ s \in Selectors(n, t) /\ x \in DOMAIN leg.outcomes /\ leg.outcomes[x].outcome = outcome
      /\ k \in 1..Len(o.legs)
  BY <1>1 DEF Attested
<1> HIDE DEF leg, n, t
<1>3. /\ DOMAIN s = 1..t /\ s = [i \in 1..t |-> s[i]]
      /\ \A i \in 1..t : s[i] \in 0..(n - 1)
  BY <1>1, <1>2, SelectorIs
<1>4. Stateless!Count(got, outcome) = t /\ Stateless!Combination(leg, got, outcome) = s
  BY <1>1, <1>2, <1>3, GotIs
<1>5. Stateless!ValidAttestations(leg, got)
  <2>1. /\ DOMAIN got = 1..t
        /\ \A i \in 1..t : got[i].index = s[i] /\ got[i].oracle = s[i] /\ got[i].event = leg.event
    BY <1>2, <1>3 DEF Got
  <2>2. \A i \in 1..t : s[i] < n
    BY <1>1, <1>3
  <2> QED BY <1>1, <2>1, <2>2 DEF Stateless!ValidAttestations
<1>6. Stateless!Resolves(leg, got, outcome)
  BY <1>1, <1>2, <1>4 DEF Stateless!Resolves
<1>7. k \in R
  BY <1>1, <1>2, <1>6 DEF leg
<1>8. \A l \in R : k <= l
  <2> SUFFICES ASSUME NEW l \in R, ~(k <= l) PROVE FALSE
    OBVIOUS
  <2>1. l \in 1..(k - 1)
    BY <1>1, <1>2
  <2> QED BY <2>1
<1>9. \A l \in R : l \in Nat
  BY <1>1
<1> HIDE DEF R
<1>10. Stateless!Min(R) \in R /\ \A l \in R : Stateless!Min(R) <= l
  BY <1>7, <1>8 DEF Stateless!Min
<1>11. Stateless!Min(R) = k
  <2> DEFINE m == Stateless!Min(R)
  <2>1. m \in Nat /\ k \in Nat /\ m <= k /\ k <= m
    BY <1>7, <1>8, <1>9, <1>10
  <2> HIDE DEF m
  <2>2. m = k
    BY <2>1
  <2> QED BY <2>2 DEF m
<1> QED BY <1>5, <1>7, <1>11 DEF leg, R

\* The CET of the outcome, with the signatures of both.
LEMMA CetOfIs ==
    ASSUME NEW o, NEW a, NEW s, NEW p, NEW key, Messages(o, a, s, p, key),
           NEW k, NEW x, NEW sel, NEW outcome, NEW got, Attested(o, k, x, sel, outcome, got)
    PROVE  Stateless!CetOf(o, a, s, key, k, got, outcome)
             = Stateless!Settled("ok", Stateless!Cet(o, a, k, x),
                   {Stateless!Sig(key, Stateless!Cet(o, a, k, x)),
                    Stateless!Sig(Stateless!CounterpartyKey(o, a, p), Stateless!Cet(o, a, k, x))})
<1> DEFINE leg == o.legs[k]
           n == leg.oracles
           t == leg.threshold
           ckey == Stateless!CounterpartyKey(o, a, p)
           cet == Stateless!Cet(o, a, k, x)
           adaptors == Stateless!CounterpartySigs(a, s, p).cet_sigs
           m == Len(Combinations(n, t))
           j == IndexForCombination(n, t, sel)
           start == Stateless!AdaptorSigStart(o, k)
<1>1. n \in Nat /\ t \in 1..n /\ t \in Nat \ {0} /\ DOMAIN leg.outcomes = 1..Len(leg.outcomes)
      /\ DOMAIN o.legs = 1..Len(o.legs)
      /\ LegsOK(o) /\ k \in 1..Len(o.legs) /\ x \in 1..Len(o.legs[k].outcomes)
      /\ outcome = leg.outcomes[x].outcome /\ got = Got(leg, sel, outcome)
      /\ sel \in Selectors(o.legs[k].oracles, o.legs[k].threshold)
  BY DEF Attested, LegsOK, Quorate
<1>2. Stateless!SettlingParty(o, key) = p /\ p \in {"offer", "accept"}
  BY DEF Messages
<1>3. adaptors = Stateless!AdaptorSignatures(ckey, o, a)
  BY <1>2 DEF Messages, Accepted, SignedBy, Stateless!CounterpartySigs, Stateless!CounterpartyKey
<1>4. (CHOOSE i \in DOMAIN leg.outcomes : leg.outcomes[i].outcome = outcome) = x
  <2>1. Stateless!ValidLegs(o.legs)
    BY ContextIs DEF Messages, Accepted, Context
  <2>2. \A i \in DOMAIN leg.outcomes : leg.outcomes[i].outcome = outcome => i = x
    BY <1>1, <2>1 DEF Stateless!ValidLegs
  <2>3. x \in DOMAIN leg.outcomes /\ leg.outcomes[x].outcome = outcome
    BY <1>1
  <2> HIDE DEF leg
  <2> QED BY <2>2, <2>3
<1>5. sel \in Selectors(n, t) /\ leg.threshold = t
  BY <1>1
<1>6. Stateless!Combination(leg, got, outcome) = sel
  <2>1. got = Got(leg, sel, outcome)
    BY <1>1
  <2> HIDE DEF leg, n, t
  <2>2. DOMAIN sel = 1..t /\ sel = [i \in 1..t |-> sel[i]]
    BY <1>1, <1>5, SelectorIs
  <2>3. t \in Nat \ {0} /\ leg.threshold = t
    BY <1>1, <1>5
  <2> QED BY ONLY <2>1, <2>2, <2>3, GotIs
<1>7. j # 0 /\ Stateless!AdaptorSignatures(ckey, o, a)[start + m * (x - 1) + j] = LegSig(ckey, o, a, k, x, ToSet(sel))
  <2> HIDE DEF ckey
  <2>1. /\ LegsOK(o) /\ k \in 1..Len(o.legs) /\ x \in 1..Len(o.legs[k].outcomes)
        /\ sel \in Selectors(o.legs[k].oracles, o.legs[k].threshold)
    BY <1>1
  <2>2. AdaptorIs(ckey, o, a, k, x, sel)
    BY ONLY <2>1, AdaptorFor, Zenon
  <2> QED BY ONLY <2>2 DEF AdaptorIs, QuorumsOf
<1>8. Stateless!CetOf(o, a, s, key, k, got, outcome)
        = Stateless!Settled("ok", cet,
              {Stateless!Sig(key, cet),
               Stateless!Decrypted(adaptors[start + m * (x - 1) + (IF j = 0 THEN 1 ELSE j)], got, Stateless!ToSet(sel))})
  BY <1>2, <1>4, <1>6, StatelessCombinations DEF Stateless!CetOf
<1> DEFINE adaptor == LegSig(ckey, o, a, k, x, ToSet(sel))
<1>9. adaptors[start + m * (x - 1) + (IF j = 0 THEN 1 ELSE j)] = adaptor
  BY <1>3, <1>7
<1>10. /\ adaptor.event = leg.event /\ adaptor.outcome = outcome /\ adaptor.oracles = ToSet(sel)
       /\ adaptor.key = ckey /\ adaptor.over = cet
  BY <1>1 DEF LegSig
<1>11. Stateless!Decrypted(adaptor, got, Stateless!ToSet(sel)) = Stateless!Sig(ckey, cet)
  <2>1. got = Got(leg, sel, outcome)
    BY <1>1
  <2> HIDE DEF adaptor, leg, n, t, ckey, cet
  <2>2. Stateless!Decrypted(adaptor, got, Stateless!ToSet(sel)) = Stateless!Sig(adaptor.key, adaptor.over)
    BY <1>1, <1>5, <1>10, <2>1, DecryptedIs
  <2> QED BY <1>10, <2>2
<1> HIDE DEF adaptors, start, m, j, adaptor
<1> QED BY <1>8, <1>9, <1>11

\* sign_cet returns a CET that spends the funding output and pays what was attested.
LEMMA CetIsReady ==
    ASSUME NEW o, NEW a, NEW s, NEW p, NEW key, Messages(o, a, s, p, key),
           NEW k, NEW x, NEW sel, NEW outcome, NEW got, Attested(o, k, x, sel, outcome, got),
           \A l \in 1..(k - 1) : ~Stateless!Resolves(o.legs[l], got, outcome)
    PROVE  \A cet \in Stateless!CetsOf(o, a, s, key, got) :
               /\ cet.error = "ok" /\ Stateless!Spends(cet.tx, cet.sigs)
               /\ cet.tx.payout = o.legs[k].outcomes[x].payout
<1> DEFINE S == Stateless!SettlingChecks(o, a, s, key)
           b == Stateless!CounterpartySigs(a, s, p).cet_sigs
                  = Stateless!AdaptorSignatures(Stateless!CounterpartyKey(o, a, p), o, a)
           e == IF p = "offer" THEN "InvalidAccept" ELSE "InvalidSign"
           v == Stateless!FirstFailed(S \o << <<b, e>> >>)
           R(m) == {l \in DOMAIN o.legs : Stateless!Resolves(o.legs[l], got, m[l])}
           settles(m) ==
              IF R(m) = {} THEN Stateless!Settled("NoMatchingOutcome", None, {})
              ELSE IF ~Stateless!ValidAttestations(o.legs[Stateless!Min(R(m))], got)
                   THEN Stateless!Settled("InvalidAttestation", None, {})
              ELSE Stateless!CetOf(o, a, s, key, Stateless!Min(R(m)), got, m[Stateless!Min(R(m))])
           tx == Stateless!Cet(o, a, k, x)
           ckey == Stateless!CounterpartyKey(o, a, p)
<1>1. Stateless!SettlingParty(o, key) = p /\ p \in {"offer", "accept"} /\ key = KeyOf(o, a, p)
  BY DEF Messages
<1>2. b = TRUE
  BY <1>1 DEF Messages, Accepted, SignedBy, Stateless!CounterpartySigs, Stateless!CounterpartyKey
<1>3. v = "ok"
  <2>1. S \in Seq(Check) /\ AllPass(S)
    BY SettlingPasses
  <2>2. e \in Errors
    BY DEF Errors
  <2> HIDE DEF S, e, b
  <2>3. Stateless!FirstFailed(S \o << <<TRUE, e>> >>) = "ok"
    BY <2>1, <2>2, PassesWith
  <2> QED BY <1>2, <2>3
<1>4. Stateless!CetsOf(o, a, s, key, got) =
         IF v # "ok" THEN {Stateless!Settled(v, None, {})}
         ELSE IF got = <<>> THEN {Stateless!Settled("NoMatchingOutcome", None, {})}
         ELSE {settles(m) : m \in [DOMAIN o.legs -> Stateless!Majorities(got)]}
  BY <1>1 DEF Stateless!CetsOf
<1>5. got # <<>> /\ Stateless!Majorities(got) = {outcome} /\ Stateless!Combination(o.legs[k], got, outcome) = sel
  <2> DEFINE leg == o.legs[k]
             n == leg.oracles
             t == leg.threshold
  <2>1. n \in Nat /\ t \in 1..n /\ t \in Nat \ {0} /\ leg.threshold = t /\ sel \in Selectors(n, t)
        /\ got = Got(leg, sel, outcome)
    BY DEF Attested, LegsOK, Quorate
  <2> HIDE DEF leg, n, t
  <2>2. DOMAIN sel = 1..t /\ sel = [i \in 1..t |-> sel[i]]
    BY <2>1, SelectorIs
  <2>3. got # <<>> /\ Stateless!Majorities(got) = {outcome} /\ Stateless!Combination(leg, got, outcome) = sel
    BY <2>1, <2>2, GotIs
  <2> QED BY <2>3 DEF leg
<1>6. ASSUME NEW m \in [DOMAIN o.legs -> {outcome}]
      PROVE  settles(m) = Stateless!CetOf(o, a, s, key, k, got, outcome)
  <2> DEFINE Q == {l \in DOMAIN o.legs : Stateless!Resolves(o.legs[l], got, outcome)}
  <2>1. R(m) = Q
    OBVIOUS
  <2>2. k \in Q /\ Stateless!Min(Q) = k /\ Stateless!ValidAttestations(o.legs[k], got)
    BY LegIsFound
  <2>3. m[k] = outcome
    <3>1. k \in DOMAIN o.legs
      BY DEF Attested, LegsOK
    <3> QED BY <3>1
  <2> HIDE DEF R, Q
  <2> QED BY <2>1, <2>2, <2>3
<1>7. Stateless!CetOf(o, a, s, key, k, got, outcome)
         = Stateless!Settled("ok", tx, {Stateless!Sig(key, tx), Stateless!Sig(ckey, tx)})
  BY CetOfIs
<1>8. Stateless!Spends(tx, {Stateless!Sig(key, tx), Stateless!Sig(ckey, tx)})
  <2>1. tx.fund.keys = {key, ckey}
    BY <1>1 DEF KeyOf, Stateless!CounterpartyKey, Stateless!Cet, Stateless!Fund
  <2> HIDE DEF tx, ckey
  <2>2. {Stateless!Sig(key, tx), Stateless!Sig(ckey, tx)} = {Stateless!Sig(y, tx) : y \in {key, ckey}}
    OBVIOUS
  <2> QED BY <2>1, <2>2 DEF Stateless!Spends
<1>9. tx.payout = o.legs[k].outcomes[x].payout
  BY DEF Stateless!Cet
<1> HIDE DEF v, settles, tx, ckey
<1>10. \A cet \in Stateless!CetsOf(o, a, s, key, got) :
          cet = Stateless!Settled("ok", tx, {Stateless!Sig(key, tx), Stateless!Sig(ckey, tx)})
  BY <1>3, <1>4, <1>5, <1>6, <1>7
<1> DEFINE sigs == {Stateless!Sig(key, tx), Stateless!Sig(ckey, tx)}
           c == Stateless!Settled("ok", tx, sigs)
<1>11. c.error = "ok" /\ c.tx = tx /\ c.sigs = sigs
  BY DEF Stateless!Settled
<1>12. \A cet \in Stateless!CetsOf(o, a, s, key, got) : cet = c
  BY <1>10
<1>13. Stateless!Spends(tx, sigs)
  BY <1>8
<1> HIDE DEF c, sigs
<1> QED BY <1>9, <1>11, <1>12, <1>13

\* What two users agreed on.
LEMMA SetupIs ==
    ASSUME NEW s \in Setups
    PROVE  /\ LegsOK(s.terms) /\ s.terms.key = FundingKey["offer"]
           /\ Len(s.terms.inputs) \in Nat /\ DOMAIN s.terms.inputs = 1..Len(s.terms.inputs)
           /\ Len(s.accept_inputs) \in Nat /\ DOMAIN s.accept_inputs = 1..Len(s.accept_inputs)
<1>1. ValidSetup(s)
  BY ExchangeAssumption
<1>2. s.terms.legs \in Seq(AnnouncedLeg)
  BY <1>1 DEF ValidSetup, OfferOf
<1>3. Len(s.terms.legs) \in Nat /\ DOMAIN s.terms.legs = 1..Len(s.terms.legs)
  BY <1>2
<1>4. ASSUME NEW k \in 1..Len(s.terms.legs)
      PROVE  /\ Len(s.terms.legs[k].outcomes) \in Nat
             /\ DOMAIN s.terms.legs[k].outcomes = 1..Len(s.terms.legs[k].outcomes)
  <2>1. s.terms.legs[k] \in AnnouncedLeg
    BY <1>2
  <2>2. s.terms.legs[k].outcomes \in Seq([outcome : STRING, payout : Nat])
    BY <2>1 DEF AnnouncedLeg
  <2> DEFINE E == [outcome : STRING, payout : Nat]
             f == s.terms.legs[k].outcomes
  <2> HIDE DEF E, f
  <2>3. f \in Seq(E)
    BY <2>2 DEF E, f
  <2>4. Len(f) \in Nat /\ DOMAIN f = 1..Len(f)
    BY <2>3
  <2> QED BY <2>4 DEF f
<1>5. \A k \in 1..Len(s.terms.legs) : Quorate(s.terms.legs[k])
  BY <1>1, <1>3 DEF ValidSetup
<1>6. LegsOK(s.terms)
  BY <1>3, <1>4, <1>5 DEF LegsOK
<1>7. s.terms.inputs \in Seq(ToSet(s.terms.inputs)) /\ s.accept_inputs \in Seq(ToSet(s.accept_inputs))
  BY <1>1 DEF ValidSetup, ValidInputs
<1>8. s.terms.key = FundingKey["offer"]
  BY <1>1 DEF ValidSetup
<1> QED BY <1>6, <1>7, <1>8

\* An offer that was changed on its way has the legs and another key at most.
LEMMA WrongOfferIs ==
    ASSUME NEW s \in Setups, NEW o \in {s.terms} \cup Stateless!WrongOffers(s.terms)
    PROVE  LegsOK(o) /\ o.key # FundingKey["accept"]
<1> DEFINE t == s.terms
<1>1. LegsOK(t) /\ t.key = FundingKey["offer"]
  BY SetupIs
<1>2. DOMAIN t = {"version", "temp", "key", "collateral", "total", "inputs", "legs",
                  "cet_locktime", "refund_locktime"}
  BY ExchangeAssumption DEF ValidSetup, OfferOf
<1>3. \A k \in 1..Len(t.legs) : DOMAIN t.legs[k] = {"event", "oracles", "threshold", "maturity", "announced", "outcomes"}
  <2>1. t.legs \in Seq(AnnouncedLeg)
    BY ExchangeAssumption DEF ValidSetup, OfferOf
  <2>2. \A k \in 1..Len(t.legs) : t.legs[k] \in AnnouncedLeg
    BY <2>1
  <2> QED BY <2>2 DEF AnnouncedLeg
<1>5. o = t \/ o \in Stateless!WrongOffers(t)
  OBVIOUS
<1> HIDE DEF t
<1>4. ASSUME NEW legs, legs = [t.legs EXCEPT ![1].outcomes[1].payout = @ + 1]
                        \/ legs = [t.legs EXCEPT ![1].outcomes[1].outcome = None]
      PROVE  /\ Len(legs) = Len(t.legs) /\ DOMAIN legs = DOMAIN t.legs
             /\ \A k \in 1..Len(t.legs) : /\ legs[k].oracles = t.legs[k].oracles
                                          /\ legs[k].threshold = t.legs[k].threshold
                                          /\ Len(legs[k].outcomes) = Len(t.legs[k].outcomes)
                                          /\ DOMAIN legs[k].outcomes = DOMAIN t.legs[k].outcomes
  <2> DEFINE old == t.legs
             n == Len(old)
             z == old[1].outcomes
  <2>1. n \in Nat /\ DOMAIN old = 1..n
    BY <1>1 DEF LegsOK
  <2>2. PICK w : legs = [old EXCEPT ![1].outcomes[1] = w]
    <3>1. \/ legs = [old EXCEPT ![1].outcomes[1] = [old[1].outcomes[1] EXCEPT !.payout = @ + 1]]
          \/ legs = [old EXCEPT ![1].outcomes[1] = [old[1].outcomes[1] EXCEPT !.outcome = None]]
      BY <1>4
    <3> HIDE DEF old
    <3> QED BY <3>1
  <2> HIDE DEF old, n, z
  <2>3. DOMAIN legs = 1..n
    BY <2>1, <2>2
  <2>4. Len(legs) = n
    BY <2>1, <2>3
  <2>5. ASSUME NEW k \in 1..n, k # 1 PROVE legs[k] = old[k]
    BY <2>1, <2>2, <2>5
  <2>6. ASSUME 1 \in 1..n
        PROVE  /\ legs[1].oracles = old[1].oracles /\ legs[1].threshold = old[1].threshold
               /\ DOMAIN legs[1].outcomes = DOMAIN z /\ Len(legs[1].outcomes) = Len(z)
    <3> DEFINE y == [z EXCEPT ![1] = w]
    <3>1. legs[1] = [old[1] EXCEPT !.outcomes = y]
      BY <2>1, <2>2, <2>6 DEF z
    <3>2. DOMAIN old[1] = {"event", "oracles", "threshold", "maturity", "announced", "outcomes"}
      BY <1>3, <2>6 DEF old, n
    <3>3. Len(z) \in Nat /\ DOMAIN z = 1..Len(z)
      BY <1>1, <2>6 DEF LegsOK, old, n, z
    <3>4. DOMAIN y = DOMAIN z
      OBVIOUS
    <3> DEFINE m == Len(z)
    <3> HIDE DEF y, m
    <3>5. Len(y) = m
      <4>1. m \in Nat /\ DOMAIN y = 1..m
        BY <3>3, <3>4 DEF m
      <4> QED BY <4>1
    <3>6. legs[1].outcomes = y
      BY <3>1, <3>2
    <3> QED BY <3>1, <3>2, <3>4, <3>5, <3>6 DEF m
  <2>7. ASSUME NEW k \in 1..n
        PROVE  /\ legs[k].oracles = old[k].oracles
               /\ legs[k].threshold = old[k].threshold
               /\ Len(legs[k].outcomes) = Len(old[k].outcomes)
               /\ DOMAIN legs[k].outcomes = DOMAIN old[k].outcomes
    <3>1. CASE k # 1
      BY <2>5, <3>1
    <3>2. CASE k = 1
      BY <2>6, <3>2 DEF z
    <3> QED BY <3>1, <3>2
  <2> QED BY <2>1, <2>3, <2>4, <2>7 DEF old, n
<1> DEFINE paid == [t.legs EXCEPT ![1].outcomes[1].payout = @ + 1]
           named == [t.legs EXCEPT ![1].outcomes[1].outcome = None]
<1>10. [t EXCEPT !.legs[1].outcomes[1].payout = @ + 1] = [t EXCEPT !.legs = paid]
  BY ONLY Zenon
<1>13. [t EXCEPT !.legs[1].outcomes[1].outcome = None] = [t EXCEPT !.legs = named]
  BY ONLY Zenon
<1>11. \/ o = t \/ o = [t EXCEPT !.key = 0]
       \/ o = [t EXCEPT !.legs = paid] \/ o = [t EXCEPT !.legs = named]
       \/ \E v : \/ o = [t EXCEPT !.version = v] \/ o = [t EXCEPT !.temp = v]
                  \/ o = [t EXCEPT !.collateral = v] \/ o = [t EXCEPT !.cet_locktime = v]
                  \/ o = [t EXCEPT !.refund_locktime = v] \/ o = [t EXCEPT !.inputs = v]
  BY ONLY <1>5, <1>10, <1>13 DEF Stateless!WrongOffers, Stateless!Foreign
<1> HIDE DEF paid, named
<1>12. (o.legs = t.legs \/ o.legs = paid \/ o.legs = named) /\ (o.key = t.key \/ o.key = 0)
  BY ONLY <1>2, <1>11
<1>6. \/ o.legs = t.legs
      \/ o.legs = [t.legs EXCEPT ![1].outcomes[1].payout = @ + 1]
      \/ o.legs = [t.legs EXCEPT ![1].outcomes[1].outcome = None]
  BY ONLY <1>12 DEF paid, named
<1>7. o.key = t.key \/ o.key = 0
  BY ONLY <1>12
<1>8. LegsOK(o)
  <2>1. CASE o.legs = t.legs
    BY <1>1, <2>1 DEF LegsOK
  <2>2. CASE o.legs # t.legs
    <3> DEFINE legs == o.legs
    <3>1. /\ Len(legs) = Len(t.legs) /\ DOMAIN legs = DOMAIN t.legs
          /\ \A k \in 1..Len(t.legs) : /\ legs[k].oracles = t.legs[k].oracles
                                       /\ legs[k].threshold = t.legs[k].threshold
                                       /\ Len(legs[k].outcomes) = Len(t.legs[k].outcomes)
                                       /\ DOMAIN legs[k].outcomes = DOMAIN t.legs[k].outcomes
      <4>1. \/ legs = [t.legs EXCEPT ![1].outcomes[1].payout = @ + 1]
            \/ legs = [t.legs EXCEPT ![1].outcomes[1].outcome = None]
        BY <1>6, <2>2
      <4> HIDE DEF legs
      <4> QED BY <4>1, <1>4
    <3>2. \A k \in 1..Len(t.legs) : Quorate(legs[k]) <=> Quorate(t.legs[k])
      BY <3>1 DEF Quorate
    <3> HIDE DEF legs
    <3>3. \A k \in 1..Len(legs) : /\ Quorate(legs[k]) /\ Len(legs[k].outcomes) \in Nat
                                   /\ DOMAIN legs[k].outcomes = 1..Len(legs[k].outcomes)
      BY ONLY <1>1, <3>1, <3>2 DEF LegsOK
    <3> QED BY ONLY <1>1, <3>1, <3>3 DEF LegsOK, legs
  <2> QED BY ONLY <2>1, <2>2
<1>9. o.key # FundingKey["accept"]
  BY <1>1, <1>7, ExchangeAssumption
<1> QED BY <1>8, <1>9

\* Passing all checks is more than passing but for witnesses.
LEMMA PassingIsEnough == \A checks : AllPass(checks) => AllButWitnesses(checks)
  BY DEF AllPass, AllButWitnesses

\* Checks in rows: all rows pass.
LEMMA ThreeRows ==
    ASSUME NEW A \in Seq(Check), NEW B \in Seq(Check), NEW C \in Seq(Check)
    PROVE  /\ A \o B \o C \in Seq(Check)
           /\ AllPass(A \o B \o C) <=> AllPass(A) /\ AllPass(B) /\ AllPass(C)
           /\ AllButWitnesses(A \o B \o C) <=> AllButWitnesses(A) /\ AllButWitnesses(B) /\ AllButWitnesses(C)
<1> DEFINE D == A \o B
<1>1. /\ D \in Seq(Check)
      /\ AllPass(D) <=> AllPass(A) /\ AllPass(B)
      /\ AllButWitnesses(D) <=> AllButWitnesses(A) /\ AllButWitnesses(B)
  BY ChecksJoin
<1> HIDE DEF D
<1>2. /\ D \o C \in Seq(Check)
      /\ AllPass(D \o C) <=> AllPass(D) /\ AllPass(C)
      /\ AllButWitnesses(D \o C) <=> AllButWitnesses(D) /\ AllButWitnesses(C)
  BY <1>1, ChecksJoin
<1>3. D \o C = A \o B \o C
  BY DEF D
<1> QED BY <1>1, <1>2, <1>3

\* A list of five lists of checks.
LEMMA FiveRows ==
    ASSUME NEW A \in Seq(Check), NEW B \in Seq(Check), NEW C \in Seq(Check),
           NEW D \in Seq(Check), NEW E \in Seq(Check)
    PROVE  /\ A \o B \o C \o D \o E \in Seq(Check)
           /\ AllPass(A \o B \o C \o D \o E) <=>
                 AllPass(A) /\ AllPass(B) /\ AllPass(C) /\ AllPass(D) /\ AllPass(E)
           /\ AllButWitnesses(A \o B \o C \o D \o E) <=>
                 /\ AllButWitnesses(A) /\ AllButWitnesses(B) /\ AllButWitnesses(C)
                 /\ AllButWitnesses(D) /\ AllButWitnesses(E)
<1> DEFINE F == A \o B \o C
<1>1. /\ F \in Seq(Check)
      /\ AllPass(F) <=> AllPass(A) /\ AllPass(B) /\ AllPass(C)
      /\ AllButWitnesses(F) <=> AllButWitnesses(A) /\ AllButWitnesses(B) /\ AllButWitnesses(C)
  BY ThreeRows
<1> HIDE DEF F
<1>2. /\ F \o D \o E \in Seq(Check)
      /\ AllPass(F \o D \o E) <=> AllPass(F) /\ AllPass(D) /\ AllPass(E)
      /\ AllButWitnesses(F \o D \o E) <=> AllButWitnesses(F) /\ AllButWitnesses(D) /\ AllButWitnesses(E)
  BY <1>1, ThreeRows
<1>3. F \o D \o E = A \o B \o C \o D \o E
  BY DEF F
<1> QED BY <1>1, <1>2, <1>3

-----------------------------------------------------------------------------
(***************************************************************************)
(* What the checks of a call check.                                        *)
(***************************************************************************)
LEMMA FourTuplesAre ==
    ASSUME NEW c1 \in Check, NEW c2 \in Check, NEW c3 \in Check, NEW c4 \in Check
    PROVE  <<c1, c2, c3, c4>> \in Seq(Check)
  OBVIOUS

\* The checks of an offer are checks.
LEMMA OfferChecksAre ==
    ASSUME NEW o
    PROVE  Stateless!OfferChecks(o) \in Seq(Check)
<1> DEFINE maturity == Stateless!Min({o.legs[k].maturity : k \in DOMAIN o.legs})
           b1 == o.version = 1
           b2 == Stateless!ValidOfferInputs(o)
           b3 == o.collateral <= o.total
           b4 == /\ o.cet_locktime <= maturity
                 /\ maturity + MinTimeout <= o.refund_locktime
                 /\ o.refund_locktime <= maturity + MaxTimeout
<1>1. b1 \in BOOLEAN /\ b2 \in BOOLEAN /\ b3 \in BOOLEAN /\ b4 \in BOOLEAN
  BY DEF Stateless!ValidOfferInputs
<1>2. Stateless!OfferChecks(o) = << <<b1, "InvalidOffer">>, <<b2, "InvalidFundingInput">>,
                                    <<b3, "InvalidOffer">>, <<b4, "InvalidOffer">> >>
  BY DEF Stateless!OfferChecks, Stateless!PROTOCOL_VERSION
<1> HIDE DEF b1, b2, b3, b4
<1>3. "InvalidOffer" \in Errors /\ "InvalidFundingInput" \in Errors
  BY DEF Errors
<1>4. /\ <<b1, "InvalidOffer">> \in Check /\ <<b2, "InvalidFundingInput">> \in Check
      /\ <<b3, "InvalidOffer">> \in Check /\ <<b4, "InvalidOffer">> \in Check
  BY <1>1, <1>3, CheckIs
<1> QED BY <1>2, <1>4, FourTuplesAre

\* A list of checks.
LEMMA CheckListIs ==
    ASSUME NEW n \in Nat, NEW f, \A i \in 1..n : f[i] \in Check, f = [i \in 1..n |-> f[i]]
    PROVE  f \in Seq(Check)
  OBVIOUS

\* What is checked of the witnesses of the offering party.
LEMMA OfferFundingIs ==
    ASSUME NEW o, NEW a, NEW psbt, NEW prior, Len(o.inputs) \in Nat, DOMAIN o.inputs = 1..Len(o.inputs)
    PROVE  /\ Stateless!OfferFundingChecks(o, a, psbt, prior) \in Seq(Check)
           /\ AllPass(Stateless!OfferFundingChecks(o, a, psbt, prior)) <=>
                 \A i \in DOMAIN o.inputs :
                    IF o.inputs[i].dlc # None THEN prior = o.inputs[i].dlc.local
                    ELSE psbt.witness[Stateless!FundingInputIndex(o, a, o.inputs[i].serial)] # <<>>
           /\ AllButWitnesses(Stateless!OfferFundingChecks(o, a, psbt, prior)) <=>
                 \A i \in DOMAIN o.inputs :
                    o.inputs[i].dlc # None => prior = o.inputs[i].dlc.local
<1> DEFINE n == Len(o.inputs)
           C == Stateless!OfferFundingChecks(o, a, psbt, prior)
           b(i) == IF o.inputs[i].dlc # None THEN prior = o.inputs[i].dlc.local
                   ELSE psbt.witness[Stateless!FundingInputIndex(o, a, o.inputs[i].serial)] # <<>>
           e(i) == IF o.inputs[i].dlc # None THEN "InvalidFundingInput" ELSE "MissingFinalizedInput"
<1>1. DOMAIN C = 1..n /\ C = [i \in 1..n |-> C[i]] /\ \A i \in 1..n : C[i] = <<b(i), e(i)>>
  BY DEF Stateless!OfferFundingChecks
<1>2. \A i \in 1..n : b(i) \in BOOLEAN /\ e(i) \in Errors
  BY DEF Errors
<1>3. \A i \in 1..n : (o.inputs[i].dlc = None => e(i) = "MissingFinalizedInput")
                      /\ (o.inputs[i].dlc # None => e(i) # "MissingFinalizedInput")
  OBVIOUS
<1>8. \A i \in 1..n : C[i][1] = b(i) /\ C[i][2] = e(i)
  <2> SUFFICES ASSUME NEW i \in 1..n PROVE C[i][1] = b(i) /\ C[i][2] = e(i)
    OBVIOUS
  <2>1. C[i] = <<b(i), e(i)>> /\ b(i) \in BOOLEAN
    BY <1>1, <1>2
  <2> HIDE DEF b, e, C
  <2>2. <<b(i), e(i)>>[1] = b(i)
    BY <2>1
  <2>3. <<b(i), e(i)>>[2] = e(i)
    BY <2>1
  <2> QED BY <2>1, <2>2, <2>3
<1>4. AllPass(C) <=> \A i \in 1..n : b(i)
  <2> HIDE DEF b, e, C
  <2>1. AllPass(C) <=> \A i \in 1..n : C[i][1]
    BY <1>1, Zenon DEF AllPass
  <2> QED BY <1>8, <2>1
<1>5. AllButWitnesses(C) <=> \A i \in 1..n : b(i) \/ e(i) = "MissingFinalizedInput"
  <2> HIDE DEF b, e, C
  <2>1. AllButWitnesses(C) <=> \A i \in 1..n : C[i][1] \/ C[i][2] = "MissingFinalizedInput"
    BY <1>1, Zenon DEF AllButWitnesses
  <2> QED BY <1>8, <2>1
<1>6. C \in Seq(Check)
  <2> HIDE DEF b, e, C
  <2>1. \A i \in 1..n : C[i] \in Check
    BY <1>1, <1>2, CheckIs
  <2> HIDE DEF n
  <2>2. n \in Nat
    BY DEF n
  <2> QED BY <1>1, <2>1, <2>2, CheckListIs
<1>7. \A i \in 1..n : (b(i) \/ e(i) = "MissingFinalizedInput")
                        <=> (o.inputs[i].dlc # None => prior = o.inputs[i].dlc.local)
  OBVIOUS
<1> HIDE DEF C
<1> QED BY <1>4, <1>5, <1>6, <1>7 DEF C

\* What is checked of those of the accepting party.
LEMMA AcceptFundingIs ==
    ASSUME NEW o, NEW a, NEW psbt, Len(a.inputs) \in Nat, DOMAIN a.inputs = 1..Len(a.inputs)
    PROVE  /\ Stateless!AcceptFundingChecks(o, a, psbt) \in Seq(Check)
           /\ AllPass(Stateless!AcceptFundingChecks(o, a, psbt)) <=>
                 \A i \in DOMAIN a.inputs :
                    psbt.witness[Stateless!FundingInputIndex(o, a, a.inputs[i].serial)] # <<>>
           /\ AllButWitnesses(Stateless!AcceptFundingChecks(o, a, psbt))
<1> DEFINE n == Len(a.inputs)
           C == Stateless!AcceptFundingChecks(o, a, psbt)
           b(i) == psbt.witness[Stateless!FundingInputIndex(o, a, a.inputs[i].serial)] # <<>>
<1>1. DOMAIN C = 1..n /\ C = [i \in 1..n |-> C[i]] /\ \A i \in 1..n : C[i] = <<b(i), "MissingFinalizedInput">>
  BY DEF Stateless!AcceptFundingChecks
<1>2. \A i \in 1..n : b(i) \in BOOLEAN /\ "MissingFinalizedInput" \in Errors
  BY DEF Errors
<1>8. \A i \in 1..n : C[i][1] = b(i) /\ C[i][2] = "MissingFinalizedInput"
  <2> SUFFICES ASSUME NEW i \in 1..n PROVE C[i][1] = b(i) /\ C[i][2] = "MissingFinalizedInput"
    OBVIOUS
  <2> HIDE DEF b, C, n
  <2>1. C[i] = <<b(i), "MissingFinalizedInput">>
    BY <1>1
  <2> QED BY ONLY <2>1
<1>4. AllPass(C) <=> \A i \in 1..n : b(i)
  <2> HIDE DEF b, C
  <2>1. AllPass(C) <=> \A i \in 1..n : C[i][1]
    BY <1>1, Zenon DEF AllPass
  <2> QED BY <1>8, <2>1
<1>5. AllButWitnesses(C)
  <2> HIDE DEF b, C
  <2>1. AllButWitnesses(C) <=> \A i \in 1..n : C[i][1] \/ C[i][2] = "MissingFinalizedInput"
    BY <1>1, Zenon DEF AllButWitnesses
  <2> QED BY <1>8, <2>1
<1>6. C \in Seq(Check)
  <2> HIDE DEF b, C
  <2>1. \A i \in 1..n : C[i] \in Check
    BY <1>1, <1>2, CheckIs
  <2> HIDE DEF n
  <2>2. n \in Nat
    BY DEF n
  <2> QED BY <1>1, <2>1, <2>2, CheckListIs
<1> HIDE DEF C
<1> QED BY <1>4, <1>5, <1>6 DEF C

\* A list of three checks.
LEMMA ThreeTuplesAre ==
    ASSUME NEW c1 \in Check, NEW c2 \in Check, NEW c3 \in Check
    PROVE  /\ <<c1, c2, c3>> \in Seq(Check)
           /\ AllPass(<<c1, c2, c3>>) <=> c1[1] /\ c2[1] /\ c3[1]
  BY DEF AllPass

\* What finalize_sign checks of the funding signatures in SignDlc.
LEMMA OfferWitnessIs ==
    ASSUME NEW o, NEW a, NEW s, NEW prior
    PROVE  /\ Stateless!OfferWitnessChecks(o, a, s, prior) \in Seq(Check)
           /\ AllPass(Stateless!OfferWitnessChecks(o, a, s, prior)) <=>
                 \A i \in DOMAIN o.inputs :
                    /\ o.inputs[i].dlc = None => s.funding_signatures[i] # <<>>
                    /\ o.inputs[i].dlc # None =>
                          /\ s.funding_signatures[i] =
                                <<Stateless!InputSig(o.inputs[i].dlc.local, Stateless!Fund(o, a),
                                      Stateless!FundingInputIndex(o, a, o.inputs[i].serial))>>
                          /\ prior = o.inputs[i].dlc.remote
<1> DEFINE b1 == \A i \in DOMAIN o.inputs : o.inputs[i].dlc = None => s.funding_signatures[i] # <<>>
           b2 == \A i \in DOMAIN o.inputs : o.inputs[i].dlc # None =>
                    s.funding_signatures[i] =
                       <<Stateless!InputSig(o.inputs[i].dlc.local, Stateless!Fund(o, a),
                             Stateless!FundingInputIndex(o, a, o.inputs[i].serial))>>
           b3 == \A i \in DOMAIN o.inputs : o.inputs[i].dlc # None => prior = o.inputs[i].dlc.remote
<1>1. b1 \in BOOLEAN /\ b2 \in BOOLEAN /\ b3 \in BOOLEAN
  OBVIOUS
<1>2. Stateless!OfferWitnessChecks(o, a, s, prior)
         = << <<b1, "InvalidFundingInput">>, <<b2, "InvalidSign">>, <<b3, "InvalidFundingInput">> >>
  BY DEF Stateless!OfferWitnessChecks
<1>3. (b1 /\ b2 /\ b3) <=>
                 \A i \in DOMAIN o.inputs :
                    /\ o.inputs[i].dlc = None => s.funding_signatures[i] # <<>>
                    /\ o.inputs[i].dlc # None =>
                          /\ s.funding_signatures[i] =
                                <<Stateless!InputSig(o.inputs[i].dlc.local, Stateless!Fund(o, a),
                                      Stateless!FundingInputIndex(o, a, o.inputs[i].serial))>>
                          /\ prior = o.inputs[i].dlc.remote
  OBVIOUS
<1> HIDE DEF b1, b2, b3
<1>4. "InvalidSign" \in Errors /\ "InvalidFundingInput" \in Errors
  BY DEF Errors
<1>5. /\ <<b1, "InvalidFundingInput">> \in Check /\ <<b2, "InvalidSign">> \in Check
      /\ <<b3, "InvalidFundingInput">> \in Check
  BY <1>1, <1>4, CheckIs
<1>6. /\ << <<b1, "InvalidFundingInput">>, <<b2, "InvalidSign">>, <<b3, "InvalidFundingInput">> >> \in Seq(Check)
      /\ AllPass(<< <<b1, "InvalidFundingInput">>, <<b2, "InvalidSign">>, <<b3, "InvalidFundingInput">> >>)
            <=> <<b1, "InvalidFundingInput">>[1] /\ <<b2, "InvalidSign">>[1] /\ <<b3, "InvalidFundingInput">>[1]
  BY <1>5, ThreeTuplesAre
<1>7. <<b1, "InvalidFundingInput">>[1] = b1 /\ <<b2, "InvalidSign">>[1] = b2 /\ <<b3, "InvalidFundingInput">>[1] = b3
  OBVIOUS
<1>8. /\ Stateless!OfferWitnessChecks(o, a, s, prior) \in Seq(Check)
      /\ AllPass(Stateless!OfferWitnessChecks(o, a, s, prior)) <=> b1 /\ b2 /\ b3
  BY <1>1, <1>2, <1>6, <1>7
<1> QED BY <1>3, <1>8

-----------------------------------------------------------------------------
(***************************************************************************)
(* The messages that each party keeps.                                     *)
(***************************************************************************)
\* Each party keeps an offer, an acceptance and a SignDlc message, or none.
ViewOK(v) ==
    /\ DOMAIN v = {"offer", "accept"}
    /\ \A p \in {"offer", "accept"} :
          v[p] = [offer |-> v[p].offer, accept |-> v[p].accept, sign |-> v[p].sign]

\* A party keeps an offer.
LEMMA OfferIsKept ==
    ASSUME NEW v, ViewOK(v), NEW o, NEW w, w = [v EXCEPT !["offer"].offer = o]
    PROVE  /\ ViewOK(w) /\ w["accept"] = v["accept"]
           /\ w["offer"].offer = o /\ w["offer"].accept = v["offer"].accept /\ w["offer"].sign = v["offer"].sign
  BY DEF ViewOK

WithAcceptance(v, o, a) == [v EXCEPT !["accept"].offer = o, !["accept"].accept = a]

\* The accepting party keeps an offer and its answer.
LEMMA AcceptanceIsKept ==
    ASSUME NEW v, ViewOK(v), NEW o, NEW a, NEW w, w = WithAcceptance(v, o, a)
    PROVE  /\ ViewOK(w) /\ w["offer"] = v["offer"]
           /\ w["accept"].offer = o /\ w["accept"].accept = a /\ w["accept"].sign = v["accept"].sign
  BY DEF ViewOK, WithAcceptance

WithAnswer(v, a) == [v EXCEPT !["offer"].accept = a]

\* The offering party keeps an answer.
LEMMA AnswerIsKept ==
    ASSUME NEW v, ViewOK(v), NEW a, NEW w, w = WithAnswer(v, a)
    PROVE  /\ ViewOK(w) /\ w["accept"] = v["accept"]
           /\ w["offer"].offer = v["offer"].offer /\ w["offer"].accept = a /\ w["offer"].sign = v["offer"].sign
  BY DEF ViewOK, WithAnswer

WithSign(v, p, s) == [v EXCEPT ![p].sign = s]

\* A party keeps a SignDlc message.
LEMMA SignIsKept ==
    ASSUME NEW v, ViewOK(v), NEW p \in {"offer", "accept"}, NEW s, NEW w, w = WithSign(v, p, s)
    PROVE  /\ ViewOK(w) /\ \A q \in {"offer", "accept"} : q # p => w[q] = v[q]
           /\ w[p].offer = v[p].offer /\ w[p].accept = v[p].accept /\ w[p].sign = s
  BY DEF ViewOK, WithSign

-----------------------------------------------------------------------------
(***************************************************************************)
(* What the messages of each party were checked for.  A party that has     *)
(* made its PSBT has checked the terms of the other.                       *)
(***************************************************************************)
\* The party has accepted, or been given the answer.
AcceptReady == view["accept"].accept # None \/ psbts["accept"] # None
OfferReady == view["offer"].accept # None \/ psbts["offer"] # None
\* What is agreed and kept.
KeptOK ==
    /\ setup \in Setups /\ ViewOK(view) /\ DOMAIN psbts = {"offer", "accept"}
\* The offer is of the agreed terms.
OfferOK == view["offer"].offer # None => view["offer"].offer = setup.terms
\* The accepting party signed what it keeps.
AcceptOK ==
    AcceptReady =>
        /\ view["offer"].offer # None
        /\ LegsOK(view["accept"].offer) /\ view["accept"].offer.key # FundingKey["accept"]
        /\ view["accept"].accept.key = FundingKey["accept"]
        /\ view["accept"].accept.inputs = setup.accept_inputs
        /\ Accepted(view["accept"].offer, view["accept"].accept)
\* The offering party makes a PSBT of an answer in the context of its offer.
AnswerOK ==
    OfferReady =>
        /\ view["accept"].accept # None
        /\ Context(view["offer"].offer, view["offer"].accept)
\* It signs only an acceptance whose signatures it verified.
SignOK ==
    view["offer"].sign # None =>
        /\ view["offer"].accept # None /\ "contract_id" \in DOMAIN view["offer"].sign
        /\ Accepted(view["offer"].offer, view["offer"].accept)
        /\ SignedBy(view["offer"].offer, view["offer"].accept, view["offer"].sign)
\* The accepting party keeps only a SignDlc message that it verified.
FinalOK ==
    view["accept"].sign # None =>
        /\ view["offer"].sign # None
        /\ SignedBy(view["accept"].offer, view["accept"].accept, view["accept"].sign)
\* The funding transaction is the one that the offering party builds as well.
FundingOK ==
    funding # None =>
        /\ view["offer"].sign # None
        /\ funding.fund = Stateless!Fund(view["offer"].offer, view["offer"].accept)
\* Whatever is handed to the calls, what a party keeps was checked.
MessagesInv ==
    KeptOK /\ OfferOK /\ AcceptOK /\ AnswerOK /\ SignOK /\ FinalOK /\ FundingOK

\* Two users who agreed on something and have called nothing.
LEMMA MessagesInvInit == Stateless!Init => MessagesInv
<1> SUFFICES ASSUME Stateless!Init PROVE MessagesInv
  OBVIOUS
<1>1. /\ setup \in Setups /\ funding = None
      /\ DOMAIN psbts = {"offer", "accept"} /\ psbts["accept"] = None /\ psbts["offer"] = None
      /\ DOMAIN view = {"offer", "accept"}
      /\ \A p \in {"offer", "accept"} : view[p] = [offer |-> None, accept |-> None, sign |-> None]
  BY DEF Stateless!Init, Stateless!Parties
<1>2. \A p \in {"offer", "accept"} : view[p].offer = None /\ view[p].accept = None /\ view[p].sign = None
  BY <1>1
<1>3. KeptOK
  BY <1>1, <1>2 DEF KeptOK, ViewOK
<1> QED
  BY <1>1, <1>2, <1>3 DEF MessagesInv, OfferOK, AcceptOK, AnswerOK, SignOK, FinalOK, FundingOK,
     AcceptReady, OfferReady

\* create_offer.
LEMMA CreateOfferKeeps == MessagesInv /\ Stateless!CreateOffer => MessagesInv'
<1> SUFFICES ASSUME MessagesInv, Stateless!CreateOffer PROVE MessagesInv'
  OBVIOUS
<1> USE DEF MessagesInv
<1>1. /\ view["offer"].offer = None
      /\ setup' = setup /\ psbts' = psbts /\ funding' = funding
      /\ view' = view \/ view' = [view EXCEPT !["offer"].offer = setup.terms]
  BY DEF Stateless!CreateOffer
<1>2. ViewOK(view) /\ KeptOK
  BY DEF KeptOK
<1>3. ~AcceptReady /\ ~OfferReady /\ view["offer"].sign = None /\ view["accept"].sign = None /\ funding = None
  BY <1>1 DEF AcceptOK, AnswerOK, SignOK, FinalOK, FundingOK, AcceptReady, OfferReady
<1>4. /\ ViewOK(view') /\ view'["accept"] = view["accept"] /\ view'["offer"].accept = view["offer"].accept
      /\ view'["offer"].sign = view["offer"].sign
      /\ view'["offer"].offer = None \/ view'["offer"].offer = setup.terms
  BY <1>1, <1>2, OfferIsKept
<1>5. KeptOK'
  BY <1>1, <1>2, <1>4 DEF KeptOK
<1> QED
  BY <1>1, <1>3, <1>4, <1>5 DEF OfferOK, AcceptOK, AnswerOK, SignOK, FinalOK, FundingOK,
     AcceptReady, OfferReady

\* The terms of an acceptance before it is signed, and what it adds.
TermsFor(o) ==
    [version |-> o.version, temp |-> o.temp, key |-> FundingKey["accept"],
     collateral |-> o.total - o.collateral, inputs |-> setup.accept_inputs,
     negotiation |-> FALSE, cet_sigs |-> None, refund_sig |-> None]
AcceptanceOf(o) ==
    [TermsFor(o) EXCEPT
        !.cet_sigs = Stateless!AdaptorSignatures(TermsFor(o).key, o, TermsFor(o)),
        !.refund_sig = Stateless!Sig(TermsFor(o).key, Stateless!Refund(o, TermsFor(o)))]

\* The transactions do not depend on the signatures of an acceptance.
LEMMA SameTransactions ==
    ASSUME NEW o, NEW a, NEW b, a.inputs = b.inputs, a.key = b.key, a.collateral = b.collateral
    PROVE  /\ Stateless!FundingInputs(o, a) = Stateless!FundingInputs(o, b)
           /\ Stateless!Fund(o, a) = Stateless!Fund(o, b)
           /\ Stateless!Refund(o, a) = Stateless!Refund(o, b)
           /\ \A k, x : Stateless!Cet(o, a, k, x) = Stateless!Cet(o, b, k, x)
           /\ \A key : Stateless!AdaptorSignatures(key, o, a) = Stateless!AdaptorSignatures(key, o, b)
<1>1. Stateless!FundingInputs(o, a) = Stateless!FundingInputs(o, b)
  BY DEF Stateless!FundingInputs, Stateless!AllInputs
<1>2. Stateless!Fund(o, a) = Stateless!Fund(o, b)
  BY <1>1 DEF Stateless!Fund
<1>3. Stateless!Refund(o, a) = Stateless!Refund(o, b)
  BY <1>2 DEF Stateless!Refund
<1>4. \A k, x : Stateless!Cet(o, a, k, x) = Stateless!Cet(o, b, k, x)
  BY <1>2 DEF Stateless!Cet
<1>5. ASSUME NEW key, NEW k PROVE Stateless!LegSignatures(key, o, a, k) = Stateless!LegSignatures(key, o, b, k)
  BY <1>4 DEF Stateless!LegSignatures
<1>6. ASSUME NEW key PROVE Stateless!AdaptorSignatures(key, o, a) = Stateless!AdaptorSignatures(key, o, b)
  <2>1. [k \in DOMAIN o.legs |-> Stateless!LegSignatures(key, o, a, k)]
          = [k \in DOMAIN o.legs |-> Stateless!LegSignatures(key, o, b, k)]
    BY <1>5
  <2> QED BY <2>1 DEF Stateless!AdaptorSignatures
<1> QED BY <1>1, <1>2, <1>3, <1>4, <1>6

\* Signatures do not matter to the context.
LEMMA SameContext ==
    ASSUME NEW o, NEW a, NEW b, a.inputs = b.inputs, a.collateral = b.collateral,
           a.version = b.version, a.temp = b.temp, a.negotiation = b.negotiation
    PROVE  Context(o, a) = Context(o, b)
<1>1. Stateless!ContextChecks(o, a) = Stateless!ContextChecks(o, b)
  BY DEF Stateless!ContextChecks, Stateless!AllInputs
<1> QED BY <1>1 DEF Context

\* An acceptance is signed over the terms of the offer and its own.
LEMMA AcceptanceIs ==
    ASSUME NEW o, NEW t, t = TermsFor(o), Context(o, t)
    PROVE  /\ Accepted(o, AcceptanceOf(o)) /\ AcceptanceOf(o).key = FundingKey["accept"]
           /\ AcceptanceOf(o).inputs = setup.accept_inputs
<1> DEFINE a == AcceptanceOf(o)
           c == Stateless!AdaptorSignatures(t.key, o, t)
           r == Stateless!Sig(t.key, Stateless!Refund(o, t))
<1>1. /\ a.inputs = t.inputs /\ a.key = t.key /\ a.collateral = t.collateral
      /\ a.version = t.version /\ a.temp = t.temp /\ a.negotiation = t.negotiation
      /\ a.cet_sigs = c /\ a.refund_sig = r
      /\ t.key = FundingKey["accept"] /\ t.inputs = setup.accept_inputs
  BY DEF AcceptanceOf, TermsFor
<1> HIDE DEF a
<1>2. Context(o, a) = Context(o, t)
  BY <1>1, SameContext
<1>3. /\ Stateless!AdaptorSignatures(t.key, o, a) = c
      /\ Stateless!Refund(o, a) = Stateless!Refund(o, t)
  BY <1>1, SameTransactions
<1>4. Accepted(o, a)
  BY <1>1, <1>2, <1>3 DEF Accepted
<1> QED BY <1>1, <1>4 DEF a

\* Of the checks in rows the context's are among those that pass.
LEMMA OkPasses ==
    ASSUME NEW A \in Seq(Check), NEW B \in Seq(Check), Stateless!FirstFailed(A \o B) = "ok"
    PROVE  AllPass(A) /\ AllPass(B)
<1> DEFINE C == A \o B
<1>1. C \in Seq(Check) /\ (AllPass(C) <=> AllPass(A) /\ AllPass(B))
  BY ChecksJoin
<1> HIDE DEF C
<1>2. Stateless!FirstFailed(C) = "ok"
  BY DEF C
<1> QED BY <1>1, <1>2, FirstFailedIs

\* What accept_offer leaves.
LEMMA AcceptOfferGives ==
    ASSUME MessagesInv, Stateless!AcceptOffer
    PROVE  /\ view["offer"].offer # None /\ view["accept"].accept = None
           /\ setup' = setup /\ funding' = funding
           /\ \/ view' = view /\ psbts' = psbts
              \/ \E o \in {view["offer"].offer} \cup Stateless!WrongOffers(view["offer"].offer) :
                    /\ Context(o, TermsFor(o))
                    /\ view' = [view EXCEPT !["accept"].offer = o, !["accept"].accept = AcceptanceOf(o)]
                    /\ psbts' = [psbts EXCEPT !["accept"] = Stateless!BuildFundingPsbt(o, AcceptanceOf(o))]
<1>1. PICK o \in {view["offer"].offer} \cup Stateless!WrongOffers(view["offer"].offer) :
         IF Stateless!FirstFailed(Stateless!OfferChecks(o) \o Stateless!ContextChecks(o, TermsFor(o))) = "ok"
         THEN /\ view' = [view EXCEPT !["accept"].offer = o, !["accept"].accept = AcceptanceOf(o)]
              /\ psbts' = [psbts EXCEPT !["accept"] = Stateless!BuildFundingPsbt(o, AcceptanceOf(o))]
         ELSE view' = view /\ psbts' = psbts
  BY DEF Stateless!AcceptOffer, TermsFor, AcceptanceOf
<1>2. view["offer"].offer # None /\ view["accept"].accept = None /\ setup' = setup /\ funding' = funding
  BY DEF Stateless!AcceptOffer
<1>3. ASSUME Stateless!FirstFailed(Stateless!OfferChecks(o) \o Stateless!ContextChecks(o, TermsFor(o))) = "ok"
      PROVE  Context(o, TermsFor(o))
  <2> DEFINE A == Stateless!OfferChecks(o)
             B == Stateless!ContextChecks(o, TermsFor(o))
  <2>1. A \in Seq(Check) /\ B \in Seq(Check)
    BY OfferChecksAre, ContextIs
  <2> HIDE DEF A, B
  <2>2. AllPass(B)
    <3>1. Stateless!FirstFailed(A \o B) = "ok"
      BY <1>3 DEF A, B
    <3> QED BY <2>1, <3>1, OkPasses
  <2> QED BY <2>2 DEF B, Context
<1> QED BY <1>1, <1>2, <1>3

\* accept_offer.
LEMMA AcceptOfferKeeps == MessagesInv /\ Stateless!AcceptOffer => MessagesInv'
<1> SUFFICES ASSUME MessagesInv, Stateless!AcceptOffer PROVE MessagesInv'
  OBVIOUS
<1>1. /\ view["offer"].offer # None /\ view["accept"].accept = None
      /\ setup' = setup /\ funding' = funding
      /\ \/ view' = view /\ psbts' = psbts
         \/ \E o \in {view["offer"].offer} \cup Stateless!WrongOffers(view["offer"].offer) :
               /\ Context(o, TermsFor(o))
               /\ view' = [view EXCEPT !["accept"].offer = o, !["accept"].accept = AcceptanceOf(o)]
               /\ psbts' = [psbts EXCEPT !["accept"] = Stateless!BuildFundingPsbt(o, AcceptanceOf(o))]
  BY AcceptOfferGives
<1>2. ViewOK(view) /\ KeptOK /\ OfferOK /\ AcceptOK /\ AnswerOK /\ SignOK /\ FinalOK /\ FundingOK
  BY DEF MessagesInv, KeptOK
<1>3. CASE view' = view /\ psbts' = psbts
  BY <1>1, <1>2, <1>3 DEF MessagesInv, KeptOK, OfferOK, AcceptOK, AnswerOK, SignOK, FinalOK, FundingOK,
     AcceptReady, OfferReady
<1>4. ASSUME NEW o \in {view["offer"].offer} \cup Stateless!WrongOffers(view["offer"].offer),
             Context(o, TermsFor(o)),
             view' = [view EXCEPT !["accept"].offer = o, !["accept"].accept = AcceptanceOf(o)],
             psbts' = [psbts EXCEPT !["accept"] = Stateless!BuildFundingPsbt(o, AcceptanceOf(o))]
      PROVE  MessagesInv'
  <2>1. ~OfferReady /\ view["offer"].sign = None /\ view["accept"].sign = None /\ funding = None
    BY <1>1, <1>2 DEF AnswerOK, SignOK, FinalOK, FundingOK, OfferReady
  <2>2. /\ ViewOK(view') /\ view'["offer"] = view["offer"]
        /\ view'["accept"].offer = o /\ view'["accept"].accept = AcceptanceOf(o)
        /\ view'["accept"].sign = view["accept"].sign
    <3>1. view' = WithAcceptance(view, o, AcceptanceOf(o))
      BY <1>4 DEF WithAcceptance
    <3> QED BY <1>2, <3>1, AcceptanceIsKept
  <2>3. psbts'["offer"] = psbts["offer"] /\ DOMAIN psbts' = {"offer", "accept"}
    BY <1>2, <1>4 DEF KeptOK
  <2>4. LegsOK(o) /\ o.key # FundingKey["accept"]
    <3>1. setup \in Setups /\ view["offer"].offer = setup.terms
      BY <1>1, <1>2 DEF KeptOK, OfferOK
    <3> QED BY <1>4, <3>1, WrongOfferIs
  <2>5. /\ Accepted(o, AcceptanceOf(o)) /\ AcceptanceOf(o).key = FundingKey["accept"]
        /\ AcceptanceOf(o).inputs = setup.accept_inputs
    BY <1>4, AcceptanceIs
  <2>6. KeptOK' /\ OfferOK'
    BY <1>1, <1>2, <2>2, <2>3 DEF KeptOK, OfferOK
  <2>7. AcceptOK'
    BY <1>1, <2>2, <2>4, <2>5 DEF AcceptOK
  <2>8. ~OfferReady' /\ view'["offer"].sign = None /\ view'["accept"].sign = None /\ funding' = None
    BY <1>1, <2>1, <2>2, <2>3 DEF OfferReady
  <2>9. AnswerOK' /\ SignOK' /\ FinalOK' /\ FundingOK'
    BY <2>8 DEF AnswerOK, SignOK, FinalOK, FundingOK
  <2> QED BY <2>6, <2>7, <2>9 DEF MessagesInv
<1> QED BY <1>1, <1>3, <1>4

\* create_funding_psbt.
LEMMA CreateFundingPsbtKeeps == MessagesInv /\ Stateless!CreateFundingPsbt => MessagesInv'
<1> SUFFICES ASSUME MessagesInv, Stateless!CreateFundingPsbt PROVE MessagesInv'
  OBVIOUS
<1>1. /\ view["accept"].accept # None /\ view["offer"].accept = None
      /\ setup' = setup /\ funding' = funding
      /\ \/ view' = view /\ psbts' = psbts
         \/ \E a : /\ Stateless!FirstFailed(Stateless!ContextChecks(view["offer"].offer, a)) = "ok"
                   /\ view' = [view EXCEPT !["offer"].accept = a]
                   /\ psbts' = [psbts EXCEPT !["offer"] = Stateless!BuildFundingPsbt(view["offer"].offer, a)]
  BY DEF Stateless!CreateFundingPsbt
<1>2. ViewOK(view) /\ KeptOK /\ OfferOK /\ AcceptOK /\ AnswerOK /\ SignOK /\ FinalOK /\ FundingOK
  BY DEF MessagesInv, KeptOK
<1>3. CASE view' = view /\ psbts' = psbts
  BY <1>1, <1>2, <1>3 DEF MessagesInv, KeptOK, OfferOK, AcceptOK, AnswerOK, SignOK, FinalOK, FundingOK,
     AcceptReady, OfferReady
<1>4. ASSUME NEW a, Stateless!FirstFailed(Stateless!ContextChecks(view["offer"].offer, a)) = "ok",
             view' = [view EXCEPT !["offer"].accept = a],
             psbts' = [psbts EXCEPT !["offer"] = Stateless!BuildFundingPsbt(view["offer"].offer, a)]
      PROVE  MessagesInv'
  <2>1. view["offer"].sign = None /\ view["accept"].sign = None /\ funding = None
    BY <1>1, <1>2 DEF SignOK, FinalOK, FundingOK
  <2>2. /\ ViewOK(view') /\ view'["accept"] = view["accept"]
        /\ view'["offer"].offer = view["offer"].offer /\ view'["offer"].accept = a
        /\ view'["offer"].sign = view["offer"].sign
    <3>1. view' = WithAnswer(view, a)
      BY <1>4 DEF WithAnswer
    <3> QED BY <1>2, <3>1, AnswerIsKept
  <2>3. psbts'["accept"] = psbts["accept"] /\ DOMAIN psbts' = {"offer", "accept"}
    BY <1>2, <1>4 DEF KeptOK
  <2>4. Context(view["offer"].offer, a)
    BY <1>4, FirstFailedIs, ContextIs DEF Context
  <2>5. KeptOK' /\ OfferOK'
    BY <1>1, <1>2, <2>2, <2>3 DEF KeptOK, OfferOK
  <2>6. AcceptOK'
    <3>1. AcceptReady' <=> AcceptReady
      BY ONLY <2>2, <2>3 DEF AcceptReady
    <3>2. setup' = setup
      BY <1>1
    <3> QED BY ONLY <1>2, <2>2, <3>1, <3>2 DEF AcceptOK
  <2>7. AnswerOK'
    BY <1>1, <2>2, <2>4 DEF AnswerOK
  <2>8. SignOK' /\ FinalOK' /\ FundingOK'
    BY <1>1, <2>1, <2>2 DEF SignOK, FinalOK, FundingOK
  <2> QED BY <2>5, <2>6, <2>7, <2>8 DEF MessagesInv
<1> QED BY <1>1, <1>3, <1>4

\* What a party gets for signing inputs of its PSBT.
SigningChecks(p, psbt) ==
    Stateless!ContextChecks(view[p].offer, view[p].accept)
    \o Stateless!PsbtChecks(view[p].offer, view[p].accept, psbt)
AllSigned(S, done) == << <<done = S, "InvalidFundingInput">> >>
SignedPsbts(p, S, psbt) ==
    [psbts EXCEPT ![p].witness =
        [i \in DOMAIN @ |->
            IF i \in {Stateless!OwnIndex(p, j) : j \in S}
            THEN <<Stateless!InputSig(CHOOSE k \in psbt.fund.coins[i].keys : TRUE, psbt.fund, i)>>
            ELSE @[i]]]

\* What sign_funding_psbt leaves.
LEMMA SignFundingPsbtGives ==
    ASSUME NEW p, Stateless!SignFundingPsbt(p)
    PROVE  /\ psbts[p] # None /\ view[p].sign = None
           /\ UNCHANGED <<setup, view, funding>>
           /\ \E S \in SUBSET Stateless!Ordinary(p) :
              \E psbt \in {psbts[p]} \cup Stateless!WrongPsbts(psbts[p]), done \in SUBSET S :
                 /\ Stateless!Given(<<psbts[p], S>>,
                      (Stateless!WrongPsbts(psbts[p]) \X {S}) \cup ({psbts[p]} \X (SUBSET S)),
                      <<psbt, done>>)
                 /\ Stateless!Returns("sign_funding_psbt", p,
                        Stateless!FirstFailed(SigningChecks(p, psbt) \o AllSigned(S, done)))
                 /\ psbts' = IF Stateless!FirstFailed(SigningChecks(p, psbt)) = "ok"
                             THEN SignedPsbts(p, done, psbt) ELSE psbts
  BY DEF Stateless!SignFundingPsbt, SigningChecks, AllSigned, SignedPsbts

\* sign_funding_psbt.
LEMMA SignFundingPsbtKeeps ==
    ASSUME NEW p \in Stateless!Parties
    PROVE  MessagesInv /\ Stateless!SignFundingPsbt(p) => MessagesInv'
<1> SUFFICES ASSUME MessagesInv, Stateless!SignFundingPsbt(p) PROVE MessagesInv'
  OBVIOUS
<1>1. /\ psbts[p] # None /\ UNCHANGED <<setup, view, funding>>
      /\ psbts' = psbts \/ \E S, psbt : psbts' = SignedPsbts(p, S, psbt)
  BY SignFundingPsbtGives
<1>2. ViewOK(view) /\ KeptOK /\ OfferOK /\ AcceptOK /\ AnswerOK /\ SignOK /\ FinalOK /\ FundingOK
  BY DEF MessagesInv, KeptOK
<1>3. /\ DOMAIN psbts' = {"offer", "accept"}
      /\ \A q \in {"offer", "accept"} : q # p => psbts'[q] = psbts[q]
  BY <1>1, <1>2 DEF KeptOK, SignedPsbts, Stateless!Parties
<1>4. p \in {"offer", "accept"}
  BY DEF Stateless!Parties
<1>5. (AcceptReady' => AcceptReady) /\ (OfferReady' => OfferReady)
  BY <1>1, <1>3, <1>4 DEF AcceptReady, OfferReady
<1> QED
  BY <1>1, <1>2, <1>3, <1>5 DEF MessagesInv, KeptOK, OfferOK, AcceptOK, AnswerOK, SignOK, FinalOK, FundingOK

\* What the offering party checks and sends.
SignAcceptChecks(o, a, psbt, prior, key) ==
    Stateless!ContextChecks(o, a) \o Stateless!PsbtChecks(o, a, psbt)
    \o Stateless!OfferFundingChecks(o, a, psbt, prior)
    \o << <<key = o.key, "InvalidOffer">> >>
    \o Stateless!CounterpartyChecks(o, a, a.key, a.refund_sig, a.cet_sigs, "InvalidAccept")
SignMessage(o, a, psbt, prior, key) ==
    [version |-> o.version, contract_id |-> Stateless!ContractId(o, a),
     cet_sigs |-> Stateless!AdaptorSignatures(key, o, a),
     refund_sig |-> Stateless!Sig(key, Stateless!Refund(o, a)),
     funding_signatures |-> Stateless!OfferFundingSignatures(o, a, psbt, prior)]

\* What sign_accept leaves.
LEMMA SignAcceptGives ==
    ASSUME Stateless!SignAccept
    PROVE  LET o == view["offer"].offer
               a == view["offer"].accept
           IN
           /\ view["offer"].accept # None /\ view["offer"].sign = None
           /\ UNCHANGED <<setup, psbts, funding>>
           /\ \E psbt \in {psbts["offer"]} \cup Stateless!WrongPsbts(psbts["offer"]),
                 prior \in {Stateless!PriorKey(p) : p \in Stateless!Parties} \cup {Stateless!Foreign},
                 key \in {FundingKey["offer"], Stateless!Foreign} :
                 /\ LET right == <<psbts["offer"], Stateless!PriorKey("offer"), FundingKey["offer"]>>
                    IN  Stateless!Given(right,
                            {[right EXCEPT ![1] = q] : q \in Stateless!WrongPsbts(psbts["offer"])}
                            \cup {[right EXCEPT ![2] = k] : k \in {Stateless!PriorKey("accept"), Stateless!Foreign}}
                            \cup {[right EXCEPT ![3] = Stateless!Foreign]}, <<psbt, prior, key>>)
                 /\ Stateless!Returns("sign_accept", "offer",
                                      Stateless!FirstFailed(SignAcceptChecks(o, a, psbt, prior, key)))
                 /\ view' = IF Stateless!FirstFailed(SignAcceptChecks(o, a, psbt, prior, key)) # "ok" THEN view
                            ELSE WithSign(view, "offer", SignMessage(o, a, psbt, prior, key))
  BY DEF Stateless!SignAccept, SignAcceptChecks, SignMessage, WithSign

\* What these checks make sure of; o.inputs is a sequence.
HasInputs(m) == Len(m.inputs) \in Nat /\ DOMAIN m.inputs = 1..Len(m.inputs)

\* What sign_accept has checked when it succeeds.
LEMMA SignAcceptChecksAre ==
    ASSUME NEW o, NEW a, NEW psbt, NEW prior, NEW key, HasInputs(o)
    PROVE  /\ SignAcceptChecks(o, a, psbt, prior, key) \in Seq(Check)
           /\ AllPass(SignAcceptChecks(o, a, psbt, prior, key)) <=>
                 /\ Context(o, a) /\ psbt.fund = Stateless!Fund(o, a)
                 /\ AllPass(Stateless!OfferFundingChecks(o, a, psbt, prior))
                 /\ key = o.key
                 /\ a.refund_sig = Stateless!Sig(a.key, Stateless!Refund(o, a))
                 /\ a.cet_sigs = Stateless!AdaptorSignatures(a.key, o, a)
           /\ (/\ Context(o, a) /\ psbt.fund = Stateless!Fund(o, a)
               /\ AllButWitnesses(Stateless!OfferFundingChecks(o, a, psbt, prior))
               /\ key = o.key
               /\ a.refund_sig = Stateless!Sig(a.key, Stateless!Refund(o, a))
               /\ a.cet_sigs = Stateless!AdaptorSignatures(a.key, o, a))
              => AllButWitnesses(SignAcceptChecks(o, a, psbt, prior, key))
<1> DEFINE A == Stateless!ContextChecks(o, a)
           B == Stateless!PsbtChecks(o, a, psbt)
           C == Stateless!OfferFundingChecks(o, a, psbt, prior)
           b == (key = o.key)
           D == << <<b, "InvalidOffer">> >>
           E == Stateless!CounterpartyChecks(o, a, a.key, a.refund_sig, a.cet_sigs, "InvalidAccept")
<1>1. "InvalidOffer" \in Errors /\ "InvalidAccept" \in Errors
  BY DEF Errors
<1>2. A \in Seq(Check) /\ (AllPass(A) <=> Context(o, a))
  BY ContextIs DEF Context
<1>3. B \in Seq(Check) /\ (AllPass(B) <=> psbt.fund = Stateless!Fund(o, a))
  BY PsbtIs
<1>4. C \in Seq(Check)
  BY OfferFundingIs DEF HasInputs
<1>5. D \in Seq(Check) /\ (AllPass(D) <=> key = o.key)
  <2>1. b \in BOOLEAN
    OBVIOUS
  <2> HIDE DEF b
  <2>2. D \in Seq(Check) /\ (AllPass(D) <=> b)
    BY <1>1, <2>1, OneCheck
  <2> QED BY <2>2 DEF b
<1>6. E \in Seq(Check) /\ (AllPass(E) <=> /\ a.refund_sig = Stateless!Sig(a.key, Stateless!Refund(o, a))
                                          /\ a.cet_sigs = Stateless!AdaptorSignatures(a.key, o, a))
  BY <1>1, CounterpartyIs
<1>7. SignAcceptChecks(o, a, psbt, prior, key) = A \o B \o C \o D \o E
  BY DEF SignAcceptChecks
<1> HIDE DEF A, B, C, D, E
<1>8. /\ A \o B \o C \o D \o E \in Seq(Check)
      /\ AllPass(A \o B \o C \o D \o E) <=>
            AllPass(A) /\ AllPass(B) /\ AllPass(C) /\ AllPass(D) /\ AllPass(E)
      /\ AllButWitnesses(A \o B \o C \o D \o E) <=>
            /\ AllButWitnesses(A) /\ AllButWitnesses(B) /\ AllButWitnesses(C)
            /\ AllButWitnesses(D) /\ AllButWitnesses(E)
  BY <1>2, <1>3, <1>4, <1>5, <1>6, FiveRows
<1>9. /\ AllPass(A) => AllButWitnesses(A)
      /\ AllPass(B) => AllButWitnesses(B)
      /\ AllPass(D) => AllButWitnesses(D)
      /\ AllPass(E) => AllButWitnesses(E)
  BY PassingIsEnough
<1>10. AllPass(C) = AllPass(Stateless!OfferFundingChecks(o, a, psbt, prior))
       /\ AllButWitnesses(C) = AllButWitnesses(Stateless!OfferFundingChecks(o, a, psbt, prior))
  BY DEF C
<1> QED BY <1>2, <1>3, <1>5, <1>6, <1>7, <1>8, <1>9, <1>10

\* The offer that its own party keeps.
LEMMA KeptInputs ==
    ASSUME KeptOK, OfferOK, view["offer"].offer # None
    PROVE  /\ HasInputs(view["offer"].offer) /\ view["offer"].offer.key = FundingKey["offer"]
           /\ LegsOK(view["offer"].offer) /\ setup \in Setups /\ view["offer"].offer = setup.terms
  BY SetupIs DEF KeptOK, OfferOK, HasInputs

\* sign_accept.
LEMMA SignAcceptKeeps == MessagesInv /\ Stateless!SignAccept => MessagesInv'
<1> SUFFICES ASSUME MessagesInv, Stateless!SignAccept PROVE MessagesInv'
  OBVIOUS
<1> DEFINE o == view["offer"].offer
           a == view["offer"].accept
<1>1. /\ view["offer"].accept # None /\ view["offer"].sign = None
      /\ UNCHANGED <<setup, psbts, funding>>
      /\ \E psbt, prior, key :
            view' = IF Stateless!FirstFailed(SignAcceptChecks(o, a, psbt, prior, key)) # "ok" THEN view
                    ELSE WithSign(view, "offer", SignMessage(o, a, psbt, prior, key))
  BY SignAcceptGives
<1>2. ViewOK(view) /\ KeptOK /\ OfferOK /\ AcceptOK /\ AnswerOK /\ SignOK /\ FinalOK /\ FundingOK
  BY DEF MessagesInv, KeptOK
<1> HIDE DEF o, a
<1>3. CASE view' = view
  BY <1>1, <1>2, <1>3 DEF MessagesInv, KeptOK, OfferOK, AcceptOK, AnswerOK, SignOK, FinalOK, FundingOK,
     AcceptReady, OfferReady
<1>4. ASSUME NEW psbt, NEW prior, NEW key,
             Stateless!FirstFailed(SignAcceptChecks(o, a, psbt, prior, key)) = "ok",
             view' = WithSign(view, "offer", SignMessage(o, a, psbt, prior, key))
      PROVE  MessagesInv'
  <2> DEFINE s == SignMessage(o, a, psbt, prior, key)
  <2>1. view["accept"].sign = None /\ funding = None
    BY <1>1, <1>2 DEF FinalOK, FundingOK
  <2>2. /\ ViewOK(view') /\ view'["accept"] = view["accept"]
        /\ view'["offer"].offer = o /\ view'["offer"].accept = a
        /\ view'["offer"].sign = s
    <3> HIDE DEF s
    <3>1. view' = WithSign(view, "offer", s)
      BY <1>4 DEF s
    <3>2. /\ ViewOK(view') /\ \A q \in {"offer", "accept"} : q # "offer" => view'[q] = view[q]
          /\ view'["offer"].offer = view["offer"].offer /\ view'["offer"].accept = view["offer"].accept
          /\ view'["offer"].sign = s
      BY <1>2, <3>1, SignIsKept
    <3> QED BY <3>2 DEF o, a
  <2>3. OfferReady /\ view["offer"].offer # None
    BY <1>1, <1>2 DEF OfferReady, AnswerOK, AcceptOK, AcceptReady
  <2>4. HasInputs(o)
    BY <1>2, <2>3, KeptInputs DEF o
  <2>5. /\ Context(o, a) /\ key = o.key
        /\ a.refund_sig = Stateless!Sig(a.key, Stateless!Refund(o, a))
        /\ a.cet_sigs = Stateless!AdaptorSignatures(a.key, o, a)
    <3> DEFINE C == SignAcceptChecks(o, a, psbt, prior, key)
    <3>1. C \in Seq(Check)
      BY <2>4, SignAcceptChecksAre
    <3>2. Stateless!FirstFailed(C) = "ok"
      BY <1>4
    <3> HIDE DEF C
    <3>3. AllPass(C)
      BY <3>1, <3>2, FirstFailedIs
    <3> QED BY <3>3, <2>4, SignAcceptChecksAre DEF C
  <2>6. Accepted(o, a)
    BY <2>5 DEF Accepted
  <2>7. o.version = 1
    BY <2>5, ContextIs DEF Context
  <2>8. SignedBy(o, a, s) /\ "contract_id" \in DOMAIN s
    BY <2>5, <2>7 DEF SignedBy, SignMessage
  <2> HIDE DEF s
  <2>9. KeptOK' /\ OfferOK' /\ AcceptOK' /\ AnswerOK'
    BY <1>1, <1>2, <2>2 DEF KeptOK, OfferOK, AcceptOK, AnswerOK, AcceptReady, OfferReady, o, a
  <2>10. SignOK'
    BY <1>1, <2>2, <2>6, <2>8 DEF SignOK, a
  <2>11. FinalOK' /\ FundingOK'
    BY <1>1, <2>1, <2>2 DEF FinalOK, FundingOK
  <2> QED BY <2>9, <2>10, <2>11 DEF MessagesInv
<1> QED BY <1>1, <1>3, <1>4

\* What the accepting party checks, and the transaction it makes.
FinalizeChecks(o, a, s, psbt, prior) ==
    Stateless!ContextChecks(o, a) \o Stateless!PsbtChecks(o, a, psbt)
    \o Stateless!AcceptFundingChecks(o, a, psbt)
    \o Stateless!SignMessageChecks(o, a, s)
    \o << <<Len(s.funding_signatures) = Len(o.inputs), "InvalidSign">> >>
    \o Stateless!CounterpartyChecks(o, a, o.key, s.refund_sig, s.cet_sigs, "InvalidSign")
    \o Stateless!OfferWitnessChecks(o, a, s, prior)
FinalFunding(o, a, s, psbt, prior) ==
    [fund |-> Stateless!Fund(o, a), witness |-> Stateless!FundingWitness(o, a, s, psbt, prior)]

\* What finalize_sign leaves.
LEMMA FinalizeSignGives ==
    ASSUME Stateless!FinalizeSign
    PROVE  LET o == view["accept"].offer
               a == view["accept"].accept
           IN
           /\ view["offer"].sign # None /\ view["accept"].sign = None
           /\ UNCHANGED <<setup, psbts>>
           /\ \E s \in {view["offer"].sign} \cup Stateless!WrongSigns(view["offer"].sign),
                 psbt \in {psbts["accept"]} \cup Stateless!WrongPsbts(psbts["accept"]),
                 prior \in {Stateless!PriorKey(p) : p \in Stateless!Parties} \cup {Stateless!Foreign} :
                 /\ LET right == <<view["offer"].sign, psbts["accept"], Stateless!PriorKey("accept")>>
                    IN  Stateless!Given(right,
                            {[right EXCEPT ![1] = m] : m \in Stateless!WrongSigns(view["offer"].sign)}
                            \cup {[right EXCEPT ![2] = q] : q \in Stateless!WrongPsbts(psbts["accept"])}
                            \cup {[right EXCEPT ![3] = k] : k \in {Stateless!PriorKey("offer"), Stateless!Foreign}},
                            <<s, psbt, prior>>)
                 /\ Stateless!Returns("finalize_sign", "accept",
                                      Stateless!FirstFailed(FinalizeChecks(o, a, s, psbt, prior)))
                 /\ IF Stateless!FirstFailed(FinalizeChecks(o, a, s, psbt, prior)) = "ok"
                    THEN /\ view' = WithSign(view, "accept", s)
                         /\ funding' = FinalFunding(o, a, s, psbt, prior)
                    ELSE UNCHANGED <<view, funding>>
  BY DEF Stateless!FinalizeSign, FinalizeChecks, FinalFunding, WithSign

\* All but the own witnesses.
FinalizeOK(o, a, s, psbt, prior) ==
    /\ Context(o, a) /\ psbt.fund = Stateless!Fund(o, a)
    /\ s.version = 1 /\ s.contract_id = Stateless!ContractId(o, a)
    /\ Len(s.funding_signatures) = Len(o.inputs)
    /\ s.refund_sig = Stateless!Sig(o.key, Stateless!Refund(o, a))
    /\ s.cet_sigs = Stateless!AdaptorSignatures(o.key, o, a)
    /\ AllPass(Stateless!OfferWitnessChecks(o, a, s, prior))

\* What finalize_sign has checked when it succeeds.
LEMMA FinalizeChecksAre ==
    ASSUME NEW o, NEW a, NEW s, NEW psbt, NEW prior, HasInputs(a)
    PROVE  /\ FinalizeChecks(o, a, s, psbt, prior) \in Seq(Check)
           /\ AllPass(FinalizeChecks(o, a, s, psbt, prior)) <=>
                 FinalizeOK(o, a, s, psbt, prior) /\ AllPass(Stateless!AcceptFundingChecks(o, a, psbt))
           /\ FinalizeOK(o, a, s, psbt, prior) => AllButWitnesses(FinalizeChecks(o, a, s, psbt, prior))
<1> DEFINE A == Stateless!ContextChecks(o, a)
           B == Stateless!PsbtChecks(o, a, psbt)
           C == Stateless!AcceptFundingChecks(o, a, psbt)
           D == Stateless!SignMessageChecks(o, a, s)
           b == (Len(s.funding_signatures) = Len(o.inputs))
           E == << <<b, "InvalidSign">> >>
           F == Stateless!CounterpartyChecks(o, a, o.key, s.refund_sig, s.cet_sigs, "InvalidSign")
           G == Stateless!OfferWitnessChecks(o, a, s, prior)
<1>1. "InvalidSign" \in Errors
  BY DEF Errors
<1>2. A \in Seq(Check) /\ (AllPass(A) <=> Context(o, a))
  BY ContextIs DEF Context
<1>3. B \in Seq(Check) /\ (AllPass(B) <=> psbt.fund = Stateless!Fund(o, a))
  BY PsbtIs
<1>4. C \in Seq(Check) /\ AllButWitnesses(C)
  BY AcceptFundingIs DEF HasInputs
<1>5. D \in Seq(Check) /\ (AllPass(D) <=> s.version = 1 /\ s.contract_id = Stateless!ContractId(o, a))
  BY SignMessageIs
<1>6. E \in Seq(Check) /\ (AllPass(E) <=> Len(s.funding_signatures) = Len(o.inputs))
  <2>1. b \in BOOLEAN
    OBVIOUS
  <2> HIDE DEF b
  <2>2. E \in Seq(Check) /\ (AllPass(E) <=> b)
    BY <1>1, <2>1, OneCheck
  <2> QED BY <2>2 DEF b
<1>7. F \in Seq(Check) /\ (AllPass(F) <=> /\ s.refund_sig = Stateless!Sig(o.key, Stateless!Refund(o, a))
                                          /\ s.cet_sigs = Stateless!AdaptorSignatures(o.key, o, a))
  BY <1>1, CounterpartyIs
<1>8. G \in Seq(Check)
  BY OfferWitnessIs
<1>9. FinalizeChecks(o, a, s, psbt, prior) = A \o B \o C \o D \o E \o F \o G
  BY DEF FinalizeChecks
<1>10. FinalizeOK(o, a, s, psbt, prior) <=>
          /\ AllPass(A) /\ AllPass(B) /\ AllPass(D) /\ AllPass(E) /\ AllPass(F) /\ AllPass(G)
  <2>1. AllPass(G) = AllPass(Stateless!OfferWitnessChecks(o, a, s, prior))
    OBVIOUS
  <2> HIDE DEF A, B, C, D, E, F, G
  <2> QED BY <1>2, <1>3, <1>5, <1>6, <1>7, <2>1 DEF FinalizeOK
<1>11. AllPass(C) = AllPass(Stateless!AcceptFundingChecks(o, a, psbt))
  OBVIOUS
<1> HIDE DEF A, B, C, D, E, F, G
<1>12. /\ A \o B \o C \o D \o E \o F \o G \in Seq(Check)
       /\ AllPass(A \o B \o C \o D \o E \o F \o G) <=>
             /\ AllPass(A) /\ AllPass(B) /\ AllPass(C) /\ AllPass(D)
             /\ AllPass(E) /\ AllPass(F) /\ AllPass(G)
       /\ AllButWitnesses(A \o B \o C \o D \o E \o F \o G) <=>
             /\ AllButWitnesses(A) /\ AllButWitnesses(B) /\ AllButWitnesses(C) /\ AllButWitnesses(D)
             /\ AllButWitnesses(E) /\ AllButWitnesses(F) /\ AllButWitnesses(G)
  <2>1. /\ A \in Seq(Check) /\ B \in Seq(Check) /\ C \in Seq(Check) /\ D \in Seq(Check)
        /\ E \in Seq(Check) /\ F \in Seq(Check) /\ G \in Seq(Check)
    BY <1>2, <1>3, <1>4, <1>5, <1>6, <1>7, <1>8
  <2> DEFINE H == A \o B \o C \o D \o E
  <2>2. /\ H \in Seq(Check)
        /\ AllPass(H) <=> AllPass(A) /\ AllPass(B) /\ AllPass(C) /\ AllPass(D) /\ AllPass(E)
        /\ AllButWitnesses(H) <=>
              /\ AllButWitnesses(A) /\ AllButWitnesses(B) /\ AllButWitnesses(C)
              /\ AllButWitnesses(D) /\ AllButWitnesses(E)
    BY <2>1, FiveRows
  <2> HIDE DEF H
  <2>3. /\ H \o F \o G \in Seq(Check)
        /\ AllPass(H \o F \o G) <=> AllPass(H) /\ AllPass(F) /\ AllPass(G)
        /\ AllButWitnesses(H \o F \o G) <=>
              AllButWitnesses(H) /\ AllButWitnesses(F) /\ AllButWitnesses(G)
    BY <2>1, <2>2, ThreeRows
  <2> QED BY <2>2, <2>3 DEF H
<1>13. /\ AllPass(A) => AllButWitnesses(A)
       /\ AllPass(B) => AllButWitnesses(B)
       /\ AllPass(D) => AllButWitnesses(D)
       /\ AllPass(E) => AllButWitnesses(E)
       /\ AllPass(F) => AllButWitnesses(F)
       /\ AllPass(G) => AllButWitnesses(G)
  BY PassingIsEnough
<1> QED BY <1>4, <1>9, <1>10, <1>11, <1>12, <1>13

\* A message that was changed on its way has the contract's id at most changed
\* in the temporary id.
LEMMA WrongSignIs ==
    ASSUME NEW m, "contract_id" \in DOMAIN m, 1 \in DOMAIN m.contract_id,
           NEW s \in {m} \cup Stateless!WrongSigns(m)
    PROVE  s.contract_id[1] = m.contract_id[1]
<1>1. \/ s = m
      \/ s = [m EXCEPT !.version = @ + 1]
      \/ s = [m EXCEPT !.contract_id[2] = Stateless!Foreign]
      \/ \E i \in DOMAIN m.funding_signatures :
            s = [m EXCEPT !.funding_signatures[i] = <<Stateless!Sig(Stateless!Foreign, None)>>]
      \/ s = [m EXCEPT !.refund_sig.over = None]
      \/ \E i \in DOMAIN m.cet_sigs : s = [m EXCEPT !.cet_sigs[i].over = None]
  BY DEF Stateless!WrongSigns, Stateless!WithWrongSigs
<1>2. CASE s = [m EXCEPT !.contract_id[2] = Stateless!Foreign]
  <2>1. s.contract_id = [m.contract_id EXCEPT ![2] = Stateless!Foreign]
    BY <1>2
  <2>2. \A f : 1 \in DOMAIN f => [f EXCEPT ![2] = Stateless!Foreign][1] = f[1]
    OBVIOUS
  <2> QED BY <2>1, <2>2
<1>3. CASE s # [m EXCEPT !.contract_id[2] = Stateless!Foreign]
  <2>1. s.contract_id = m.contract_id
    BY <1>1, <1>3
  <2> QED BY <2>1
<1> QED BY <1>2, <1>3

\* finalize_sign.
LEMMA FinalizeSignKeeps == MessagesInv /\ Stateless!FinalizeSign => MessagesInv'
<1> SUFFICES ASSUME MessagesInv, Stateless!FinalizeSign PROVE MessagesInv'
  OBVIOUS
<1> DEFINE o == view["accept"].offer
           a == view["accept"].accept
           m == view["offer"].sign
<1>1. /\ view["offer"].sign # None /\ view["accept"].sign = None
      /\ UNCHANGED <<setup, psbts>>
      /\ \E s \in {m} \cup Stateless!WrongSigns(m) : \E psbt, prior :
            IF Stateless!FirstFailed(FinalizeChecks(o, a, s, psbt, prior)) = "ok"
            THEN view' = WithSign(view, "accept", s) /\ funding' = FinalFunding(o, a, s, psbt, prior)
            ELSE UNCHANGED <<view, funding>>
  BY FinalizeSignGives
<1>2. ViewOK(view) /\ KeptOK /\ OfferOK /\ AcceptOK /\ AnswerOK /\ SignOK /\ FinalOK /\ FundingOK
  BY DEF MessagesInv, KeptOK
<1> HIDE DEF o, a, m
<1>3. CASE view' = view /\ funding' = funding
  BY <1>1, <1>2, <1>3 DEF MessagesInv, KeptOK, OfferOK, AcceptOK, AnswerOK, SignOK, FinalOK, FundingOK,
     AcceptReady, OfferReady
<1>4. ASSUME NEW s \in {m} \cup Stateless!WrongSigns(m), NEW psbt, NEW prior,
             Stateless!FirstFailed(FinalizeChecks(o, a, s, psbt, prior)) = "ok",
             view' = WithSign(view, "accept", s), funding' = FinalFunding(o, a, s, psbt, prior)
      PROVE  MessagesInv'
  <2>1. /\ view["offer"].accept # None /\ view["accept"].accept # None /\ OfferReady /\ AcceptReady
        /\ view["offer"].offer # None
    BY <1>1, <1>2 DEF SignOK, AnswerOK, AcceptOK, OfferReady, AcceptReady
  <2>2. /\ ViewOK(view') /\ view'["offer"] = view["offer"]
        /\ view'["accept"].offer = o /\ view'["accept"].accept = a
        /\ view'["accept"].sign = s
    <3>1. /\ ViewOK(view') /\ \A q \in {"offer", "accept"} : q # "accept" => view'[q] = view[q]
          /\ view'["accept"].offer = view["accept"].offer /\ view'["accept"].accept = view["accept"].accept
          /\ view'["accept"].sign = s
      BY <1>2, <1>4, SignIsKept
    <3> QED BY <3>1 DEF o, a
  <2>3. HasInputs(a)
    <3>1. a.inputs = setup.accept_inputs /\ setup \in Setups
      BY <1>2, <2>1 DEF AcceptOK, KeptOK, a
    <3> QED BY <3>1, SetupIs DEF HasInputs
  <2>4. FinalizeOK(o, a, s, psbt, prior)
    <3> DEFINE C == FinalizeChecks(o, a, s, psbt, prior)
    <3>1. C \in Seq(Check) /\ Stateless!FirstFailed(C) = "ok"
      BY <1>4, <2>3, FinalizeChecksAre
    <3> HIDE DEF C
    <3>2. AllPass(C)
      BY <3>1, FirstFailedIs
    <3> QED BY <3>2, <2>3, FinalizeChecksAre DEF C
  <2>5. SignedBy(o, a, s)
    BY <2>4 DEF FinalizeOK, SignedBy
  <2>6. Stateless!Fund(o, a) = Stateless!Fund(view["offer"].offer, view["offer"].accept)
    <3>1. "contract_id" \in DOMAIN m /\ m.contract_id = Stateless!ContractId(view["offer"].offer, view["offer"].accept)
      BY <1>1, <1>2 DEF SignOK, SignedBy, m
    <3>2. s.contract_id[1] = m.contract_id[1]
      <4>1. 1 \in DOMAIN m.contract_id
        BY <3>1 DEF Stateless!ContractId
      <4> QED BY <1>4, <3>1, <4>1, WrongSignIs
    <3>3. s.contract_id = Stateless!ContractId(o, a)
      BY <2>5 DEF SignedBy
    <3> QED BY <3>1, <3>2, <3>3 DEF Stateless!ContractId
  <2>7. funding'.fund = Stateless!Fund(o, a)
    BY <1>4 DEF FinalFunding
  <2>8. KeptOK' /\ OfferOK'
    BY <1>1, <1>2, <2>2 DEF KeptOK, OfferOK
  <2>9. AcceptOK'
    BY <1>1, <1>2, <2>1, <2>2 DEF AcceptOK, o, a
  <2>10. AnswerOK' /\ SignOK'
    BY <1>1, <1>2, <2>1, <2>2 DEF AnswerOK, SignOK, OfferReady, a
  <2>11. FinalOK'
    BY <1>1, <2>2, <2>5 DEF FinalOK
  <2>12. FundingOK'
    BY <1>1, <2>2, <2>6, <2>7 DEF FundingOK
  <2> QED BY <2>8, <2>9, <2>10, <2>11, <2>12 DEF MessagesInv
<1> QED BY <1>1, <1>3, <1>4

\* sign_refund and sign_cet change no message.
LEMMA SettlingKeeps ==
    MessagesInv /\ UNCHANGED <<setup, view, psbts, funding>> => MessagesInv'
  BY DEF MessagesInv, KeptOK, OfferOK, AcceptOK, AnswerOK, SignOK, FinalOK, FundingOK, AcceptReady, OfferReady

\* Every call.
LEMMA MessagesInvNext == MessagesInv /\ Stateless!Next => MessagesInv'
<1> SUFFICES ASSUME MessagesInv, Stateless!Next PROVE MessagesInv'
  OBVIOUS
<1>1. CASE Stateless!CreateOffer
  BY <1>1, CreateOfferKeeps
<1>2. CASE Stateless!AcceptOffer
  BY <1>2, AcceptOfferKeeps
<1>3. CASE Stateless!CreateFundingPsbt
  BY <1>3, CreateFundingPsbtKeeps
<1>4. CASE Stateless!SignAccept
  BY <1>4, SignAcceptKeeps
<1>5. CASE Stateless!FinalizeSign
  BY <1>5, FinalizeSignKeeps
<1>6. ASSUME NEW p \in Stateless!Parties, Stateless!SignFundingPsbt(p) PROVE MessagesInv'
  BY <1>6, SignFundingPsbtKeeps
<1>7. ASSUME NEW p \in Stateless!Parties, Stateless!SignRefund(p) \/ Stateless!SignCet(p) PROVE MessagesInv'
  <2>1. UNCHANGED <<setup, view, psbts, funding>>
    BY <1>7 DEF Stateless!SignRefund, Stateless!SignCet
  <2> QED BY <2>1, SettlingKeeps
<1> QED BY <1>1, <1>2, <1>3, <1>4, <1>5, <1>6, <1>7 DEF Stateless!Next

-----------------------------------------------------------------------------
(***************************************************************************)
(* A party that keeps all three messages can refund and settle.            *)
(***************************************************************************)
LEMMA PartyIsReady ==
    ASSUME MessagesInv, NEW p \in Stateless!Parties, view[p].sign # None
    PROVE  /\ Messages(view[p].offer, view[p].accept, view[p].sign, p, FundingKey[p])
           /\ LegsOK(view[p].offer)
<1>1. KeptOK /\ OfferOK /\ AcceptOK /\ AnswerOK /\ SignOK /\ FinalOK
  BY DEF MessagesInv
<1>2. CASE p = "offer"
  <2>1. view["offer"].accept # None /\ OfferReady
    BY <1>1, <1>2 DEF SignOK, OfferReady
  <2>2. view["accept"].accept # None /\ AcceptReady
    BY <1>1, <2>1 DEF AnswerOK, AcceptReady
  <2>3. view["offer"].offer # None
    BY <1>1, <2>2 DEF AcceptOK
  <2>4. view["offer"].offer.key = FundingKey["offer"] /\ LegsOK(view["offer"].offer)
    BY <1>1, <2>3, KeptInputs
  <2>5. /\ Accepted(view["offer"].offer, view["offer"].accept)
        /\ SignedBy(view["offer"].offer, view["offer"].accept, view["offer"].sign)
    BY <1>1, <1>2 DEF SignOK
  <2> QED BY <1>2, <2>4, <2>5 DEF Messages, KeyOf, Stateless!SettlingParty
<1>3. CASE p = "accept"
  <2>1. view["offer"].sign # None /\ SignedBy(view["accept"].offer, view["accept"].accept, view["accept"].sign)
    BY <1>1, <1>3 DEF FinalOK
  <2>2. view["accept"].accept # None /\ AcceptReady
    BY <1>1, <2>1 DEF SignOK, AnswerOK, OfferReady, AcceptReady
  <2>3. /\ LegsOK(view["accept"].offer) /\ view["accept"].offer.key # FundingKey["accept"]
        /\ view["accept"].accept.key = FundingKey["accept"]
        /\ Accepted(view["accept"].offer, view["accept"].accept)
    BY <1>1, <2>2 DEF AcceptOK
  <2> QED BY <1>3, <2>1, <2>3 DEF Messages, KeyOf, Stateless!SettlingParty
<1> QED BY <1>2, <1>3 DEF Stateless!Parties

\* A leg is settled with the attestations of any quorum, in order.
LEMMA LegSettles ==
    ASSUME NEW o, NEW a, NEW s, NEW p, NEW key, Messages(o, a, s, p, key), LegsOK(o),
           NEW k \in DOMAIN o.legs, NEW x \in DOMAIN o.legs[k].outcomes,
           NEW Q \in Stateless!kSubset(o.legs[k].threshold, 0..(o.legs[k].oracles - 1)),
           NEW heard \in Stateless!InOrder(Q), NEW outcome, outcome = o.legs[k].outcomes[x].outcome,
           NEW got, got = Got(o.legs[k], heard, outcome),
           \A l \in 1..(k - 1) : ~Stateless!Resolves(o.legs[l], got, outcome)
    PROVE  \A cet \in Stateless!CetsOf(o, a, s, key, got) :
               /\ cet.error = "ok" /\ Stateless!Spends(cet.tx, cet.sigs)
               /\ cet.tx.payout = o.legs[k].outcomes[x].payout
<1>1. k \in 1..Len(o.legs) /\ x \in 1..Len(o.legs[k].outcomes)
  BY DEF LegsOK
<1>2. o.legs[k].oracles \in Nat /\ o.legs[k].threshold \in 1..o.legs[k].oracles
  BY <1>1 DEF LegsOK, Quorate
<1>3. Q \in kSubset(o.legs[k].threshold, 0..(o.legs[k].oracles - 1))
  BY StatelessSequences
<1>4. heard \in Selectors(o.legs[k].oracles, o.legs[k].threshold)
  BY <1>2, <1>3, InOrderSelects
<1>5. Attested(o, k, x, heard, outcome, got)
  BY <1>1, <1>4 DEF Attested
<1> QED BY <1>5, CetIsReady

\* The checked messages suffice to refund, and to settle every outcome.
LEMMA MessagesCover == MessagesInv => Stateless!CommittedIsCovered
<1> SUFFICES ASSUME MessagesInv PROVE Stateless!CommittedIsCovered
  OBVIOUS
<1>1. funding # None => funding.fund = Stateless!Fund(view["offer"].offer, view["offer"].accept)
  BY DEF MessagesInv, FundingOK
<1>2. ASSUME NEW p \in Stateless!Parties, view[p].sign # None
      PROVE  LET refund == Stateless!RefundOf(view[p].offer, view[p].accept, view[p].sign, FundingKey[p])
             IN  refund.error = "ok" /\ Stateless!Spends(refund.tx, refund.sigs)
  <2>1. Messages(view[p].offer, view[p].accept, view[p].sign, p, FundingKey[p])
    BY <1>2, PartyIsReady
  <2> QED BY ONLY <2>1, RefundIsReady
<1>3. ASSUME NEW p \in Stateless!Parties, view[p].sign # None,
             NEW k \in DOMAIN view[p].offer.legs, NEW x \in DOMAIN view[p].offer.legs[k].outcomes
      PROVE  Stateless!Settleable(p, k, x)
  <2> DEFINE o == view[p].offer
             a == view[p].accept
             s == view[p].sign
             outcome == o.legs[k].outcomes[x].outcome
             got(heard) == [i \in DOMAIN heard |->
                 [index |-> heard[i], event |-> o.legs[k].event, oracle |-> heard[i], outcome |-> outcome]]
  <2>1. Messages(o, a, s, p, FundingKey[p]) /\ LegsOK(o)
    BY <1>3, PartyIsReady
  <2>2. ASSUME NEW Q \in Stateless!kSubset(o.legs[k].threshold, 0..(o.legs[k].oracles - 1)),
               NEW heard \in Stateless!InOrder(Q),
               \A l \in 1..(k - 1) : ~Stateless!Resolves(o.legs[l], got(heard), outcome)
        PROVE  \A cet \in Stateless!CetsOf(o, a, s, FundingKey[p], got(heard)) :
                   /\ cet.error = "ok" /\ Stateless!Spends(cet.tx, cet.sigs)
                   /\ cet.tx.payout = o.legs[k].outcomes[x].payout
    <3>1. k \in DOMAIN o.legs /\ x \in DOMAIN o.legs[k].outcomes
      BY <1>3
    <3>2. got(heard) = Got(o.legs[k], heard, outcome)
      BY ONLY Zenon DEF Got
    <3> DEFINE g == got(heard)
    <3>3. \A l \in 1..(k - 1) : ~Stateless!Resolves(o.legs[l], g, outcome)
      BY <2>2
    <3>4. outcome = o.legs[k].outcomes[x].outcome
      OBVIOUS
    <3> HIDE DEF o, a, s, outcome, got, g
    <3>5. g = Got(o.legs[k], heard, outcome)
      BY <3>2 DEF g
    <3>6. \A cet \in Stateless!CetsOf(o, a, s, FundingKey[p], g) :
                   /\ cet.error = "ok" /\ Stateless!Spends(cet.tx, cet.sigs)
                   /\ cet.tx.payout = o.legs[k].outcomes[x].payout
      BY <2>1, <2>2, <3>1, <3>3, <3>4, <3>5, LegSettles
    <3> QED BY <3>6 DEF g
  <2> QED BY <2>2 DEF Stateless!Settleable
<1> QED BY <1>1, <1>2, <1>3 DEF Stateless!CommittedIsCovered

-----------------------------------------------------------------------------
(***************************************************************************)
(* Where the inputs of each party are in the funding transaction.          *)
(***************************************************************************)
Ordered(n, all, ids, F) ==
    /\ n \in Nat /\ DOMAIN all = 1..n /\ DOMAIN ids = 1..n
    /\ \A i \in 1..n : ids[i] \in Int /\ ids[i] = all[i].serial
    /\ \A i, j \in 1..n : ids[i] = ids[j] => i = j
    /\ F = OrderBySerialIds(all, ids)

\* All of them are there, each at a place of its own.
Arranged(n, all, F) ==
    /\ DOMAIN F = 1..n
    /\ \A k \in 1..n : \E j \in 1..n : F[k] = all[j]
    /\ \A j \in 1..n : \E k \in 1..n : F[k] = all[j]
    /\ \A k, l \in 1..n : F[k].serial = F[l].serial => k = l

\* Distinct serial ids order the inputs, each at a place of its own.
LEMMA OrderedInputs ==
    ASSUME NEW n, NEW all, NEW ids, NEW F, Ordered(n, all, ids, F)
    PROVE  Arranged(n, all, F)
<1> DEFINE c(k) == CHOOSE i \in DOMAIN all : Place(ids, i) = k
<1> USE DEF Ordered
<1>1. DOMAIN F = 1..n /\ \A k \in 1..n : F[k] = all[c(k)]
  BY DEF OrderBySerialIds
<1>3. \A k \in 1..n : c(k) \in 1..n /\ Place(ids, c(k)) = k
  <2>1. \A k \in 1..n : \E i \in 1..n : Place(ids, i) = k
    BY PlacesAreTaken
  <2> QED BY <2>1
<1>4. /\ \A i \in 1..n : Place(ids, i) \in 1..n
      /\ \A i, j \in 1..n : Place(ids, i) = Place(ids, j) => i = j
  BY PlacesAreDistinct
<1> HIDE DEF c
<1>5. ASSUME NEW j \in 1..n PROVE \E k \in 1..n : F[k] = all[j]
  <2>1. Place(ids, j) \in 1..n /\ c(Place(ids, j)) = j
    BY <1>3, <1>4
  <2> QED BY <1>1, <2>1
<1>6. \A i \in 1..n : ids[i] = all[i].serial
  BY DEF Ordered
<1>7. ASSUME NEW k \in 1..n, NEW l \in 1..n, F[k].serial = F[l].serial PROVE k = l
  <2>1. ids[c(k)] = ids[c(l)]
    BY <1>1, <1>3, <1>6, <1>7
  <2>2. c(k) = c(l)
    BY <1>3, <2>1
  <2> QED BY <1>3, <2>2
<1>8. \A k \in 1..n : \E j \in 1..n : F[k] = all[j]
  BY ONLY <1>1, <1>3
<1> QED BY ONLY <1>1, <1>5, <1>7, <1>8 DEF Arranged

\* Two users agree on terms, and the context of the messages holds.
Agreement(o, a) ==
    /\ setup \in Setups /\ o = setup.terms /\ a.inputs = setup.accept_inputs /\ Context(o, a)
\* funding_input_index finds the place of an input.
Index(o, a, input) == Stateless!FundingInputIndex(o, a, input.serial)
At(o, a, input, i) ==
    /\ i \in DOMAIN Stateless!FundingInputs(o, a)
    /\ Stateless!FundingInputs(o, a)[i] = input /\ Index(o, a, input) = i

\* The inputs of both parties, the offering one first.
LEMMA InputsOfBoth ==
    ASSUME NEW o, NEW a, Agreement(o, a), NEW all, all = Stateless!AllInputs(o, a),
           NEW m, m = Len(o.inputs), NEW l, l = Len(a.inputs)
    PROVE  /\ m \in Nat /\ l \in Nat /\ m + l \in Nat
           /\ DOMAIN o.inputs = 1..m /\ DOMAIN a.inputs = 1..l /\ DOMAIN all = 1..(m + l)
           /\ \A i \in 1..m : all[i] = o.inputs[i]
           /\ \A i \in 1..l : all[m + i] = a.inputs[i]
           /\ \A i \in 1..(m + l) : i \in 1..m \/ \E j \in 1..l : i = m + j
           /\ \A i \in 1..m : ValidInput(o.inputs[i])
           /\ \A i \in 1..l : ValidInput(a.inputs[i])
<1>1. ValidInputs(o.inputs) /\ ValidInputs(a.inputs)
  <2>1. ValidSetup(setup)
    BY ExchangeAssumption DEF Agreement
  <2> QED BY <2>1 DEF ValidSetup, Agreement
<1> DEFINE x == o.inputs
           y == a.inputs
           S == ToSet(x) \cup ToSet(y)
<1>2. x \in Seq(ToSet(x)) /\ y \in Seq(ToSet(y))
  BY <1>1 DEF ValidInputs
<1>3. all = x \o y
  BY DEF Stateless!AllInputs
<1> HIDE DEF x, y
<1>4. x \in Seq(S) /\ y \in Seq(S)
  BY <1>2
<1> HIDE DEF S
<1>5. m = Len(x) /\ l = Len(y)
  BY DEF x, y
<1>6. /\ m \in Nat /\ l \in Nat /\ m + l \in Nat
      /\ DOMAIN x = 1..m /\ DOMAIN y = 1..l /\ DOMAIN all = 1..(m + l)
      /\ \A i \in 1..m : all[i] = x[i]
      /\ \A i \in 1..l : all[m + i] = y[i]
  BY <1>3, <1>4, <1>5
<1>7. \A i \in 1..(m + l) : i \in 1..m \/ \E j \in 1..l : i = m + j
  <2> SUFFICES ASSUME NEW i \in 1..(m + l), i \notin 1..m PROVE \E j \in 1..l : i = m + j
    OBVIOUS
  <2>1. m \in Nat /\ l \in Nat
    BY <1>6
  <2>2. i - m \in 1..l /\ i = m + (i - m)
    BY ONLY <2>1, i \in 1..(m + l), i \notin 1..m
  <2> QED BY <2>2
<1>8. (\A i \in 1..m : ValidInput(x[i])) /\ \A i \in 1..l : ValidInput(y[i])
  BY <1>1, <1>6 DEF ValidInputs, x, y
<1> QED BY <1>6, <1>7, <1>8 DEF x, y

\* Each input has its place in the funding transaction, and funding_input_index finds it.
LEMMA AgreedInputs ==
    ASSUME NEW o, NEW a, Agreement(o, a), NEW F, F = Stateless!FundingInputs(o, a)
    PROVE  /\ \A i \in DOMAIN o.inputs : \E x : At(o, a, o.inputs[i], x)
           /\ \A i \in DOMAIN a.inputs : \E x : At(o, a, a.inputs[i], x)
           /\ \A x \in DOMAIN F : \/ \E i \in DOMAIN o.inputs : At(o, a, o.inputs[i], x)
                                  \/ \E i \in DOMAIN a.inputs : At(o, a, a.inputs[i], x)
           /\ \A x \in DOMAIN F : \A i \in DOMAIN o.inputs :
                 o.inputs[i].serial = F[x].serial => At(o, a, o.inputs[i], x)
<1> DEFINE all == Stateless!AllInputs(o, a)
           m == Len(o.inputs)
           l == Len(a.inputs)
           n == m + l
           ids == Stateless!SerialIds(all)
<1>1. /\ m \in Nat /\ l \in Nat /\ n \in Nat
      /\ DOMAIN o.inputs = 1..m /\ DOMAIN a.inputs = 1..l /\ DOMAIN all = 1..n
      /\ \A i \in 1..m : all[i] = o.inputs[i]
      /\ \A i \in 1..l : all[m + i] = a.inputs[i]
      /\ \A i \in 1..n : i \in 1..m \/ \E j \in 1..l : i = m + j
      /\ \A i \in 1..m : ValidInput(o.inputs[i])
      /\ \A i \in 1..l : ValidInput(a.inputs[i])
  BY InputsOfBoth
<1>2. F = OrderBySerialIds(all, ids)
  BY StatelessOrder DEF Stateless!FundingInputs
<1>3. Stateless!UniqueSerialIds(all)
  BY ContextIs DEF Agreement, Context
<1> HIDE DEF all, m, l
<1>4. DOMAIN ids = 1..n /\ \A i \in 1..n : ids[i] = all[i].serial
  BY <1>1 DEF Stateless!SerialIds
<1>5. \A i, j \in 1..n : ids[i] = ids[j] => i = j
  <2>1. Stateless!IsInjective(ids)
    BY <1>3 DEF Stateless!UniqueSerialIds
  <2>2. DOMAIN ids = 1..n
    BY <1>4
  <2> HIDE DEF ids
  <2> QED BY <2>1, <2>2 DEF Stateless!IsInjective
<1>6. ASSUME NEW i \in 1..n PROVE all[i].serial \in Nat
  <2>1. ValidInput(all[i])
    <3>1. CASE i \in 1..m
      <4>1. all[i] = o.inputs[i] /\ ValidInput(o.inputs[i])
        BY <1>1, <3>1
      <4> QED BY <4>1
    <3>2. CASE \E j \in 1..l : i = m + j
      <4>1. PICK j \in 1..l : i = m + j
        BY <3>2
      <4>2. all[m + j] = a.inputs[j] /\ ValidInput(a.inputs[j])
        BY <1>1
      <4> QED BY <4>1, <4>2
    <3> QED BY <1>1, <3>1, <3>2
  <2> QED BY <2>1 DEF ValidInput
<1> HIDE DEF ids, n
<1>7. \A i \in 1..n : ids[i] \in Int
  BY <1>4, <1>6
<1>8. /\ DOMAIN F = 1..n
      /\ \A k \in 1..n : \E j \in 1..n : F[k] = all[j]
      /\ \A j \in 1..n : \E k \in 1..n : F[k] = all[j]
      /\ \A k, j \in 1..n : F[k].serial = F[j].serial => k = j
  <2>1. n \in Nat /\ DOMAIN all = 1..n
    BY <1>1 DEF n
  <2>2. Ordered(n, all, ids, F)
    BY <2>1, <1>2, <1>4, <1>5, <1>7 DEF Ordered
  <2>3. Arranged(n, all, F)
    BY ONLY <2>2, OrderedInputs
  <2> QED BY ONLY <2>3 DEF Arranged
<1>9. ASSUME NEW x \in 1..n PROVE At(o, a, F[x], x)
  <2> DEFINE y == CHOOSE i \in DOMAIN F : F[i].serial = F[x].serial
  <2>1. y \in DOMAIN F /\ F[y].serial = F[x].serial
    BY <1>8, <1>9
  <2>2. Index(o, a, F[x]) = y
    BY DEF Index, Stateless!FundingInputIndex
  <2> HIDE DEF y
  <2>3. y = x
    BY <1>8, <1>9, <2>1
  <2> QED BY <1>8, <1>9, <2>2, <2>3 DEF At
<1>10. \A j \in 1..n : \E x \in 1..n : At(o, a, all[j], x)
  BY <1>8, <1>9
<1>11. ASSUME NEW i \in DOMAIN o.inputs PROVE i \in 1..n /\ all[i] = o.inputs[i]
  BY <1>1, <1>11 DEF n
<1>12. ASSUME NEW i \in DOMAIN a.inputs PROVE m + i \in 1..n /\ all[m + i] = a.inputs[i]
  BY <1>1, <1>12 DEF n
<1>13. ASSUME NEW x \in DOMAIN F
       PROVE  \/ \E i \in DOMAIN o.inputs : At(o, a, o.inputs[i], x)
              \/ \E i \in DOMAIN a.inputs : At(o, a, a.inputs[i], x)
  <2>1. PICK j \in 1..n : F[x] = all[j]
    BY <1>8, <1>13
  <2>2. At(o, a, all[j], x)
    BY <1>8, <1>9, <1>13, <2>1
  <2>3. j \in 1..m \/ \E i \in 1..l : j = m + i
    BY <1>1
  <2> QED BY <1>1, <2>2, <2>3
<1>14. ASSUME NEW x \in DOMAIN F, NEW i \in DOMAIN o.inputs, o.inputs[i].serial = F[x].serial
       PROVE  At(o, a, o.inputs[i], x)
  <2>1. PICK k \in 1..n : F[k] = all[i]
    BY <1>8, <1>11
  <2>2. F[k].serial = F[x].serial
    BY <1>11, <1>14, <2>1
  <2>3. k = x
    BY <1>8, <1>14, <2>2
  <2> QED BY <1>8, <1>9, <1>11, <2>1, <2>3
<1> QED BY <1>10, <1>11, <1>12, <1>13, <1>14

-----------------------------------------------------------------------------
(***************************************************************************)
(* What is signed when nothing wrong was handed over.                      *)
(***************************************************************************)
\* A coin of a wallet, and its signature as the witness.
OneKey(input) == \E key : input.coin.keys = {key}
Signs(input, fund, x, w) ==
    \E key : input.coin.keys = {key} /\ w = <<Stateless!InputSig(key, fund, x)>>
\* A PSBT with signatures of the right keys, or none.
PsbtOK(o, a, psbt) ==
    /\ DOMAIN psbt = {"fund", "witness"} /\ psbt.fund = Stateless!Fund(o, a)
    /\ DOMAIN psbt.witness = DOMAIN Stateless!FundingInputs(o, a)
    /\ \A x \in DOMAIN Stateless!FundingInputs(o, a) :
          \/ psbt.witness[x] = <<>>
          \/ Signs(Stateless!FundingInputs(o, a)[x], Stateless!Fund(o, a), x, psbt.witness[x])
\* A witness in SignDlc, or half of one for an earlier DLC.
HalfOK(o, a, i, w) ==
    IF o.inputs[i].dlc # None
    THEN w = <<Stateless!InputSig(o.inputs[i].dlc.local, Stateless!Fund(o, a), Index(o, a, o.inputs[i]))>>
    ELSE Signs(o.inputs[i], Stateless!Fund(o, a), Index(o, a, o.inputs[i]), w)
FundingSigsOK(o, a, s) ==
    /\ Len(s.funding_signatures) = Len(o.inputs)
    /\ \A i \in DOMAIN o.inputs : HalfOK(o, a, i, s.funding_signatures[i])

\* create_funding_psbt: a PSBT without signatures has no wrong one.
LEMMA EmptyPsbtIs ==
    ASSUME NEW o, NEW a
    PROVE  PsbtOK(o, a, Stateless!BuildFundingPsbt(o, a))
<1> DEFINE F == Stateless!FundingInputs(o, a)
           w == [i \in DOMAIN F |-> <<>>]
           psbt == [fund |-> Stateless!Fund(o, a), witness |-> w]
<1>1. Stateless!BuildFundingPsbt(o, a) = psbt
  BY DEF Stateless!BuildFundingPsbt
<1>2. DOMAIN psbt = {"fund", "witness"} /\ psbt.fund = Stateless!Fund(o, a) /\ psbt.witness = w
  OBVIOUS
<1>3. DOMAIN w = DOMAIN F /\ \A x \in DOMAIN F : w[x] = <<>>
  OBVIOUS
<1> HIDE DEF psbt, w
<1> QED BY <1>1, <1>2, <1>3 DEF PsbtOK

\* An input has one key, or those of both parties of the earlier DLC.
LEMMA AgreedKinds ==
    ASSUME NEW o, NEW a, Agreement(o, a)
    PROVE  /\ HasInputs(o) /\ HasInputs(a)
           /\ \A i \in DOMAIN o.inputs :
                 IF o.inputs[i].dlc = None THEN OneKey(o.inputs[i])
                 ELSE /\ o.inputs[i].coin.keys = {o.inputs[i].dlc.local, o.inputs[i].dlc.remote}
                      /\ o.inputs[i].dlc.local \in Nat /\ o.inputs[i].dlc.remote \in Nat
                      /\ o.inputs[i].dlc.local # o.inputs[i].dlc.remote
           /\ \A i \in DOMAIN a.inputs :
                 a.inputs[i].dlc = None /\ OneKey(a.inputs[i])
<1>1. HasInputs(o) /\ HasInputs(a)
  BY InputsOfBoth DEF HasInputs
<1>2. (\A i \in DOMAIN o.inputs : ValidInput(o.inputs[i])) /\ \A i \in DOMAIN a.inputs : ValidInput(a.inputs[i])
  <2>1. ValidSetup(setup)
    BY ExchangeAssumption DEF Agreement
  <2> QED BY <2>1 DEF ValidSetup, ValidInputs, Agreement
<1>3. Stateless!ValidOfferInputs(o) /\ Stateless!NoDlcInputs(a.inputs)
  BY ContextIs DEF Agreement, Context
<1>4. ASSUME NEW i \in DOMAIN o.inputs
      PROVE  IF o.inputs[i].dlc = None THEN OneKey(o.inputs[i])
                 ELSE /\ o.inputs[i].coin.keys = {o.inputs[i].dlc.local, o.inputs[i].dlc.remote}
                      /\ o.inputs[i].dlc.local \in Nat /\ o.inputs[i].dlc.remote \in Nat
                      /\ o.inputs[i].dlc.local # o.inputs[i].dlc.remote
  <2>1. ValidInput(o.inputs[i])
    BY <1>2
  <2>2. CASE o.inputs[i].dlc = None
    BY <2>1, <2>2 DEF ValidInput, OneKey
  <2>3. CASE o.inputs[i].dlc # None
    <3>1. o.inputs[i].coin.keys = {o.inputs[i].dlc.local, o.inputs[i].dlc.remote}
      BY <1>3, <2>3 DEF Stateless!ValidOfferInputs
    <3> QED BY <2>1, <2>3, <3>1 DEF ValidInput, OneKey
  <2> QED BY <2>2, <2>3
<1>5. ASSUME NEW i \in DOMAIN a.inputs
      PROVE  a.inputs[i].dlc = None /\ OneKey(a.inputs[i])
  <2>1. a.inputs[i].dlc = None
    BY <1>3 DEF Stateless!NoDlcInputs
  <2>2. ValidInput(a.inputs[i])
    BY <1>2
  <2> QED BY <2>1, <2>2 DEF ValidInput, OneKey
<1> QED BY <1>1, <1>4, <1>5

\* The inputs a party signs are those with one key, at their places.
LEMMA OwnPlaces ==
    ASSUME NEW p \in Stateless!Parties, NEW o, NEW a, o = view[p].offer, a = view[p].accept, Agreement(o, a),
           NEW j \in Stateless!Ordinary(p)
    PROVE  LET x == Stateless!OwnIndex(p, j)
           IN  /\ x \in DOMAIN Stateless!FundingInputs(o, a)
               /\ OneKey(Stateless!FundingInputs(o, a)[x])
<1> DEFINE input == Stateless!OwnInputs(p)[j]
<1>1. j \in DOMAIN Stateless!OwnInputs(p) /\ input.dlc = None
  BY DEF Stateless!Ordinary
<1>2. Stateless!OwnIndex(p, j) = Index(o, a, input)
  BY DEF Stateless!OwnIndex, Index
<1>3. CASE p = "offer"
  <2>1. Stateless!OwnInputs(p) = o.inputs
    BY <1>3 DEF Stateless!OwnInputs
  <2>2. j \in DOMAIN o.inputs /\ input = o.inputs[j]
    BY <1>1, <2>1
  <2>3. \E x : At(o, a, o.inputs[j], x)
    BY <2>2, AgreedInputs
  <2>4. OneKey(o.inputs[j])
    BY <1>1, <2>2, AgreedKinds
  <2> HIDE DEF input
  <2> QED BY <1>2, <2>2, <2>3, <2>4 DEF At
<1>4. CASE p # "offer"
  <2>1. Stateless!OwnInputs(p) = a.inputs
    BY <1>4 DEF Stateless!OwnInputs
  <2>2. j \in DOMAIN a.inputs /\ input = a.inputs[j]
    BY <1>1, <2>1
  <2>3. \E x : At(o, a, a.inputs[j], x)
    BY <2>2, AgreedInputs
  <2>4. OneKey(a.inputs[j])
    BY <2>2, AgreedKinds
  <2> HIDE DEF input
  <2> QED BY <1>2, <2>2, <2>3, <2>4 DEF At
<1> QED BY <1>3, <1>4

\* sign_funding_psbt adds witnesses that the network accepts.
LEMMA SignedPsbtIs ==
    ASSUME NEW p \in Stateless!Parties, DOMAIN psbts = {"offer", "accept"},
           NEW o, NEW a, o = view[p].offer, a = view[p].accept, Agreement(o, a),
           PsbtOK(o, a, psbts[p]), NEW S \in SUBSET Stateless!Ordinary(p)
    PROVE  PsbtOK(o, a, SignedPsbts(p, S, psbts[p])[p])
<1> DEFINE q == psbts[p]
           F == Stateless!FundingInputs(o, a)
           fund == Stateless!Fund(o, a)
           places == {Stateless!OwnIndex(p, j) : j \in S}
           w == [i \in DOMAIN q.witness |->
                    IF i \in places
                    THEN <<Stateless!InputSig(CHOOSE k \in q.fund.coins[i].keys : TRUE, q.fund, i)>>
                    ELSE q.witness[i]]
<1>1. p \in DOMAIN psbts
  BY DEF Stateless!Parties
<1>2. SignedPsbts(p, S, q)[p] = [q EXCEPT !.witness = w]
  BY <1>1 DEF SignedPsbts
<1>3. /\ DOMAIN q = {"fund", "witness"} /\ q.fund = fund /\ DOMAIN q.witness = DOMAIN F
      /\ \A x \in DOMAIN F : q.witness[x] = <<>> \/ Signs(F[x], fund, x, q.witness[x])
  BY DEF PsbtOK
<1>4. DOMAIN fund.coins = DOMAIN F /\ \A x \in DOMAIN F : fund.coins[x] = F[x].coin
  BY DEF Stateless!Fund
<1>5. ASSUME NEW x \in places PROVE x \in DOMAIN F /\ OneKey(F[x])
  <2>1. PICK j \in S : x = Stateless!OwnIndex(p, j)
    OBVIOUS
  <2>2. j \in Stateless!Ordinary(p)
    OBVIOUS
  <2> QED BY <2>1, <2>2, OwnPlaces
<1>6. DOMAIN w = DOMAIN F
  BY <1>3
<1>7. ASSUME NEW x \in DOMAIN F PROVE w[x] = <<>> \/ Signs(F[x], fund, x, w[x])
  <2>1. CASE x \in places
    <3>1. PICK key : F[x].coin.keys = {key}
      BY <1>5, <2>1 DEF OneKey
    <3>2. w[x] = <<Stateless!InputSig(CHOOSE k \in {key} : TRUE, fund, x)>>
      BY <1>3, <1>4, <2>1, <3>1
    <3>3. (CHOOSE k \in {key} : TRUE) = key
      OBVIOUS
    <3> QED BY <3>1, <3>2, <3>3 DEF Signs
  <2>2. CASE x \notin places
    BY <1>3, <2>2
  <2> HIDE DEF F, fund, places, w
  <2> QED BY ONLY <2>1, <2>2
<1> HIDE DEF q, F, fund, places, w
<1> DEFINE r == [q EXCEPT !.witness = w]
<1>8. DOMAIN r = {"fund", "witness"} /\ r.fund = fund /\ r.witness = w
  BY <1>3
<1> HIDE DEF r
<1>9. PsbtOK(o, a, r)
  BY <1>6, <1>7, <1>8 DEF PsbtOK, F, fund
<1> QED BY <1>2, <1>9 DEF r, q

\* The keys of the earlier DLC.
LEMMA PriorKeyIs ==
    ASSUME setup \in Setups, NEW o, o = setup.terms, NEW i \in DOMAIN o.inputs, o.inputs[i].dlc # None
    PROVE  /\ Stateless!PriorKey("offer") = o.inputs[i].dlc.local
           /\ Stateless!PriorKey("accept") = o.inputs[i].dlc.remote
<1> DEFINE spliced == {j \in DOMAIN o.inputs : o.inputs[j].dlc # None}
<1>1. \A j \in DOMAIN o.inputs : o.inputs[j].dlc # None => j = i
  BY ExchangeAssumption DEF ValidSetup
<1>2. spliced = {i}
  BY <1>1
<1>3. (CHOOSE j \in spliced : TRUE) = i
  BY <1>2
<1>4. spliced = {j \in DOMAIN setup.terms.inputs : setup.terms.inputs[j].dlc # None}
  OBVIOUS
<1> HIDE DEF spliced
<1>5. spliced # {}
  BY <1>2
<1> QED BY <1>3, <1>4, <1>5 DEF Stateless!PriorKey

\* SignDlc has a witness, or half of one, for every input of the offering party.
LEMMA SignaturesAre ==
    ASSUME NEW o, NEW a, Agreement(o, a), NEW psbt, PsbtOK(o, a, psbt), NEW prior, NEW key,
           AllPass(Stateless!OfferFundingChecks(o, a, psbt, prior))
    PROVE  FundingSigsOK(o, a, SignMessage(o, a, psbt, prior, key))
<1> DEFINE n == Len(o.inputs)
           sigs == Stateless!OfferFundingSignatures(o, a, psbt, prior)
           F == Stateless!FundingInputs(o, a)
<1>1. n \in Nat /\ DOMAIN o.inputs = 1..n
  BY AgreedKinds DEF HasInputs
<1>2. DOMAIN sigs = 1..n
  BY <1>1 DEF Stateless!OfferFundingSignatures
<1>3. SignMessage(o, a, psbt, prior, key).funding_signatures = sigs
  BY DEF SignMessage
<1>4. Len(sigs) = n
  <2> HIDE DEF sigs, n
  <2> QED BY <1>1, <1>2
<1>5. \A i \in DOMAIN o.inputs :
         IF o.inputs[i].dlc # None THEN prior = o.inputs[i].dlc.local
         ELSE psbt.witness[Stateless!FundingInputIndex(o, a, o.inputs[i].serial)] # <<>>
  BY <1>1, OfferFundingIs
<1>6. ASSUME NEW i \in DOMAIN o.inputs PROVE HalfOK(o, a, i, sigs[i])
  <2> DEFINE x == Index(o, a, o.inputs[i])
  <2>1. x = Stateless!FundingInputIndex(o, a, o.inputs[i].serial)
    BY DEF Index
  <2>2. sigs[i] = IF o.inputs[i].dlc # None
                  THEN <<Stateless!InputSig(prior, Stateless!Fund(o, a), x)>> ELSE psbt.witness[x]
    BY <2>1 DEF Stateless!OfferFundingSignatures
  <2>3. CASE o.inputs[i].dlc # None
    BY <1>5, <2>2, <2>3 DEF HalfOK
  <2>4. CASE o.inputs[i].dlc = None
    <3>1. psbt.witness[x] # <<>>
      BY <1>5, <2>1, <2>4
    <3>2. x \in DOMAIN F /\ F[x] = o.inputs[i]
      <4>1. \E y : At(o, a, o.inputs[i], y)
        BY AgreedInputs
      <4> QED BY <4>1 DEF At
    <3>3. Signs(F[x], Stateless!Fund(o, a), x, psbt.witness[x])
      BY <3>1, <3>2 DEF PsbtOK
    <3> QED BY <2>2, <2>4, <3>2, <3>3 DEF HalfOK
  <2> QED BY <2>3, <2>4
<1> HIDE DEF sigs
<1> QED BY <1>3, <1>4, <1>6 DEF FundingSigsOK

\* The checks of the accepting party pass but for its own witnesses.
LEMMA FinalizeIsOK ==
    ASSUME NEW o, NEW a, Agreement(o, a), NEW s, SignedBy(o, a, s), FundingSigsOK(o, a, s),
           NEW psbt, PsbtOK(o, a, psbt), NEW prior, prior = Stateless!PriorKey("accept")
    PROVE  FinalizeOK(o, a, s, psbt, prior)
<1>1. ASSUME NEW i \in DOMAIN o.inputs
      PROVE  /\ o.inputs[i].dlc = None => s.funding_signatures[i] # <<>>
             /\ o.inputs[i].dlc # None =>
                   /\ s.funding_signatures[i] =
                         <<Stateless!InputSig(o.inputs[i].dlc.local, Stateless!Fund(o, a),
                               Stateless!FundingInputIndex(o, a, o.inputs[i].serial))>>
                   /\ prior = o.inputs[i].dlc.remote
  <2>1. HalfOK(o, a, i, s.funding_signatures[i])
    BY DEF FundingSigsOK
  <2>2. CASE o.inputs[i].dlc = None
    <3>1. \E sig : s.funding_signatures[i] = <<sig>>
      BY <2>1, <2>2 DEF HalfOK, Signs
    <3> QED BY <2>2, <3>1
  <2>3. CASE o.inputs[i].dlc # None
    <3>1. prior = o.inputs[i].dlc.remote
      BY <2>3, PriorKeyIs DEF Agreement
    <3> QED BY <2>1, <2>3, <3>1 DEF HalfOK, Index
  <2> QED BY <2>2, <2>3
<1>2. AllPass(Stateless!OfferWitnessChecks(o, a, s, prior))
  BY <1>1, OfferWitnessIs
<1> QED BY <1>2 DEF FinalizeOK, SignedBy, FundingSigsOK, PsbtOK, Agreement

-----------------------------------------------------------------------------
(***************************************************************************)
(* The network accepts the transaction.                                    *)
(***************************************************************************)
LEMMA OneInOrder ==
    ASSUME NEW key
    PROVE  <<key>> \in Stateless!InOrder({key})
<1>1. Cardinality({key}) = 1
  BY FS_Singleton
<1>2. <<key>> \in [1..1 -> {key}]
  OBVIOUS
<1>3. <<key>> \in SetToSeqs({key})
  BY <1>1, <1>2 DEF SetToSeqs
<1> QED BY <1>3, StatelessSequences DEF Stateless!InOrder

\* Two keys in their order.
LEMMA TwoInOrder ==
    ASSUME NEW k \in Nat, NEW l \in Nat, k < l
    PROVE  <<k, l>> \in Stateless!InOrder({k, l})
<1>1. Cardinality({k, l}) = 2
  <2>1. IsFiniteSet({k}) /\ Cardinality({k}) = 1
    BY FS_Singleton
  <2>2. {k} \cup {l} = {k, l} /\ l \notin {k}
    OBVIOUS
  <2> QED BY <2>1, <2>2, FS_AddElement
<1>2. <<k, l>> \in [1..2 -> {k, l}]
  OBVIOUS
<1>3. \A i, j \in 1..2 : i # j => <<k, l>>[i] # <<k, l>>[j]
  OBVIOUS
<1>4. <<k, l>> \in SetToSeqs({k, l})
  BY <1>1, <1>2, <1>3 DEF SetToSeqs
<1>5. \A i, j \in DOMAIN <<k, l>> : i < j => <<k, l>>[i] < <<k, l>>[j]
  OBVIOUS
<1> QED BY <1>4, <1>5, StatelessSequences DEF Stateless!InOrder

\* What the network asks of an input.
Witnessed(fund, x, w) ==
    \E keys \in Stateless!InOrder(fund.coins[x].keys) :
        w = [j \in DOMAIN keys |-> Stateless!InputSig(keys[j], fund, x)]

\* The signature of the one key of a coin.
LEMMA OneIsWitnessed ==
    ASSUME NEW fund, NEW x, NEW input, fund.coins[x] = input.coin, NEW w, Signs(input, fund, x, w)
    PROVE  Witnessed(fund, x, w)
<1>1. PICK key : input.coin.keys = {key} /\ w = <<Stateless!InputSig(key, fund, x)>>
  BY DEF Signs
<1>2. <<key>> \in Stateless!InOrder(fund.coins[x].keys)
  BY <1>1, OneInOrder
<1>3. [j \in DOMAIN <<key>> |-> Stateless!InputSig(<<key>>[j], fund, x)] = <<Stateless!InputSig(key, fund, x)>>
  OBVIOUS
<1> QED BY <1>1, <1>2, <1>3 DEF Witnessed

\* combine_dlc_input_signatures: both signatures, in the order of the keys.
LEMMA TwoAreWitnessed ==
    ASSUME NEW fund, NEW x, NEW dlc, dlc.local \in Nat, dlc.remote \in Nat, dlc.local # dlc.remote,
           fund.coins[x].keys = {dlc.local, dlc.remote}, NEW half, NEW own,
           half = <<Stateless!InputSig(dlc.local, fund, x)>>, own = Stateless!InputSig(dlc.remote, fund, x)
    PROVE  Witnessed(fund, x, Stateless!Combine(dlc, half, own))
<1> DEFINE sig(key) == Stateless!InputSig(key, fund, x)
           l == dlc.local
           r == dlc.remote
<1>0. l \in Nat /\ r \in Nat /\ l # r /\ fund.coins[x].keys = {l, r}
  OBVIOUS
<1>1. half[1] = sig(l) /\ own = sig(r)
  OBVIOUS
<1>2. Stateless!Combine(dlc, half, own) = IF r <= l THEN <<sig(r), sig(l)>> ELSE <<sig(l), sig(r)>>
  BY <1>1 DEF Stateless!Combine
<1> HIDE DEF l, r
<1>3. \A y, z : [j \in DOMAIN <<y, z>> |-> Stateless!InputSig(<<y, z>>[j], fund, x)] = <<sig(y), sig(z)>>
  OBVIOUS
<1> HIDE DEF sig
<1>4. CASE r <= l
  <2>1. <<r, l>> \in Stateless!InOrder({r, l}) /\ {r, l} = {l, r}
    BY <1>0, <1>4, TwoInOrder
  <2> DEFINE keys == <<r, l>>
             w == <<sig(r), sig(l)>>
  <2>2. w = [j \in DOMAIN keys |-> Stateless!InputSig(keys[j], fund, x)]
    BY <1>3
  <2>3. keys \in Stateless!InOrder(fund.coins[x].keys)
    BY <1>0, <2>1
  <2>4. Stateless!Combine(dlc, half, own) = w
    BY <1>2, <1>4
  <2> HIDE DEF keys, w
  <2> QED BY <2>2, <2>3, <2>4 DEF Witnessed
<1>5. CASE ~(r <= l)
  <2>1. <<l, r>> \in Stateless!InOrder({l, r})
    BY <1>0, <1>5, TwoInOrder
  <2> DEFINE keys == <<l, r>>
             w == <<sig(l), sig(r)>>
  <2>2. w = [j \in DOMAIN keys |-> Stateless!InputSig(keys[j], fund, x)]
    BY <1>3
  <2>3. keys \in Stateless!InOrder(fund.coins[x].keys)
    BY <1>0, <2>1
  <2>4. Stateless!Combine(dlc, half, own) = w
    BY <1>2, <1>5
  <2> HIDE DEF keys, w
  <2> QED BY <2>2, <2>3, <2>4 DEF Witnessed
<1> QED BY <1>4, <1>5

\* What finalize_sign returns is accepted by the network.
LEMMA FundingIsAccepted ==
    ASSUME NEW o, NEW a, Agreement(o, a), NEW s, FundingSigsOK(o, a, s),
           NEW psbt, PsbtOK(o, a, psbt), NEW prior, prior = Stateless!PriorKey("accept"),
           AllPass(Stateless!AcceptFundingChecks(o, a, psbt))
    PROVE  Stateless!NetworkAccepts(FinalFunding(o, a, s, psbt, prior))
<1> DEFINE F == Stateless!FundingInputs(o, a)
           fund == Stateless!Fund(o, a)
           W == Stateless!FundingWitness(o, a, s, psbt, prior)
           offered(x) == {i \in DOMAIN o.inputs : o.inputs[i].serial = F[x].serial}
           first(x) == CHOOSE i \in offered(x) : TRUE
<1>1. DOMAIN fund.coins = DOMAIN F /\ \A x \in DOMAIN F : fund.coins[x] = F[x].coin
  BY DEF Stateless!Fund
<1>2. \A x \in DOMAIN F :
         W[x] = IF offered(x) = {} THEN psbt.witness[x]
                ELSE IF o.inputs[first(x)].dlc = None THEN s.funding_signatures[first(x)]
                ELSE Stateless!Combine(o.inputs[first(x)].dlc, s.funding_signatures[first(x)],
                                       Stateless!InputSig(prior, fund, x))
  BY DEF Stateless!FundingWitness
<1>3. /\ \A x \in DOMAIN F : \/ \E i \in DOMAIN o.inputs : At(o, a, o.inputs[i], x)
                             \/ \E i \in DOMAIN a.inputs : At(o, a, a.inputs[i], x)
      /\ \A x \in DOMAIN F : \A i \in DOMAIN o.inputs :
            o.inputs[i].serial = F[x].serial => At(o, a, o.inputs[i], x)
  BY AgreedInputs
<1>4. \A i \in DOMAIN a.inputs :
         psbt.witness[Stateless!FundingInputIndex(o, a, a.inputs[i].serial)] # <<>>
  BY AgreedKinds, AcceptFundingIs DEF HasInputs
<1>5. \A x \in DOMAIN F : psbt.witness[x] = <<>> \/ Signs(F[x], fund, x, psbt.witness[x])
  BY DEF PsbtOK
<1>6. \A i \in DOMAIN o.inputs : HalfOK(o, a, i, s.funding_signatures[i])
  BY DEF FundingSigsOK
<1>7. \A i, x : At(o, a, i, x) => F[x] = i /\ x \in DOMAIN F /\ Index(o, a, i) = x
  BY DEF At
<1>8. \A x : offered(x) # {} => first(x) \in offered(x)
  OBVIOUS
<1>9. \A x : offered(x) \subseteq DOMAIN o.inputs
             /\ \A i \in DOMAIN o.inputs : i \in offered(x) <=> o.inputs[i].serial = F[x].serial
  OBVIOUS
<1> HIDE DEF F, fund, W, offered, first
<1>10. ASSUME NEW x \in DOMAIN F PROVE Witnessed(fund, x, W[x])
  <2>1. CASE offered(x) = {}
    <3>1. PICK i \in DOMAIN a.inputs : At(o, a, a.inputs[i], x)
      <4>1. ~ \E i \in DOMAIN o.inputs : At(o, a, o.inputs[i], x)
        BY <1>7, <1>9, <2>1
      <4> QED BY <1>3, <4>1
    <3>2. psbt.witness[x] # <<>>
      BY <1>4, <1>7, <3>1 DEF Index
    <3>3. Signs(F[x], fund, x, psbt.witness[x])
      BY <1>5, <3>2
    <3>4. W[x] = psbt.witness[x] /\ fund.coins[x] = F[x].coin
      BY <1>1, <1>2, <2>1
    <3> QED BY <3>3, <3>4, OneIsWitnessed
  <2>2. CASE offered(x) # {}
    <3> DEFINE i == first(x)
    <3>1. i \in DOMAIN o.inputs /\ o.inputs[i].serial = F[x].serial
      BY <1>8, <1>9, <2>2
    <3> HIDE DEF i
    <3>2. F[x] = o.inputs[i] /\ Index(o, a, o.inputs[i]) = x
      <4>1. At(o, a, o.inputs[i], x)
        BY <1>3, <3>1
      <4> QED BY <1>7, <4>1
    <3>3. HalfOK(o, a, i, s.funding_signatures[i])
      BY <1>6, <3>1
    <3>4. fund.coins[x] = o.inputs[i].coin
      BY <1>1, <3>2
    <3>5. CASE o.inputs[i].dlc = None
      <4>1. Signs(o.inputs[i], fund, x, s.funding_signatures[i])
        BY <3>2, <3>3, <3>5 DEF HalfOK, fund
      <4>2. W[x] = s.funding_signatures[i]
        BY <1>2, <2>2, <3>5 DEF i
      <4> QED BY <3>4, <4>1, <4>2, OneIsWitnessed
    <3>6. CASE o.inputs[i].dlc # None
      <4> DEFINE dlc == o.inputs[i].dlc
                 half == s.funding_signatures[i]
                 own == Stateless!InputSig(prior, fund, x)
      <4>1. half = <<Stateless!InputSig(dlc.local, fund, x)>>
        BY <3>2, <3>3, <3>6 DEF HalfOK, fund
      <4>2. prior = dlc.remote
        BY <3>1, <3>6, PriorKeyIs DEF Agreement
      <4>3. /\ dlc.local \in Nat /\ dlc.remote \in Nat /\ dlc.local # dlc.remote
            /\ fund.coins[x].keys = {dlc.local, dlc.remote}
        BY <3>1, <3>4, <3>6, AgreedKinds
      <4>4. W[x] = Stateless!Combine(dlc, half, own)
        BY <1>2, <2>2, <3>6 DEF i
      <4>5. own = Stateless!InputSig(dlc.remote, fund, x)
        BY <4>2
      <4> HIDE DEF dlc, half, own
      <4>6. Witnessed(fund, x, Stateless!Combine(dlc, half, own))
        BY <4>1, <4>3, <4>5, TwoAreWitnessed
      <4> QED BY <4>4, <4>6
    <3> QED BY <3>5, <3>6
  <2> QED BY <2>1, <2>2
<1>11. /\ FinalFunding(o, a, s, psbt, prior).fund = fund
       /\ FinalFunding(o, a, s, psbt, prior).witness = W
  BY DEF FinalFunding, fund, W
<1> DEFINE tx == FinalFunding(o, a, s, psbt, prior)
<1> HIDE DEF tx
<1>12. (\A x \in DOMAIN tx.fund.coins : Witnessed(tx.fund, x, tx.witness[x])) => Stateless!NetworkAccepts(tx)
  BY DEF Stateless!NetworkAccepts, Witnessed
<1>13. tx.fund = fund /\ tx.witness = W
  BY <1>11 DEF tx
<1>14. Stateless!NetworkAccepts(tx)
  BY <1>1, <1>10, <1>12, <1>13
<1> QED BY <1>14 DEF tx

-----------------------------------------------------------------------------
(***************************************************************************)
(* When nothing wrong was handed over, both keep the same messages, and    *)
(* what they signed is what the network asks for.                          *)
(***************************************************************************)
\* Both keep the agreed offer.
SameOffer ==
    AcceptReady => /\ view["accept"].offer = setup.terms
                   /\ PsbtOK(setup.terms, view["accept"].accept, psbts["accept"])
\* Both keep the same answer.
SameAnswer ==
    OfferReady => /\ view["offer"].accept = view["accept"].accept
                  /\ PsbtOK(setup.terms, view["offer"].accept, psbts["offer"])
\* SignDlc has the funding signatures of the offering party.
SignaturesSent ==
    view["offer"].sign # None => FundingSigsOK(setup.terms, view["offer"].accept, view["offer"].sign)
\* No call fails, but for a witness that is not there yet.
NoCallFails ==
    result.call \in {"create_funding_psbt", "sign_funding_psbt", "sign_accept",
                     "finalize_sign", "sign_refund"} =>
        result.error \in {"ok", "MissingFinalizedInput"}
\* The network accepts the funding transaction.
FundingAccepted == funding # None => Stateless!NetworkAccepts(funding)
\* While nothing wrong was handed over, all of these.
HonestInv ==
    /\ faults \in Nat
    /\ faults = 0 => SameOffer /\ SameAnswer /\ SignaturesSent /\ NoCallFails /\ FundingAccepted

\* What the property asks of behaviours without a manager.
LEMMA HonestCompletes == HonestInv => Stateless!HonestFundingCompletes
  BY DEF HonestInv, Stateless!HonestFundingCompletes, NoCallFails, FundingAccepted

\* While nothing wrong was handed over, what was handed over is right.
LEMMA NothingWrong ==
    ASSUME faults \in Nat, NEW right, NEW wrong, NEW arg, Stateless!Given(right, wrong, arg)
    PROVE  faults' \in Nat /\ (faults' = 0 => faults = 0 /\ arg = right)
  BY DEF Stateless!Given

\* What holds of the messages when nothing wrong was handed over.
LEMMA AcceptAgreed ==
    ASSUME MessagesInv, SameOffer, AcceptReady, NEW o, NEW a, o = setup.terms, a = view["accept"].accept
    PROVE  /\ view["offer"].offer = o /\ view["accept"].offer = o
           /\ Agreement(o, a) /\ Accepted(o, a) /\ PsbtOK(o, a, psbts["accept"])
<1>1. view["accept"].offer = o /\ PsbtOK(o, a, psbts["accept"])
  BY DEF SameOffer
<1>2. /\ view["offer"].offer # None /\ a.inputs = setup.accept_inputs
      /\ Accepted(view["accept"].offer, a)
  BY DEF MessagesInv, AcceptOK
<1>3. setup \in Setups /\ view["offer"].offer = o
  BY <1>2 DEF MessagesInv, KeptOK, OfferOK
<1> QED BY <1>1, <1>2, <1>3 DEF Agreement, Accepted

\* The offering party has the answer of the other, to the agreed offer.
LEMMA AnswerAgreed ==
    ASSUME MessagesInv, SameOffer, SameAnswer, OfferReady, NEW o, NEW a, o = setup.terms,
           a = view["offer"].accept
    PROVE  /\ AcceptReady /\ view["accept"].accept = a /\ view["accept"].offer = o
           /\ view["offer"].offer = o /\ Agreement(o, a) /\ Accepted(o, a)
           /\ PsbtOK(o, a, psbts["offer"]) /\ PsbtOK(o, a, psbts["accept"])
<1>1. AcceptReady
  BY DEF MessagesInv, AnswerOK, AcceptReady
<1>2. view["accept"].accept = a /\ PsbtOK(o, a, psbts["offer"])
  BY DEF SameAnswer
<1> QED BY <1>1, <1>2, AcceptAgreed

\* Nothing was called yet.
LEMMA HonestInvInit == Stateless!Init => HonestInv
<1> SUFFICES ASSUME Stateless!Init PROVE HonestInv
  OBVIOUS
<1>1. /\ funding = None /\ faults = 0
      /\ psbts["accept"] = None /\ psbts["offer"] = None
      /\ \A p \in {"offer", "accept"} : view[p] = [offer |-> None, accept |-> None, sign |-> None]
  BY DEF Stateless!Init, Stateless!Parties
<1>2. \A p \in {"offer", "accept"} : view[p].offer = None /\ view[p].accept = None /\ view[p].sign = None
  BY <1>1
<1>3. result.error = "ok"
  BY DEF Stateless!Init
<1> QED BY <1>1, <1>2, <1>3 DEF HonestInv, SameOffer, SameAnswer, SignaturesSent, NoCallFails,
     FundingAccepted, AcceptReady, OfferReady

\* A call that only returns.
LEMMA NothingChanged ==
    ASSUME HonestInv, UNCHANGED <<setup, view, psbts, funding>>, faults' \in Nat,
           faults' = 0 => faults = 0 /\ NoCallFails'
    PROVE  HonestInv'
  BY DEF HonestInv, SameOffer, SameAnswer, SignaturesSent, FundingAccepted, AcceptReady, OfferReady

\* create_offer.
LEMMA CreateOfferHonest == MessagesInv /\ HonestInv /\ Stateless!CreateOffer => HonestInv'
<1> SUFFICES ASSUME MessagesInv, HonestInv, Stateless!CreateOffer PROVE HonestInv'
  OBVIOUS
<1>1. /\ view["offer"].offer = None
      /\ setup' = setup /\ psbts' = psbts /\ funding' = funding /\ faults' = faults
      /\ view' = view \/ view' = [view EXCEPT !["offer"].offer = setup.terms]
  BY DEF Stateless!CreateOffer
<1>2. ViewOK(view)
  BY DEF MessagesInv, KeptOK
<1>3. ~AcceptReady /\ ~OfferReady /\ view["offer"].sign = None /\ funding = None
  BY <1>1 DEF MessagesInv, AcceptOK, AnswerOK, SignOK, FundingOK, AcceptReady, OfferReady
<1>4. /\ view'["accept"] = view["accept"] /\ view'["offer"].accept = view["offer"].accept
      /\ view'["offer"].sign = view["offer"].sign
  BY <1>1, <1>2, OfferIsKept
<1>5. result'.call = "create_offer"
  BY DEF Stateless!CreateOffer, Stateless!Returns
<1>6. ~AcceptReady' /\ ~OfferReady'
  BY <1>1, <1>3, <1>4 DEF AcceptReady, OfferReady
<1> QED
  BY <1>1, <1>3, <1>4, <1>5, <1>6 DEF HonestInv, SameOffer, SameAnswer, SignaturesSent, NoCallFails, FundingAccepted

\* accept_offer.
LEMMA AcceptOfferHonest == MessagesInv /\ HonestInv /\ Stateless!AcceptOffer => HonestInv'
<1> SUFFICES ASSUME MessagesInv, HonestInv, Stateless!AcceptOffer PROVE HonestInv'
  OBVIOUS
<1> DEFINE right == view["offer"].offer
           wrong == Stateless!WrongOffers(view["offer"].offer)
<1>1. /\ view["offer"].offer # None /\ view["accept"].accept = None
      /\ setup' = setup /\ funding' = funding /\ result'.call = "accept_offer"
  BY DEF Stateless!AcceptOffer, Stateless!Returns
<1>2. PICK o :
         /\ Stateless!Given(right, wrong, o)
         /\ \/ view' = view /\ psbts' = psbts
            \/ /\ view' = WithAcceptance(view, o, AcceptanceOf(o))
               /\ psbts' = [psbts EXCEPT !["accept"] = Stateless!BuildFundingPsbt(o, AcceptanceOf(o))]
  BY DEF Stateless!AcceptOffer, TermsFor, AcceptanceOf, WithAcceptance
<1>3. faults' \in Nat /\ (faults' = 0 => faults = 0 /\ o = right)
  BY <1>2, NothingWrong DEF HonestInv
<1>4. NoCallFails'
  BY <1>1 DEF NoCallFails
<1>5. CASE view' = view /\ psbts' = psbts
  BY <1>1, <1>3, <1>4, <1>5, NothingChanged
<1>6. ASSUME view' = WithAcceptance(view, o, AcceptanceOf(o)),
             psbts' = [psbts EXCEPT !["accept"] = Stateless!BuildFundingPsbt(o, AcceptanceOf(o))],
             faults' = 0
      PROVE  SameOffer' /\ SameAnswer' /\ SignaturesSent' /\ FundingAccepted'
  <2>1. ViewOK(view) /\ DOMAIN psbts = {"offer", "accept"} /\ right = setup.terms
    BY <1>1 DEF MessagesInv, KeptOK, OfferOK
  <2>2. ~OfferReady /\ view["offer"].sign = None /\ funding = None
    BY <1>1 DEF MessagesInv, AnswerOK, SignOK, FundingOK, OfferReady
  <2>3. /\ view'["offer"] = view["offer"]
        /\ view'["accept"].offer = o /\ view'["accept"].accept = AcceptanceOf(o)
    BY <1>6, <2>1, AcceptanceIsKept
  <2>4. /\ psbts'["offer"] = psbts["offer"]
        /\ psbts'["accept"] = Stateless!BuildFundingPsbt(o, AcceptanceOf(o))
    BY <1>6, <2>1
  <2>5. o = setup.terms
    BY <1>3, <1>6, <2>1
  <2>6. PsbtOK(o, AcceptanceOf(o), psbts'["accept"])
    BY <2>4, EmptyPsbtIs
  <2>7. SameOffer'
    BY <1>1, <2>3, <2>5, <2>6 DEF SameOffer
  <2>8. ~OfferReady'
    BY <2>2, <2>3, <2>4 DEF OfferReady
  <2> QED BY <1>1, <2>2, <2>3, <2>7, <2>8 DEF SameAnswer, SignaturesSent, FundingAccepted
<1> QED BY <1>2, <1>3, <1>4, <1>5, <1>6 DEF HonestInv

\* create_funding_psbt.
LEMMA CreateFundingPsbtHonest == MessagesInv /\ HonestInv /\ Stateless!CreateFundingPsbt => HonestInv'
<1> SUFFICES ASSUME MessagesInv, HonestInv, Stateless!CreateFundingPsbt PROVE HonestInv'
  OBVIOUS
<1> DEFINE right == view["accept"].accept
           wrong == Stateless!WrongAccepts(view["accept"].accept)
           o == view["offer"].offer
           error(a) == Stateless!FirstFailed(Stateless!ContextChecks(o, a))
<1>1. /\ view["accept"].accept # None /\ view["offer"].accept = None
      /\ setup' = setup /\ funding' = funding
  BY DEF Stateless!CreateFundingPsbt
<1>2. PICK a :
         /\ Stateless!Given(right, wrong, a)
         /\ Stateless!Returns("create_funding_psbt", "offer", error(a))
         /\ IF error(a) = "ok"
            THEN /\ view' = WithAnswer(view, a)
                 /\ psbts' = [psbts EXCEPT !["offer"] = Stateless!BuildFundingPsbt(o, a)]
            ELSE UNCHANGED <<view, psbts>>
  BY DEF Stateless!CreateFundingPsbt, WithAnswer
<1>3. faults' \in Nat /\ (faults' = 0 => faults = 0 /\ a = right)
  BY <1>2, NothingWrong DEF HonestInv
<1>4. ASSUME faults' = 0
      PROVE  SameOffer' /\ SameAnswer' /\ SignaturesSent' /\ NoCallFails' /\ FundingAccepted'
  <2>1. faults = 0 /\ a = right /\ SameOffer /\ FundingAccepted
    BY <1>3, <1>4 DEF HonestInv
  <2>2. AcceptReady
    BY <1>1 DEF AcceptReady
  <2>3. o = setup.terms /\ Context(o, a)
    BY <2>1, <2>2, AcceptAgreed DEF Agreement
  <2> HIDE DEF o
  <2>4. error(a) = "ok"
    BY <2>3, FirstFailedIs, ContextIs DEF Context
  <2>5. ViewOK(view) /\ DOMAIN psbts = {"offer", "accept"}
    BY DEF MessagesInv, KeptOK
  <2>6. /\ view' = WithAnswer(view, a)
        /\ psbts' = [psbts EXCEPT !["offer"] = Stateless!BuildFundingPsbt(o, a)]
        /\ result'.error = "ok"
    BY <1>2, <2>4 DEF Stateless!Returns
  <2>7. /\ view'["accept"] = view["accept"] /\ view'["offer"].accept = a
        /\ view'["offer"].sign = view["offer"].sign
    BY <2>5, <2>6, AnswerIsKept
  <2>8. psbts'["accept"] = psbts["accept"] /\ psbts'["offer"] = Stateless!BuildFundingPsbt(o, a)
    BY <2>5, <2>6
  <2>9. PsbtOK(setup.terms, a, psbts'["offer"])
    BY <2>3, <2>8, EmptyPsbtIs
  <2>10. view["offer"].sign = None
    BY <1>1 DEF MessagesInv, SignOK
  <2> QED BY <1>1, <2>1, <2>6, <2>7, <2>8, <2>9, <2>10
          DEF SameOffer, SameAnswer, SignaturesSent, NoCallFails, FundingAccepted, AcceptReady
<1> QED BY <1>3, <1>4 DEF HonestInv

\* Signing the PSBT of the agreed terms passes.
LEMMA SigningChecksPass ==
    ASSUME NEW p, NEW S, NEW psbt, psbt.fund = Stateless!Fund(view[p].offer, view[p].accept),
           Context(view[p].offer, view[p].accept)
    PROVE  /\ Stateless!FirstFailed(SigningChecks(p, psbt)) = "ok"
           /\ Stateless!FirstFailed(SigningChecks(p, psbt) \o AllSigned(S, S)) = "ok"
<1> DEFINE A == Stateless!ContextChecks(view[p].offer, view[p].accept)
           B == Stateless!PsbtChecks(view[p].offer, view[p].accept, psbt)
           C == << <<TRUE, "InvalidFundingInput">> >>
           D == SigningChecks(p, psbt)
           E == SigningChecks(p, psbt) \o AllSigned(S, S)
<1>1. A \in Seq(Check) /\ AllPass(A)
  BY ContextIs DEF Context
<1>2. B \in Seq(Check) /\ AllPass(B)
  BY PsbtIs
<1>3. C \in Seq(Check) /\ AllPass(C)
  BY OneCheck DEF Errors
<1>4. D = A \o B
  BY DEF SigningChecks
<1>5. E = A \o B \o C
  BY DEF SigningChecks, AllSigned
<1> HIDE DEF A, B, C, D, E
<1>6. D \in Seq(Check) /\ AllPass(D)
  BY <1>1, <1>2, <1>4, ChecksJoin
<1>7. E \in Seq(Check) /\ AllPass(E)
  BY <1>1, <1>2, <1>3, <1>5, ThreeRows
<1>8. Stateless!FirstFailed(D) = "ok" /\ Stateless!FirstFailed(E) = "ok"
  BY <1>6, <1>7, FirstFailedIs
<1> QED BY <1>8 DEF D, E

\* sign_funding_psbt.
LEMMA SignFundingPsbtHonest ==
    ASSUME NEW p \in Stateless!Parties
    PROVE  MessagesInv /\ HonestInv /\ Stateless!SignFundingPsbt(p) => HonestInv'
<1> SUFFICES ASSUME MessagesInv, HonestInv, Stateless!SignFundingPsbt(p) PROVE HonestInv'
  OBVIOUS
<1> DEFINE right(S) == <<psbts[p], S>>
           wrong(S) == (Stateless!WrongPsbts(psbts[p]) \X {S}) \cup ({psbts[p]} \X (SUBSET S))
           Signing(S, psbt, done) ==
               /\ Stateless!Given(right(S), wrong(S), <<psbt, done>>)
               /\ Stateless!Returns("sign_funding_psbt", p,
                      Stateless!FirstFailed(SigningChecks(p, psbt) \o AllSigned(S, done)))
               /\ psbts' = IF Stateless!FirstFailed(SigningChecks(p, psbt)) = "ok"
                           THEN SignedPsbts(p, done, psbt) ELSE psbts
           o == setup.terms
           a == view[p].accept
           other == IF p = "offer" THEN "accept" ELSE "offer"
<1>1. psbts[p] # None /\ UNCHANGED <<setup, view, funding>>
  BY SignFundingPsbtGives
<1>9. PICK S \in SUBSET Stateless!Ordinary(p) : \E psbt, done : Signing(S, psbt, done)
  BY SignFundingPsbtGives
<1>2. PICK psbt, done : Signing(S, psbt, done)
  BY <1>9
<1>3. faults' \in Nat /\ (faults' = 0 => faults = 0 /\ <<psbt, done>> = right(S))
  BY <1>2, NothingWrong DEF HonestInv
<1>4. ASSUME faults' = 0
      PROVE  SameOffer' /\ SameAnswer' /\ SignaturesSent' /\ NoCallFails' /\ FundingAccepted'
  <2>1. /\ faults = 0 /\ psbt = psbts[p] /\ done = S
        /\ SameOffer /\ SameAnswer /\ SignaturesSent /\ FundingAccepted
    BY <1>3, <1>4 DEF HonestInv
  <2>2. p \in {"offer", "accept"} /\ DOMAIN psbts = {"offer", "accept"}
    BY DEF Stateless!Parties, MessagesInv, KeptOK
  <2>3. view[p].offer = o /\ Agreement(o, a) /\ PsbtOK(o, a, psbts[p])
    <3>1. CASE p = "offer"
      BY <1>1, <2>1, <3>1, AnswerAgreed DEF OfferReady
    <3>2. CASE p = "accept"
      BY <1>1, <2>1, <3>2, AcceptAgreed DEF AcceptReady
    <3> QED BY <2>2, <3>1, <3>2
  <2>4. /\ Stateless!FirstFailed(SigningChecks(p, psbt)) = "ok"
        /\ Stateless!FirstFailed(SigningChecks(p, psbt) \o AllSigned(S, done)) = "ok"
    <3>1. /\ Stateless!FirstFailed(SigningChecks(p, psbt)) = "ok"
          /\ Stateless!FirstFailed(SigningChecks(p, psbt) \o AllSigned(S, S)) = "ok"
      BY <2>1, <2>3, SigningChecksPass DEF PsbtOK, Agreement
    <3> QED BY <2>1, <3>1
  <2>5. psbts' = SignedPsbts(p, S, psbts[p]) /\ result'.error = "ok"
    BY <1>2, <2>1, <2>4 DEF Stateless!Returns
  <2>6. PsbtOK(o, a, psbts'[p])
    <3>1. PsbtOK(o, a, SignedPsbts(p, S, psbts[p])[p])
      BY <2>2, <2>3, SignedPsbtIs
    <3> QED BY <2>5, <3>1
  <2>7. psbts'[other] = psbts[other]
    BY <2>2, <2>5 DEF SignedPsbts
  <2>8. NoCallFails'
    BY <2>5 DEF NoCallFails
  <2>9. SameOffer'
    <3>1. CASE p = "accept"
      <4>1. AcceptReady /\ a = view["accept"].accept
        BY <1>1, <3>1 DEF AcceptReady
      <4> HIDE DEF a
      <4> QED BY <1>1, <2>1, <2>6, <3>1, <4>1 DEF SameOffer
    <3>2. CASE p = "offer"
      BY <1>1, <2>1, <2>7, <3>2 DEF SameOffer, AcceptReady
    <3> QED BY <2>2, <3>1, <3>2
  <2>10. SameAnswer'
    <3>1. CASE p = "offer"
      <4>1. OfferReady /\ a = view["offer"].accept
        BY <1>1, <3>1 DEF OfferReady
      <4> HIDE DEF a
      <4> QED BY <1>1, <2>1, <2>6, <3>1, <4>1 DEF SameAnswer
    <3>2. CASE p = "accept"
      BY <1>1, <2>1, <2>7, <3>2 DEF SameAnswer, OfferReady
    <3> QED BY <2>2, <3>1, <3>2
  <2> QED BY <1>1, <2>1, <2>8, <2>9, <2>10 DEF SignaturesSent, FundingAccepted
<1> QED BY <1>3, <1>4 DEF HonestInv

\* At most a witness is missing.
LEMMA OkOrMissing ==
    ASSUME NEW checks \in Seq(Check)
    PROVE  /\ AllButWitnesses(checks) => Stateless!FirstFailed(checks) \in {"ok", "MissingFinalizedInput"}
           /\ Stateless!FirstFailed(checks) = "ok" => AllPass(checks)
  BY FirstFailedIs

\* sign_accept.
LEMMA SignAcceptHonest == MessagesInv /\ HonestInv /\ Stateless!SignAccept => HonestInv'
<1> SUFFICES ASSUME MessagesInv, HonestInv, Stateless!SignAccept PROVE HonestInv'
  OBVIOUS
<1> DEFINE o == view["offer"].offer
           a == view["offer"].accept
           right == <<psbts["offer"], Stateless!PriorKey("offer"), FundingKey["offer"]>>
           error(psbt, prior, key) == Stateless!FirstFailed(SignAcceptChecks(o, a, psbt, prior, key))
<1>1. /\ view["offer"].accept # None /\ view["offer"].sign = None
      /\ UNCHANGED <<setup, psbts, funding>>
  BY SignAcceptGives
<1>2. PICK psbt, prior, key :
         /\ \E wrong : Stateless!Given(right, wrong, <<psbt, prior, key>>)
         /\ Stateless!Returns("sign_accept", "offer", error(psbt, prior, key))
         /\ view' = IF error(psbt, prior, key) # "ok" THEN view
                    ELSE WithSign(view, "offer", SignMessage(o, a, psbt, prior, key))
  BY SignAcceptGives
<1>3. faults' \in Nat /\ (faults' = 0 => faults = 0 /\ <<psbt, prior, key>> = right)
  BY <1>2, NothingWrong DEF HonestInv
<1>4. ASSUME faults' = 0
      PROVE  SameOffer' /\ SameAnswer' /\ SignaturesSent' /\ NoCallFails' /\ FundingAccepted'
  <2> DEFINE C == SignAcceptChecks(o, a, psbt, prior, key)
             s == SignMessage(o, a, psbt, prior, key)
  <2>1. /\ faults = 0 /\ SameOffer /\ SameAnswer /\ SignaturesSent /\ FundingAccepted
        /\ psbt = psbts["offer"] /\ prior = Stateless!PriorKey("offer") /\ key = FundingKey["offer"]
    BY <1>3, <1>4 DEF HonestInv
  <2>2. OfferReady
    BY <1>1 DEF OfferReady
  <2>3. o = setup.terms /\ Agreement(o, a) /\ Accepted(o, a) /\ PsbtOK(o, a, psbt)
    BY <2>1, <2>2, AnswerAgreed
  <2>4. setup \in Setups /\ HasInputs(o) /\ o.key = FundingKey["offer"]
    BY <2>3, SetupIs DEF Agreement, HasInputs
  <2> HIDE DEF o, a
  <2>5. AllButWitnesses(Stateless!OfferFundingChecks(o, a, psbt, prior))
    <3>1. ASSUME NEW i \in DOMAIN o.inputs, o.inputs[i].dlc # None PROVE prior = o.inputs[i].dlc.local
      BY <2>1, <2>3, <2>4, <3>1, PriorKeyIs
    <3> QED BY <2>4, <3>1, OfferFundingIs DEF HasInputs
  <2>6. C \in Seq(Check) /\ AllButWitnesses(C)
    BY <2>1, <2>3, <2>4, <2>5, SignAcceptChecksAre DEF Accepted, PsbtOK
  <2>7. error(psbt, prior, key) = Stateless!FirstFailed(C)
    OBVIOUS
  <2>8. NoCallFails'
    <3> HIDE DEF C, error
    <3>1. result'.error = Stateless!FirstFailed(C)
      BY <1>2, <2>7 DEF Stateless!Returns
    <3> QED BY <2>6, <3>1, OkOrMissing DEF NoCallFails
  <2>9. ASSUME error(psbt, prior, key) = "ok" PROVE FundingSigsOK(o, a, s)
    <3>1. AllPass(C)
      <4> HIDE DEF C
      <4> QED BY <2>6, <2>7, <2>9, OkOrMissing
    <3>2. AllPass(Stateless!OfferFundingChecks(o, a, psbt, prior))
      BY <2>4, <3>1, SignAcceptChecksAre
    <3> QED BY <2>3, <3>2, SignaturesAre
  <2>10. CASE error(psbt, prior, key) # "ok"
    <3>1. view' = view
      BY <1>2, <2>10
    <3> QED BY <1>1, <2>1, <2>8, <3>1
            DEF SameOffer, SameAnswer, SignaturesSent, FundingAccepted, AcceptReady, OfferReady
  <2>11. CASE error(psbt, prior, key) = "ok"
    <3>1. FundingSigsOK(o, a, s)
      BY <2>9, <2>11
    <3>2. view' = WithSign(view, "offer", s)
      BY <1>2, <2>11
    <3> HIDE DEF s
    <3>3. /\ view'["accept"] = view["accept"]
          /\ view'["offer"].accept = view["offer"].accept /\ view'["offer"].sign = s
      <4>1. ViewOK(view)
        BY DEF MessagesInv, KeptOK
      <4> QED BY <3>2, <4>1, SignIsKept
    <3>4. SignaturesSent'
      BY <1>1, <2>3, <3>1, <3>3 DEF SignaturesSent, a
    <3> QED BY <1>1, <2>1, <2>8, <3>3, <3>4
            DEF SameOffer, SameAnswer, FundingAccepted, AcceptReady, OfferReady
  <2> QED BY <2>10, <2>11
<1> QED BY <1>3, <1>4 DEF HonestInv

\* finalize_sign.
LEMMA FinalizeSignHonest == MessagesInv /\ HonestInv /\ Stateless!FinalizeSign => HonestInv'
<1> SUFFICES ASSUME MessagesInv, HonestInv, Stateless!FinalizeSign PROVE HonestInv'
  OBVIOUS
<1> DEFINE o == view["accept"].offer
           a == view["accept"].accept
           right == <<view["offer"].sign, psbts["accept"], Stateless!PriorKey("accept")>>
           error(s, psbt, prior) == Stateless!FirstFailed(FinalizeChecks(o, a, s, psbt, prior))
<1>1. view["offer"].sign # None /\ UNCHANGED <<setup, psbts>>
  BY FinalizeSignGives
<1>2. PICK s, psbt, prior :
         /\ \E wrong : Stateless!Given(right, wrong, <<s, psbt, prior>>)
         /\ Stateless!Returns("finalize_sign", "accept", error(s, psbt, prior))
         /\ IF error(s, psbt, prior) = "ok"
            THEN view' = WithSign(view, "accept", s) /\ funding' = FinalFunding(o, a, s, psbt, prior)
            ELSE UNCHANGED <<view, funding>>
  BY FinalizeSignGives
<1>3. faults' \in Nat /\ (faults' = 0 => faults = 0 /\ <<s, psbt, prior>> = right)
  BY <1>2, NothingWrong DEF HonestInv
<1>4. ASSUME faults' = 0
      PROVE  SameOffer' /\ SameAnswer' /\ SignaturesSent' /\ NoCallFails' /\ FundingAccepted'
  <2> DEFINE C == FinalizeChecks(o, a, s, psbt, prior)
  <2>1. /\ faults = 0 /\ SameOffer /\ SameAnswer /\ SignaturesSent /\ FundingAccepted
        /\ s = view["offer"].sign /\ psbt = psbts["accept"] /\ prior = Stateless!PriorKey("accept")
    BY <1>3, <1>4 DEF HonestInv
  <2>2. OfferReady /\ SignedBy(view["offer"].offer, view["offer"].accept, s)
    BY <1>1, <2>1 DEF OfferReady, MessagesInv, SignOK
  <2>3. /\ o = setup.terms /\ view["offer"].offer = o /\ view["offer"].accept = a
        /\ Agreement(o, a) /\ PsbtOK(o, a, psbt)
    BY <2>1, <2>2, AnswerAgreed
  <2> HIDE DEF o, a
  <2>4. SignedBy(o, a, s) /\ FundingSigsOK(o, a, s)
    BY <1>1, <2>1, <2>2, <2>3 DEF SignaturesSent
  <2>5. FinalizeOK(o, a, s, psbt, prior)
    BY <2>1, <2>3, <2>4, FinalizeIsOK
  <2>6. HasInputs(a)
    BY <2>3, AgreedKinds
  <2>7. C \in Seq(Check) /\ AllButWitnesses(C)
    BY <2>5, <2>6, FinalizeChecksAre
  <2>8. error(s, psbt, prior) = Stateless!FirstFailed(C)
    OBVIOUS
  <2>9. NoCallFails'
    <3> HIDE DEF C, error
    <3>1. result'.error = Stateless!FirstFailed(C)
      BY <1>2, <2>8 DEF Stateless!Returns
    <3> QED BY <2>7, <3>1, OkOrMissing DEF NoCallFails
  <2>10. CASE error(s, psbt, prior) # "ok"
    <3>1. view' = view /\ funding' = funding
      BY <1>2, <2>10
    <3> QED BY <1>1, <2>1, <2>9, <3>1
            DEF SameOffer, SameAnswer, SignaturesSent, FundingAccepted, AcceptReady, OfferReady
  <2>11. CASE error(s, psbt, prior) = "ok"
    <3>1. AllPass(C)
      <4> HIDE DEF C
      <4> QED BY <2>7, <2>8, <2>11, OkOrMissing
    <3>2. AllPass(Stateless!AcceptFundingChecks(o, a, psbt))
      BY <2>6, <3>1, FinalizeChecksAre
    <3>3. Stateless!NetworkAccepts(FinalFunding(o, a, s, psbt, prior))
      BY <2>1, <2>3, <2>4, <3>2, FundingIsAccepted
    <3>4. view' = WithSign(view, "accept", s) /\ funding' = FinalFunding(o, a, s, psbt, prior)
      BY <1>2, <2>11
    <3>5. FundingAccepted'
      BY <3>3, <3>4 DEF FundingAccepted
    <3>6. /\ view'["offer"] = view["offer"]
          /\ view'["accept"].offer = view["accept"].offer /\ view'["accept"].accept = view["accept"].accept
      <4>1. ViewOK(view)
        BY DEF MessagesInv, KeptOK
      <4> QED BY <3>4, <4>1, SignIsKept
    <3> QED BY <1>1, <2>1, <2>9, <3>5, <3>6
            DEF SameOffer, SameAnswer, SignaturesSent, AcceptReady, OfferReady
  <2> QED BY <2>10, <2>11
<1> QED BY <1>3, <1>4 DEF HonestInv

\* sign_refund.
LEMMA SignRefundHonest ==
    ASSUME NEW p \in Stateless!Parties
    PROVE  MessagesInv /\ HonestInv /\ Stateless!SignRefund(p) => HonestInv'
<1> SUFFICES ASSUME MessagesInv, HonestInv, Stateless!SignRefund(p) PROVE HonestInv'
  OBVIOUS
<1> DEFINE refund(key) == Stateless!RefundOf(view[p].offer, view[p].accept, view[p].sign, key)
<1>1. view[p].sign # None /\ UNCHANGED <<setup, view, psbts, funding>>
  BY DEF Stateless!SignRefund, Stateless!Settling
<1>2. PICK key : /\ \E wrong : Stateless!Given(FundingKey[p], wrong, key)
                 /\ result'.call = "sign_refund" /\ result'.error = refund(key).error
  BY DEF Stateless!SignRefund, Stateless!ReturnsSettled
<1>3. faults' \in Nat /\ (faults' = 0 => faults = 0 /\ key = FundingKey[p])
  BY <1>2, NothingWrong DEF HonestInv
<1>4. Messages(view[p].offer, view[p].accept, view[p].sign, p, FundingKey[p])
  BY <1>1, PartyIsReady
<1>5. refund(FundingKey[p]).error = "ok"
  BY <1>4, RefundIsReady
<1>6. faults' = 0 => NoCallFails'
  <2> HIDE DEF refund
  <2> QED BY <1>2, <1>3, <1>5 DEF NoCallFails
<1> QED BY <1>1, <1>3, <1>6, NothingChanged

\* sign_cet.
LEMMA SignCetHonest ==
    ASSUME NEW p \in Stateless!Parties
    PROVE  HonestInv /\ Stateless!SignCet(p) => HonestInv'
<1> SUFFICES ASSUME HonestInv, Stateless!SignCet(p) PROVE HonestInv'
  OBVIOUS
<1>1. UNCHANGED <<setup, view, psbts, funding>>
  BY DEF Stateless!SignCet
<1>2. \E right, wrong, arg : Stateless!Given(right, wrong, arg)
  BY DEF Stateless!SignCet
<1>3. result'.call = "sign_cet"
  <2>1. \E got, s : Stateless!ReturnsSettled("sign_cet", p, got, s)
    BY DEF Stateless!SignCet
  <2> QED BY <2>1 DEF Stateless!ReturnsSettled
<1>4. faults' \in Nat /\ (faults' = 0 => faults = 0)
  BY <1>2, NothingWrong DEF HonestInv
<1>5. NoCallFails'
  BY <1>3 DEF NoCallFails
<1> QED BY <1>1, <1>4, <1>5, NothingChanged

\* Every call.
LEMMA HonestInvNext == MessagesInv /\ HonestInv /\ Stateless!Next => HonestInv'
<1> SUFFICES ASSUME MessagesInv, HonestInv, Stateless!Next PROVE HonestInv'
  OBVIOUS
<1>1. CASE Stateless!CreateOffer
  BY <1>1, CreateOfferHonest
<1>2. CASE Stateless!AcceptOffer
  BY <1>2, AcceptOfferHonest
<1>3. CASE Stateless!CreateFundingPsbt
  BY <1>3, CreateFundingPsbtHonest
<1>4. CASE Stateless!SignAccept
  BY <1>4, SignAcceptHonest
<1>5. CASE Stateless!FinalizeSign
  BY <1>5, FinalizeSignHonest
<1>6. ASSUME NEW p \in Stateless!Parties, Stateless!SignFundingPsbt(p) PROVE HonestInv'
  BY <1>6, SignFundingPsbtHonest
<1>7. ASSUME NEW p \in Stateless!Parties, Stateless!SignRefund(p) PROVE HonestInv'
  BY <1>7, SignRefundHonest
<1>8. ASSUME NEW p \in Stateless!Parties, Stateless!SignCet(p) PROVE HonestInv'
  BY <1>8, SignCetHonest
<1> QED BY <1>1, <1>2, <1>3, <1>4, <1>5, <1>6, <1>7, <1>8 DEF Stateless!Next

-----------------------------------------------------------------------------
(***************************************************************************)
(* The exchange, with a manager and without one.                           *)
(***************************************************************************)
\* What holds of the exchange.
ExchangeInv ==
    /\ part = "signatures" => SignaturesInv
    /\ part = "stateless" => MessagesInv /\ HonestInv

\* It holds throughout either exchange.
LEMMA ExchangeInvHolds == ExchangeSpec => []ExchangeInv
<1>1. ExchangeInit => ExchangeInv
  BY SignaturesInvInit, MessagesInvInit, HonestInvInit DEF ExchangeInit, ExchangeInv
<1>2. ExchangeInv /\ [ExchangeNext]_<<part, signatures, stateless>> => ExchangeInv'
  <2> SUFFICES ASSUME ExchangeInv, [ExchangeNext]_<<part, signatures, stateless>> PROVE ExchangeInv'
    OBVIOUS
  <2>1. CASE part = "signatures" /\ Signatures!Next /\ UNCHANGED <<part, stateless>>
    <3>1. SignaturesInv' /\ part' = "signatures"
      BY <2>1, SignaturesInvNext DEF ExchangeInv
    <3> QED BY <3>1 DEF ExchangeInv
  <2>2. CASE part = "stateless" /\ Stateless!Next /\ UNCHANGED <<part, signatures>>
    <3>1. MessagesInv' /\ HonestInv' /\ part' = "stateless"
      BY <2>2, MessagesInvNext, HonestInvNext DEF ExchangeInv
    <3> QED BY <3>1 DEF ExchangeInv
  <2>3. CASE UNCHANGED <<part, signatures, stateless>>
    <3>1. part' = part
      BY <2>3
    <3>2. SignaturesInv => SignaturesInv'
      <4>1. UNCHANGED <<contract, order, exchange, signed, altered, witness>>
        BY <2>3 DEF signatures
      <4> QED BY <4>1, SignaturesInvStays
    <3>3. MessagesInv => MessagesInv'
      BY <2>3, SettlingKeeps DEF stateless
    <3>4. HonestInv => HonestInv'
      <4>1. UNCHANGED <<setup, view, psbts, funding, faults, result>>
        BY <2>3 DEF stateless
      <4> QED
        BY <4>1 DEF HonestInv, SameOffer, SameAnswer, SignaturesSent, NoCallFails, FundingAccepted,
           AcceptReady, OfferReady
    <3> QED BY <3>1, <3>2, <3>3, <3>4 DEF ExchangeInv
  <2> QED BY <2>1, <2>2, <2>3 DEF ExchangeNext
<1> QED BY <1>1, <1>2, PTL DEF ExchangeSpec

\* HonestFundingCompletes, for every contract and setup: unless something wrong was
\* sent or handed over, no call of the exchange fails but for a witness that is not
\* there yet, and the network accepts the funding transaction that VerifySigned or
\* finalize_sign completes.
THEOREM FundingCompletes == ExchangeSpec => []HonestFundingCompletes
<1>1. ExchangeInv => HonestFundingCompletes
  BY HonestCompletes DEF ExchangeInv, SignaturesInv, HonestFundingCompletes
<1> QED BY <1>1, ExchangeInvHolds, PTL

\* FundedIsCovered, for every contract of one event and every setup: whatever was sent
\* or handed over, verify_accepted_and_sign_contract and verify_signed_contract, or
\* sign_accept and finalize_sign, let a funding witness out only for a contract that
\* sign_refund can refund and sign_cet settle, with every outcome and quorum.
THEOREM FundedContractsAreCovered ==
    ASSUME \A c \in Contracts : Len(c) = 1
    PROVE  ExchangeSpec => []FundedIsCovered
<1>1. ExchangeInv => FundedIsCovered
  BY SignaturesCover, MessagesCover DEF ExchangeInv, FundedIsCovered
<1> QED BY <1>1, ExchangeInvHolds, PTL

=============================================================================
