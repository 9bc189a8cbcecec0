------------------------ MODULE PostgresStoreProofs ------------------------
(***************************************************************************)
(* PostgresStore keeps both halves of every contract in step, and          *)
(* implements Store: for any clients, identifiers, calls and pool size.    *)
(***************************************************************************)
EXTENDS PostgresStore, FiniteSetTheorems, SequenceTheorems, TLAPS

-----------------------------------------------------------------------------
(* Sequences of statements.                                                *)

(* An enumeration of a finite set lists its elements, and nothing else.    *)
LEMMA Enumeration ==
    ASSUME NEW S, IsFiniteSet(S)
    PROVE  /\ Cardinality(S) \in Nat
           /\ SetToSeq(S) \in [1..Cardinality(S) -> S]
           /\ \A x \in S : \E i \in 1..Cardinality(S) : SetToSeq(S)[i] = x
<1> DEFINE n == Cardinality(S)
<1>1. n \in Nat /\ ExistsBijection(1..n, S)
    BY FS_CardinalityType
<1>2. PICK b \in Bijection(1..n, S) : TRUE
    BY <1>1, Zenon DEF ExistsBijection
<1>3. b \in [1..n -> S] /\ IsInjective(b)
    BY <1>2, Zenon DEF Bijection, Injection
<1>4. SetToSeq(S) \in [1..n -> S] /\ IsInjective(SetToSeq(S))
  <2>1. \E f \in [1..n -> S] : IsInjective(f)
      BY <1>3
  <2>2. SetToSeq(S) = CHOOSE f \in [1..n -> S] : IsInjective(f)
      BY Zenon DEF SetToSeq
  <2>. QED  BY <2>1, <2>2, Zenon
<1>5. SetToSeq(S) \in Injection(1..n, S)
    BY <1>4, Zenon DEF Injection
<1>6. Cardinality(1..n) = n
    BY <1>1, FS_Interval
<1>7. SetToSeq(S) \in Surjection(1..n, S)
    BY <1>5, <1>6, FS_Injection, Zenon
<1>. QED  BY <1>1, <1>4, <1>7, Zenon DEF Surjection

(* What is left of a list once its first entry is done.                    *)
LEMMA TailRange ==
    ASSUME NEW X, NEW s \in Seq(X), s # <<>>
    PROVE  /\ Head(s) \in Range(s)
           /\ Tail(s) \in Seq(X)
           /\ Range(Tail(s)) \subseteq Range(s)
           /\ Range(s) \subseteq Range(Tail(s)) \cup {Head(s)}
<1>1. /\ Head(s) = s[1] /\ Tail(s) \in Seq(X) /\ Len(Tail(s)) = Len(s) - 1
      /\ \A i \in 1..Len(Tail(s)) : Tail(s)[i] = s[i + 1]
    BY HeadTailProperties
<1>2. Len(s) \in Nat \ {0} /\ DOMAIN s = 1..Len(s) /\ DOMAIN Tail(s) = 1..Len(Tail(s))
    BY <1>1, EmptySeq, LenProperties
<1>3. Head(s) \in Range(s)
    BY <1>1, <1>2 DEF Range
<1>4. ASSUME NEW x \in Range(Tail(s))
      PROVE  x \in Range(s)
  <2>1. PICK i \in 1..Len(Tail(s)) : x = Tail(s)[i]
      BY <1>2 DEF Range
  <2>2. i + 1 \in 1..Len(s) /\ x = s[i + 1]
      BY <2>1, <1>1, <1>2
  <2>. QED  BY <2>2, <1>2 DEF Range
<1>5. ASSUME NEW x \in Range(s), x # Head(s)
      PROVE  x \in Range(Tail(s))
  <2>1. PICK i \in 1..Len(s) : x = s[i]
      BY <1>2 DEF Range
  <2>2. i # 1
      BY <2>1, <1>1, <1>5
  <2>3. i - 1 \in 1..Len(Tail(s)) /\ x = Tail(s)[i - 1]
      BY <2>1, <2>2, <1>1, <1>2
  <2>. QED  BY <2>3, <1>2 DEF Range
<1>. QED  BY <1>1, <1>3, <1>4, <1>5

(* No entry of D comes after one that is not in D.                         *)
First(D, s) == \A i, j \in DOMAIN s : i < j /\ s[j] \in D => s[i] \in D

LEMMA FirstOfTail ==
    ASSUME NEW X, NEW D, NEW s \in Seq(X), s # <<>>, First(D, s)
    PROVE  First(D, Tail(s)) /\ (Head(s) \notin D => Range(Tail(s)) \cap D = {})
<1>1. /\ Head(s) = s[1] /\ Tail(s) \in Seq(X) /\ Len(Tail(s)) = Len(s) - 1
      /\ \A i \in 1..Len(Tail(s)) : Tail(s)[i] = s[i + 1]
    BY HeadTailProperties
<1>2. Len(s) \in Nat \ {0} /\ DOMAIN s = 1..Len(s) /\ DOMAIN Tail(s) = 1..Len(Tail(s))
    BY <1>1, EmptySeq, LenProperties
<1>3. ASSUME NEW i \in DOMAIN Tail(s), NEW j \in DOMAIN Tail(s), i < j, Tail(s)[j] \in D
      PROVE  Tail(s)[i] \in D
  <2>1. i + 1 \in DOMAIN s /\ j + 1 \in DOMAIN s /\ i + 1 < j + 1 /\ s[j + 1] \in D
      BY <1>1, <1>2, <1>3
  <2>2. s[i + 1] \in D
      BY <2>1 DEF First
  <2>. QED  BY <2>2, <1>1, <1>2
<1>4. ASSUME Head(s) \notin D, NEW x \in Range(Tail(s)), x \in D
      PROVE  FALSE
  <2>1. PICK i \in 1..Len(Tail(s)) : x = Tail(s)[i]
      BY <1>2 DEF Range
  <2>2. 1 \in DOMAIN s /\ i + 1 \in DOMAIN s /\ 1 < i + 1 /\ s[i + 1] \in D
      BY <2>1, <1>1, <1>2, <1>4
  <2>3. s[1] \in D
      BY <2>2 DEF First
  <2>. QED  BY <2>3, <1>1, <1>4
<1>. QED  BY <1>3, <1>4 DEF First

(* Entries of D first, then a list without any.                            *)
LEMMA FirstOfConcat ==
    ASSUME NEW X, NEW D, NEW s \in Seq(X), NEW t \in Seq(X),
           First(D, s), Range(t) \cap D = {}
    PROVE  First(D, s \o t)
<1>1. /\ s \o t \in Seq(X) /\ Len(s \o t) = Len(s) + Len(t)
      /\ \A i \in 1..Len(s) + Len(t) :
            (s \o t)[i] = IF i <= Len(s) THEN s[i] ELSE t[i - Len(s)]
    BY ConcatProperties
<1>2. /\ Len(s) \in Nat /\ Len(t) \in Nat /\ DOMAIN s = 1..Len(s) /\ DOMAIN t = 1..Len(t)
      /\ DOMAIN (s \o t) = 1..Len(s) + Len(t)
    BY <1>1, LenProperties
<1> SUFFICES ASSUME NEW i \in DOMAIN (s \o t), NEW j \in DOMAIN (s \o t),
                    i < j, (s \o t)[j] \in D
             PROVE  (s \o t)[i] \in D
    BY Zenon DEF First
<1>3. CASE j <= Len(s)
  <2>1. i \in DOMAIN s /\ j \in DOMAIN s /\ s[j] \in D /\ (s \o t)[i] = s[i]
      BY <1>1, <1>2, <1>3
  <2>. QED  BY <2>1 DEF First
<1>4. CASE j > Len(s)
  <2>1. j - Len(s) \in DOMAIN t /\ t[j - Len(s)] \in D
      BY <1>1, <1>2, <1>4
  <2>. QED  BY <2>1 DEF Range
<1>. QED  BY <1>2, <1>3, <1>4

(* s lists the elements of T, in some order.                               *)
Lists(s, T) == s \in Seq(T) /\ Range(s) = T

LEMMA ListsConcat ==
    ASSUME NEW S, NEW T, NEW s, NEW t, Lists(s, S), Lists(t, T)
    PROVE  Lists(s \o t, S \cup T)
<1>1. s \in Seq(S \cup T) /\ t \in Seq(S \cup T)
    BY SeqMonotonic DEF Lists
<1>2. s \o t \in Seq(S \cup T)
    BY <1>1, ConcatProperties
<1>3. Range(s \o t) = Range(s) \cup Range(t)
    BY <1>1, RangeConcatenation
<1>. QED  BY <1>2, <1>3 DEF Lists

(* The values of g on S, in the order of an enumeration of S.              *)
Listed(g, S) == [i \in DOMAIN SetToSeq(S) |-> g[SetToSeq(S)[i]]]
Values(g, S) == {g[x] : x \in S}

LEMMA ListsImage ==
    ASSUME NEW S, IsFiniteSet(S), NEW g
    PROVE  Lists(Listed(g, S), Values(g, S))
<1> DEFINE n == Cardinality(S)
           T == Values(g, S)
           s == Listed(g, S)
<1>1. /\ n \in Nat /\ SetToSeq(S) \in [1..n -> S]
      /\ \A x \in S : \E i \in 1..n : SetToSeq(S)[i] = x
    BY Enumeration
<1>2. s \in [1..n -> T]
    BY <1>1 DEF Listed, Values
<1>3. s \in Seq(T)
    BY <1>1, <1>2, SeqDef
<1>4. \A x \in S : \E i \in 1..n : s[i] = g[x]
    BY <1>1 DEF Listed
<1>5. Range(s) = T
    BY <1>2, <1>4 DEF Range, Values
<1>. QED  BY <1>3, <1>5 DEF Lists

-----------------------------------------------------------------------------
(* The statements that persist a change set.                               *)

Described(cs) == {Statement("ignore", Row("keychain", k), 0) : k \in cs.descriptors}
Revealed(cs) ==
    {Statement("greatest", Row("keychain", k), cs.revealed[k]) :
        k \in {j \in Keychains : cs.revealed[j] > 0}}
Cached(cs) == {Statement("ignore", Row("spk_cache", k), TRUE) : k \in cs.spks}
BlockChange(cs, h) ==
    IF cs.blocks[h] = None THEN Statement("delete", Row("block", h), None)
    ELSE Statement("upsert", Row("block", h), cs.blocks[h])
Linked(cs) == {BlockChange(cs, h) : h \in cs.heights}
TxChange(t, row) == Statement("merge", Row("tx", t), row)
Known(cs) == {TxChange(t, TxRow(TRUE, 0, 0, 0)) : t \in cs.txs}
LastSeen(cs) ==
    {TxChange(t, TxRow(FALSE, cs.last_seen[t], 0, 0)) : t \in {u \in Txs : cs.last_seen[u] > 0}}
FirstSeen(cs) ==
    {TxChange(t, TxRow(FALSE, 0, cs.first_seen[t], 0)) : t \in {u \in Txs : cs.first_seen[u] > 0}}
LastEvicted(cs) ==
    {TxChange(t, TxRow(FALSE, 0, 0, cs.last_evicted[t])) :
        t \in {u \in Txs : cs.last_evicted[u] > 0}}
Anchored(cs) == {Statement("reference", Row("anchor_tx", a), TRUE) : a \in cs.anchors}

OfTxGraph(cs) == Known(cs) \cup LastSeen(cs) \cup FirstSeen(cs) \cup LastEvicted(cs) \cup Anchored(cs)
NotDescribed(cs) == Revealed(cs) \cup Cached(cs) \cup Linked(cs) \cup OfTxGraph(cs)
OfWallet(cs) == Described(cs) \cup NotDescribed(cs)

LEMMA ChangeSetsAreFinite ==
    ASSUME NEW cs \in ChangeSet
    PROVE  /\ IsFiniteSet(cs.descriptors) /\ IsFiniteSet(cs.spks) /\ IsFiniteSet(cs.heights)
           /\ IsFiniteSet(cs.txs) /\ IsFiniteSet(cs.anchors)
           /\ \A S \in SUBSET Keychains : IsFiniteSet(S)
           /\ \A S \in SUBSET Txs : IsFiniteSet(S)
<1>1. /\ cs.descriptors \in SUBSET Keychains /\ cs.spks \in SUBSET Keychains
      /\ cs.heights \in SUBSET Heights /\ cs.txs \in SUBSET Txs
      /\ cs.anchors \in SUBSET (Txs \X Hashes)
    BY DEF ChangeSet
<1>2. IsFiniteSet(Txs \X Hashes)
    BY StoreAssumption, FS_Product
<1>. QED  BY <1>1, <1>2, StoreAssumption, FS_Subset

LEMMA WalletLists ==
    ASSUME NEW cs \in ChangeSet
    PROVE  /\ Lists(InsertDescriptor(cs), Described(cs))
           /\ Lists(UpdateLastRevealed(cs), Revealed(cs))
           /\ Lists(PersistSpkCache(cs), Cached(cs))
           /\ Lists(PersistLocalChain(cs), Linked(cs))
<1>1. Lists(InsertDescriptor(cs), Described(cs))
  <2> DEFINE S == cs.descriptors
             g == [k \in S |-> Statement("ignore", Row("keychain", k), 0)]
  <2>1. InsertDescriptor(cs) = Listed(g, S)
      BY ChangeSetsAreFinite, Enumeration DEF InsertDescriptor, ForEach, Listed
  <2>2. Described(cs) = Values(g, S)
      BY DEF Described, Values
  <2>3. IsFiniteSet(S)
      BY ChangeSetsAreFinite
  <2> HIDE DEF g, S
  <2>. QED  BY <2>1, <2>2, <2>3, ListsImage, Zenon
<1>2. Lists(UpdateLastRevealed(cs), Revealed(cs))
  <2> DEFINE S == {k \in Keychains : cs.revealed[k] > 0}
             g == [k \in S |-> Statement("greatest", Row("keychain", k), cs.revealed[k])]
  <2>1. UpdateLastRevealed(cs) = Listed(g, S)
      BY ChangeSetsAreFinite, Enumeration DEF UpdateLastRevealed, ForEach, Listed
  <2>2. Revealed(cs) = Values(g, S)
      BY DEF Revealed, Values
  <2>3. IsFiniteSet(S)
      BY ChangeSetsAreFinite
  <2> HIDE DEF g, S
  <2>. QED  BY <2>1, <2>2, <2>3, ListsImage, Zenon
<1>3. Lists(PersistSpkCache(cs), Cached(cs))
  <2> DEFINE S == cs.spks
             g == [k \in S |-> Statement("ignore", Row("spk_cache", k), TRUE)]
  <2>1. PersistSpkCache(cs) = Listed(g, S)
      BY ChangeSetsAreFinite, Enumeration DEF PersistSpkCache, ForEach, Listed
  <2>2. Cached(cs) = Values(g, S)
      BY DEF Cached, Values
  <2>3. IsFiniteSet(S)
      BY ChangeSetsAreFinite
  <2> HIDE DEF g, S
  <2>. QED  BY <2>1, <2>2, <2>3, ListsImage, Zenon
<1>4. Lists(PersistLocalChain(cs), Linked(cs))
  <2> DEFINE S == cs.heights
             g == [h \in S |-> BlockChange(cs, h)]
  <2>1. PersistLocalChain(cs) = Listed(g, S)
      BY ChangeSetsAreFinite, Enumeration DEF PersistLocalChain, ForEach, BlockChange, Listed
  <2>2. Linked(cs) = Values(g, S)
      BY DEF Linked, Values
  <2>3. IsFiniteSet(S)
      BY ChangeSetsAreFinite
  <2> HIDE DEF g, S
  <2>. QED  BY <2>1, <2>2, <2>3, ListsImage, Zenon
<1>. QED  BY <1>1, <1>2, <1>3, <1>4

LEMMA TxGraphLists ==
    ASSUME NEW cs \in ChangeSet
    PROVE  Lists(PersistTxGraph(cs), OfTxGraph(cs))
<1> DEFINE A == ForEach(cs.txs, LAMBDA t : Statement("merge", Row("tx", t), TxRow(TRUE, 0, 0, 0)))
           B == ForEach({t \in Txs : cs.last_seen[t] > 0},
                   LAMBDA t : Statement("merge", Row("tx", t), TxRow(FALSE, cs.last_seen[t], 0, 0)))
           C == ForEach({t \in Txs : cs.first_seen[t] > 0},
                   LAMBDA t : Statement("merge", Row("tx", t), TxRow(FALSE, 0, cs.first_seen[t], 0)))
           D == ForEach({t \in Txs : cs.last_evicted[t] > 0},
                   LAMBDA t : Statement("merge", Row("tx", t), TxRow(FALSE, 0, 0, cs.last_evicted[t])))
           E == ForEach(cs.anchors, LAMBDA a : Statement("reference", Row("anchor_tx", a), TRUE))
<1>1. Lists(A, Known(cs))
  <2> DEFINE S == cs.txs
             g == [t \in S |-> TxChange(t, TxRow(TRUE, 0, 0, 0))]
  <2>1. A = Listed(g, S)
      BY ChangeSetsAreFinite, Enumeration DEF ForEach, TxChange, Listed
  <2>2. Known(cs) = Values(g, S)
      BY DEF Known, Values
  <2>3. IsFiniteSet(S)
      BY ChangeSetsAreFinite
  <2> HIDE DEF g, S
  <2>. QED  BY <2>1, <2>2, <2>3, ListsImage, Zenon
<1>2. Lists(B, LastSeen(cs))
  <2> DEFINE S == {t \in Txs : cs.last_seen[t] > 0}
             g == [t \in S |-> TxChange(t, TxRow(FALSE, cs.last_seen[t], 0, 0))]
  <2>1. B = Listed(g, S)
      BY ChangeSetsAreFinite, Enumeration DEF ForEach, TxChange, Listed
  <2>2. LastSeen(cs) = Values(g, S)
      BY DEF LastSeen, Values
  <2>3. IsFiniteSet(S)
      BY ChangeSetsAreFinite
  <2> HIDE DEF g, S
  <2>. QED  BY <2>1, <2>2, <2>3, ListsImage, Zenon
<1>3. Lists(C, FirstSeen(cs))
  <2> DEFINE S == {t \in Txs : cs.first_seen[t] > 0}
             g == [t \in S |-> TxChange(t, TxRow(FALSE, 0, cs.first_seen[t], 0))]
  <2>1. C = Listed(g, S)
      BY ChangeSetsAreFinite, Enumeration DEF ForEach, TxChange, Listed
  <2>2. FirstSeen(cs) = Values(g, S)
      BY DEF FirstSeen, Values
  <2>3. IsFiniteSet(S)
      BY ChangeSetsAreFinite
  <2> HIDE DEF g, S
  <2>. QED  BY <2>1, <2>2, <2>3, ListsImage, Zenon
<1>4. Lists(D, LastEvicted(cs))
  <2> DEFINE S == {t \in Txs : cs.last_evicted[t] > 0}
             g == [t \in S |-> TxChange(t, TxRow(FALSE, 0, 0, cs.last_evicted[t]))]
  <2>1. D = Listed(g, S)
      BY ChangeSetsAreFinite, Enumeration DEF ForEach, TxChange, Listed
  <2>2. LastEvicted(cs) = Values(g, S)
      BY DEF LastEvicted, Values
  <2>3. IsFiniteSet(S)
      BY ChangeSetsAreFinite
  <2> HIDE DEF g, S
  <2>. QED  BY <2>1, <2>2, <2>3, ListsImage, Zenon
<1>5. Lists(E, Anchored(cs))
  <2> DEFINE S == cs.anchors
             g == [a \in S |-> Statement("reference", Row("anchor_tx", a), TRUE)]
  <2>1. E = Listed(g, S)
      BY ChangeSetsAreFinite, Enumeration DEF ForEach, Listed
  <2>2. Anchored(cs) = Values(g, S)
      BY DEF Anchored, Values
  <2>3. IsFiniteSet(S)
      BY ChangeSetsAreFinite
  <2> HIDE DEF g, S
  <2>. QED  BY <2>1, <2>2, <2>3, ListsImage, Zenon
<1>6. PersistTxGraph(cs) = (((A \o B) \o C) \o D) \o E
    BY Zenon DEF PersistTxGraph
<1> HIDE DEF A, B, C, D, E
<1>7. Lists(A \o B, Known(cs) \cup LastSeen(cs))
    BY <1>1, <1>2, ListsConcat
<1>8. Lists((A \o B) \o C, Known(cs) \cup LastSeen(cs) \cup FirstSeen(cs))
    BY <1>3, <1>7, ListsConcat
<1>9. Lists(((A \o B) \o C) \o D, Known(cs) \cup LastSeen(cs) \cup FirstSeen(cs) \cup LastEvicted(cs))
    BY <1>4, <1>8, ListsConcat
<1>10. Lists(PersistTxGraph(cs), OfTxGraph(cs))
    BY <1>5, <1>6, <1>9, ListsConcat DEF OfTxGraph
<1>. QED  BY <1>10

(* Every change of the change set is written, the descriptors first.       *)
LEMMA WriteLists ==
    ASSUME NEW cs \in ChangeSet
    PROVE  Lists(Write(cs), OfWallet(cs)) /\ First(Described(cs), Write(cs))
<1> DEFINE A == InsertDescriptor(cs)
           B == UpdateLastRevealed(cs)
           C == PersistSpkCache(cs)
           D == PersistLocalChain(cs)
           E == PersistTxGraph(cs)
           I == Described(cs)
<1>1. /\ Lists(A, I) /\ Lists(B, Revealed(cs)) /\ Lists(C, Cached(cs)) /\ Lists(D, Linked(cs))
      /\ Lists(E, OfTxGraph(cs))
    BY WalletLists, TxGraphLists
<1>2. Write(cs) = (((A \o B) \o C) \o D) \o E
    BY Zenon DEF Write
<1>3. Lists(A \o B, I \cup Revealed(cs))
    BY <1>1, ListsConcat
<1>4. Lists((A \o B) \o C, I \cup Revealed(cs) \cup Cached(cs))
    BY <1>1, <1>3, ListsConcat
<1>5. Lists(((A \o B) \o C) \o D, I \cup Revealed(cs) \cup Cached(cs) \cup Linked(cs))
    BY <1>1, <1>4, ListsConcat
<1>6. Lists(Write(cs), OfWallet(cs))
  <2>1. Lists(Write(cs), (I \cup Revealed(cs) \cup Cached(cs) \cup Linked(cs)) \cup OfTxGraph(cs))
      BY <1>1, <1>2, <1>5, ListsConcat
  <2>2. OfWallet(cs) = (I \cup Revealed(cs) \cup Cached(cs) \cup Linked(cs)) \cup OfTxGraph(cs)
      BY DEF OfWallet, NotDescribed
  <2>. QED  BY <2>1, <2>2
<1>7. I \cap NotDescribed(cs) = {}
  <2>1. \A s \in I : s.do = "ignore" /\ s.row[1] = "keychain"
      BY DEF Described, Statement, Row
  <2>2. \A s \in Revealed(cs) : s.do = "greatest"
      BY DEF Revealed, Statement
  <2>3. \A s \in Cached(cs) : s.row[1] = "spk_cache"
      BY DEF Cached, Statement, Row
  <2>4. \A s \in Linked(cs) : s.do \in {"delete", "upsert"}
      BY DEF Linked, BlockChange, Statement
  <2>5. \A s \in Known(cs) \cup LastSeen(cs) \cup FirstSeen(cs) \cup LastEvicted(cs) : s.do = "merge"
    <3>1. \A t, row : TxChange(t, row).do = "merge"
        BY DEF TxChange, Statement
    <3>2. \A s \in Known(cs) : s.do = "merge"
        BY <3>1 DEF Known
    <3>3. \A s \in LastSeen(cs) : s.do = "merge"
        BY <3>1 DEF LastSeen
    <3>4. \A s \in FirstSeen(cs) : s.do = "merge"
        BY <3>1 DEF FirstSeen
    <3>5. \A s \in LastEvicted(cs) : s.do = "merge"
        BY <3>1 DEF LastEvicted
    <3>. QED  BY <3>2, <3>3, <3>4, <3>5
  <2>6. \A s \in Anchored(cs) : s.do = "reference"
      BY DEF Anchored, Statement
  <2> HIDE DEF I
  <2>. QED  BY <2>1, <2>2, <2>3, <2>4, <2>5, <2>6 DEF NotDescribed, OfTxGraph
<1>8. First(I, A)
    BY <1>1 DEF First, Lists, Range
<1> HIDE DEF A, B, C, D, E, I
<1> DEFINE X == OfWallet(cs) \cup I
<1>9. A \in Seq(X) /\ B \in Seq(X) /\ C \in Seq(X) /\ D \in Seq(X) /\ E \in Seq(X)
  <2>1. /\ I \subseteq X /\ Revealed(cs) \subseteq X /\ Cached(cs) \subseteq X /\ Linked(cs) \subseteq X
        /\ OfTxGraph(cs) \subseteq X
      BY DEF OfWallet, NotDescribed
  <2> HIDE DEF X
  <2>. QED  BY <1>1, <2>1, SeqMonotonic, Zenon DEF Lists
<1>10. A \o B \in Seq(X) /\ (A \o B) \o C \in Seq(X) /\ ((A \o B) \o C) \o D \in Seq(X)
  <2> HIDE DEF X
  <2>. QED  BY <1>9, ConcatProperties, Zenon
<1>11. /\ Range(B) \cap I = {} /\ Range(C) \cap I = {} /\ Range(D) \cap I = {} /\ Range(E) \cap I = {}
    BY <1>1, <1>7 DEF Lists, NotDescribed
<1> HIDE DEF X
<1>12. First(I, A \o B)
    BY <1>8, <1>9, <1>11, FirstOfConcat
<1>13. First(I, (A \o B) \o C)
    BY <1>9, <1>10, <1>11, <1>12, FirstOfConcat
<1>14. First(I, ((A \o B) \o C) \o D)
    BY <1>9, <1>10, <1>11, <1>13, FirstOfConcat
<1>15. First(I, Write(cs))
    BY <1>2, <1>9, <1>10, <1>11, <1>14, FirstOfConcat
<1>. QED  BY <1>6, <1>15 DEF I

-----------------------------------------------------------------------------
(* A call of the manager under way.                                        *)

Meta(id) == Row("metadata", id)
Data(id) == Row("data", id)
Both(id) == {Meta(id), Data(id)}

Deletes(op) ==
    op.kind = "delete" \/ (op.kind = "update" /\ op.state \in {"Accepted", "Signed"})
Puts(op) == op.kind \in {"create", "update"}
Gone(op) == IF op.kind = "delete" THEN op.id ELSE op.temp

PutDo(op) == IF op.kind = "create" THEN "insert" ELSE "upsert"
PutMeta(op) == Statement(PutDo(op), Meta(op.id), Abstract!NewState(op))
PutData(op) == Statement(PutDo(op), Data(op.id), Abstract!NewState(op))
DelMeta(op) == Statement("delete", Meta(Gone(op)), None)
DelData(op) == Statement("delete", Data(Gone(op)), None)

(* Where a transaction is, and the statements left to it there.            *)
Stages(op) == (IF Deletes(op) THEN {"delete data", "delete metadata"} ELSE {})
              \cup (IF Puts(op) THEN {"put metadata", "put data"} ELSE {}) \cup {"done"}
Left(op, at) ==
    CASE at = "delete data" /\ Puts(op) -> <<DelData(op), DelMeta(op), PutMeta(op), PutData(op)>>
      [] at = "delete data" /\ ~Puts(op) -> <<DelData(op), DelMeta(op)>>
      [] at = "delete metadata" /\ Puts(op) -> <<DelMeta(op), PutMeta(op), PutData(op)>>
      [] at = "delete metadata" /\ ~Puts(op) -> <<DelMeta(op)>>
      [] at = "put metadata" -> <<PutMeta(op), PutData(op)>>
      [] at = "put data" -> <<PutData(op)>>
      [] at = "done" -> <<>>

(* A row as a transaction that wrote w sees it, over committed rows.       *)
Seen(w, rows, r) == IF r \in DOMAIN w THEN w[r] ELSE rows[r]

(* A removed record is locked and gone, or was not there to be seen.       *)
Cleared(w, rows, new, id) ==
    /\ Meta(id) \in DOMAIN w <=> Data(id) \in DOMAIN w
    /\ Meta(id) \in DOMAIN w => w[Meta(id)] = None /\ w[Data(id)] = None
    /\ Meta(id) \notin DOMAIN w => rows[Data(id)] = None \/ id \in new

(* What op has written when it is at a stage, over the committed rows, and *)
(* given the records that other calls stored since it began.               *)
Progress(op, at, w, rows, new) ==
    /\ \A r \in DOMAIN w : \/ Deletes(op) /\ r \in Both(Gone(op))
                           \/ Puts(op) /\ r \in Both(op.id)
    /\ at = "delete data" => DOMAIN w = {}
    /\ at = "delete metadata" =>
          \A r \in DOMAIN w : r = Data(Gone(op)) /\ w[r] = None /\ rows[r] # None
    /\ at \notin {"delete data", "delete metadata"} =>
          \A id \in Abstract!Removed(op) : Cleared(w, rows, new, id)
    /\ Puts(op) /\ at \in {"put data", "done"} =>
          Meta(op.id) \in DOMAIN w /\ w[Meta(op.id)] = Abstract!NewState(op)
    /\ Puts(op) /\ at = "done" =>
          Data(op.id) \in DOMAIN w /\ w[Data(op.id)] = Abstract!NewState(op)

ContractTx(op, left, w, rows, new) ==
    \E at \in Stages(op) : left = Left(op, at) /\ Progress(op, at, w, rows, new)


After(op, at) ==
    CASE at = "delete data" -> "delete metadata"
      [] at = "delete metadata" -> IF Puts(op) THEN "put metadata" ELSE "done"
      [] at = "put metadata" -> "put data"
      [] OTHER -> "done"

LEMMA LeftTail ==
    ASSUME NEW op \in ContractOps, NEW at \in Stages(op)
    PROVE  /\ at = "done" => Left(op, at) = <<>>
           /\ at # "done" => /\ Left(op, at) # <<>>
                             /\ After(op, at) \in Stages(op)
                             /\ Tail(Left(op, at)) = Left(op, After(op, at))
           /\ at = "delete data" => Head(Left(op, at)) = DelData(op)
           /\ at = "delete metadata" => Head(Left(op, at)) = DelMeta(op)
           /\ at = "put metadata" => Head(Left(op, at)) = PutMeta(op)
           /\ at = "put data" => Head(Left(op, at)) = PutData(op)
<1>1. /\ \A a : <<a>> # <<>> /\ Head(<<a>>) = a /\ Tail(<<a>>) = <<>>
      /\ \A a, b : <<a, b>> # <<>> /\ Head(<<a, b>>) = a /\ Tail(<<a, b>>) = <<b>>
      /\ \A a, b, c :
            <<a, b, c>> # <<>> /\ Head(<<a, b, c>>) = a /\ Tail(<<a, b, c>>) = <<b, c>>
      /\ \A a, b, c, d :
            <<a, b, c, d>> # <<>> /\ Head(<<a, b, c, d>>) = a /\ Tail(<<a, b, c, d>>) = <<b, c, d>>
    OBVIOUS
<1>2. Puts(op) \/ Deletes(op)
    BY CallAssumption DEF Puts, Deletes
<1>3. CASE at = "delete data"
  <2>1. CASE Puts(op)
    <3>1. PICK l, m : l = Left(op, at) /\ m = Left(op, "delete metadata")
        OBVIOUS
    <3>2. l = <<DelData(op), DelMeta(op), PutMeta(op), PutData(op)>> /\ m = <<DelMeta(op), PutMeta(op), PutData(op)>>
        BY <3>1, <1>3, <2>1 DEF Left
    <3>3. After(op, at) = "delete metadata" /\ "delete metadata" \in Stages(op)
        BY <1>3, <2>1 DEF After, Stages
    <3>4. l # <<>> /\ Head(l) = DelData(op) /\ Tail(l) = m
        BY <3>2
    <3>. QED  BY <3>1, <3>3, <3>4, <1>3
  <2>2. CASE ~Puts(op)
      BY <1>1, <1>2, <1>3, <2>2 DEF Left, After, Stages
  <2>. QED  BY <2>1, <2>2
<1>4. CASE at = "delete metadata"
  <2>1. CASE Puts(op)
    <3>1. PICK l, m : l = Left(op, at) /\ m = Left(op, "put metadata")
        OBVIOUS
    <3>2. l = <<DelMeta(op), PutMeta(op), PutData(op)>> /\ m = <<PutMeta(op), PutData(op)>>
        BY <3>1, <1>4, <2>1 DEF Left
    <3>3. After(op, at) = "put metadata" /\ "put metadata" \in Stages(op)
        BY <1>4, <2>1 DEF After, Stages
    <3>4. l # <<>> /\ Head(l) = DelMeta(op) /\ Tail(l) = m
        BY <3>2
    <3>. QED  BY <3>1, <3>3, <3>4, <1>4
  <2>2. CASE ~Puts(op)
      BY <1>1, <1>2, <1>4, <2>2 DEF Left, After, Stages
  <2>. QED  BY <2>1, <2>2
<1>5. CASE at = "put metadata"
    BY <1>1, <1>5 DEF Left, After, Stages
<1>6. CASE at = "put data"
    BY <1>1, <1>6 DEF Left, After, Stages
<1>7. CASE at = "done"
    BY <1>7 DEF Left
<1>. QED  BY <1>3, <1>4, <1>5, <1>6, <1>7 DEF Stages

(* A call of the manager starts with all of its statements.                *)
LEMMA FirstStage ==
    ASSUME NEW op \in ContractOps
    PROVE  Statements(op) = Left(op, IF Deletes(op) THEN "delete data" ELSE "put metadata")
<1>1. ASSUME NEW a, NEW b, NEW c, NEW d
      PROVE  <<a, b>> \o <<c, d>> = <<a, b, c, d>>
  <2> DEFINE X == {a, b, c, d}
             s == <<a, b>>
             t == <<c, d>>
             u == <<a, b, c, d>>
  <2>1. /\ s \in Seq(X) /\ t \in Seq(X) /\ u \in Seq(X)
        /\ Len(s) = 2 /\ s[1] = a /\ s[2] = b
        /\ Len(t) = 2 /\ t[1] = c /\ t[2] = d
        /\ Len(u) = 4 /\ u[1] = a /\ u[2] = b /\ u[3] = c /\ u[4] = d
      OBVIOUS
  <2> HIDE DEF X, s, t, u
  <2>2. /\ s \o t \in Seq(X) /\ Len(s \o t) = Len(s) + Len(t)
        /\ \A i \in 1..Len(s) + Len(t) :
              (s \o t)[i] = IF i <= Len(s) THEN s[i] ELSE t[i - Len(s)]
      BY <2>1, ConcatProperties
  <2>3. \A i \in 1..Len(s \o t) : (s \o t)[i] = u[i]
      BY <2>1, <2>2
  <2>4. s \o t = u
      BY <2>1, <2>2, <2>3, SeqEqual
  <2>. QED  BY <2>4 DEF s, t, u
<1>2. \A a, b : <<>> \o <<a, b>> = <<a, b>>
    OBVIOUS
<1>3. CASE op.kind = "create"
    BY <1>3 DEF Statements, CreateContract, Left, Deletes, Puts, PutMeta, PutData, PutDo,
            Meta, Data, Abstract!NewState
<1>4. CASE op.kind = "delete"
    BY <1>4 DEF Statements, DeleteContract, Left, Deletes, Puts, DelMeta, DelData, Gone, Meta, Data
<1>5. CASE op.kind = "update" /\ op.state \in {"Accepted", "Signed"}
  <2>1. Statements(op) = UpdateContract(op)
      BY <1>5, Zenon DEF Statements
  <2>2. UpdateContract(op) = <<DelData(op), DelMeta(op)>> \o <<PutMeta(op), PutData(op)>>
      BY <1>5 DEF UpdateContract, DeleteContract, DelData, DelMeta, PutMeta, PutData, PutDo, Gone,
              Meta, Data, Abstract!NewState
  <2>3. Left(op, "delete data") = <<DelData(op), DelMeta(op), PutMeta(op), PutData(op)>>
      BY <1>5 DEF Left, Puts
  <2>. QED  BY <2>1, <2>2, <2>3, <1>1, <1>5 DEF Deletes
<1>6. CASE op.kind = "update" /\ op.state \notin {"Accepted", "Signed"}
  <2>1. Statements(op) = UpdateContract(op)
      BY <1>6, Zenon DEF Statements
  <2>2. UpdateContract(op) = <<>> \o <<PutMeta(op), PutData(op)>>
      BY <1>6 DEF UpdateContract, PutMeta, PutData, PutDo, Meta, Data, Abstract!NewState
  <2>. QED  BY <2>1, <2>2, <1>2, <1>6 DEF Deletes, Left, Puts
<1>. QED  BY <1>3, <1>4, <1>5, <1>6, CallAssumption

(* What a statement does to the rows its transaction has written, v being  *)
(* all the rows as the transaction sees them.                              *)
SeenAll(w, rows) == [r \in Rows |-> Seen(w, rows, r)]
TouchedBy(v, s) ==
    {r \in {s.row} \cup {Data(id) : id \in {i \in Ids : s.do = "delete" /\ s.row = Meta(i)}} :
        s.do \in {"delete", "greatest"} => v[r] # None}
Wrote(w, v, s) ==
    [r \in TouchedBy(v, s) \cup DOMAIN w |->
        IF r \in TouchedBy(v, s) THEN Written(s, v[r]) ELSE w[r]]

LEMMA ContractRows ==
    /\ \A i, j : /\ Meta(i) # Data(j)
                 /\ Meta(i) = Meta(j) => i = j
                 /\ Data(i) = Data(j) => i = j
    /\ \A id \in Ids : Meta(id) \in Rows /\ Data(id) \in Rows
    /\ \A id : Meta(id)[1] = "metadata" /\ Data(id)[1] = "data"
BY DEF Meta, Data, Row, Rows

LEMMA ContractTouch ==
    ASSUME NEW op \in ContractOps, NEW v
    PROVE  /\ Deletes(op) => Gone(op) \in Ids
           /\ op.id \in Ids
           /\ TouchedBy(v, DelData(op)) = {r \in {Data(Gone(op))} : v[r] # None}
           /\ Deletes(op) => TouchedBy(v, DelMeta(op)) = {r \in Both(Gone(op)) : v[r] # None}
           /\ TouchedBy(v, PutMeta(op)) = {Meta(op.id)}
           /\ TouchedBy(v, PutData(op)) = {Data(op.id)}
           /\ \A x : /\ Written(DelData(op), x) = None /\ Written(DelMeta(op), x) = None
                     /\ Written(PutMeta(op), x) = Abstract!NewState(op)
                     /\ Written(PutData(op), x) = Abstract!NewState(op)
<1>1. (Deletes(op) => Gone(op) \in Ids) /\ op.id \in Ids
    BY CallAssumption DEF Deletes, Gone
<1>2. /\ DelData(op).do = "delete" /\ DelData(op).row = Data(Gone(op))
      /\ DelMeta(op).do = "delete" /\ DelMeta(op).row = Meta(Gone(op))
    BY DEF DelData, DelMeta, Statement
<1>3. /\ PutMeta(op).do \in {"insert", "upsert"} /\ PutMeta(op).row = Meta(op.id)
      /\ PutData(op).do \in {"insert", "upsert"} /\ PutData(op).row = Data(op.id)
      /\ PutMeta(op).value = Abstract!NewState(op) /\ PutData(op).value = Abstract!NewState(op)
    BY DEF PutMeta, PutData, PutDo, Statement
<1>4. TouchedBy(v, DelData(op)) = {r \in {Data(Gone(op))} : v[r] # None}
    BY <1>2, ContractRows DEF TouchedBy
<1>5. ASSUME Deletes(op)
      PROVE  TouchedBy(v, DelMeta(op)) = {r \in Both(Gone(op)) : v[r] # None}
    BY <1>1, <1>2, <1>5, ContractRows DEF TouchedBy, Both
<1>6. TouchedBy(v, PutMeta(op)) = {Meta(op.id)}
    BY <1>3 DEF TouchedBy
<1>7. TouchedBy(v, PutData(op)) = {Data(op.id)}
    BY <1>3 DEF TouchedBy
<1>8. ASSUME NEW x
      PROVE  /\ Written(DelData(op), x) = None /\ Written(DelMeta(op), x) = None
             /\ Written(PutMeta(op), x) = Abstract!NewState(op)
             /\ Written(PutData(op), x) = Abstract!NewState(op)
    BY <1>2, <1>3 DEF Written
<1>. QED  BY <1>1, <1>4, <1>5, <1>6, <1>7, <1>8

(* Every statement of a manager's call takes it to its next stage.         *)
LEMMA ContractStep ==
    ASSUME NEW op \in ContractOps, NEW left, NEW w, NEW rows, NEW new, left # <<>>,
           ContractTx(op, left, w, rows, new),
           \A id \in Ids : rows[Meta(id)] = rows[Data(id)]
    PROVE  ContractTx(op, Tail(left), Wrote(w, SeenAll(w, rows), Head(left)), rows, new)
<1> DEFINE v == SeenAll(w, rows)
           s == Head(left)
           x == Wrote(w, v, s)
           g == Gone(op)
           id == op.id
           st == Abstract!NewState(op)
<1>1. PICK at \in Stages(op) : left = Left(op, at) /\ Progress(op, at, w, rows, new)
    BY DEF ContractTx
<1>2. at # "done" /\ After(op, at) \in Stages(op) /\ Tail(left) = Left(op, After(op, at))
    BY <1>1, LeftTail
<1>3. /\ DOMAIN x = TouchedBy(v, s) \cup DOMAIN w
      /\ \A r \in DOMAIN x : x[r] = IF r \in TouchedBy(v, s) THEN Written(s, v[r]) ELSE w[r]
    BY DEF Wrote
<1>4. \A i \in Ids : /\ v[Meta(i)] = IF Meta(i) \in DOMAIN w THEN w[Meta(i)] ELSE rows[Data(i)]
                     /\ v[Data(i)] = IF Data(i) \in DOMAIN w THEN w[Data(i)] ELSE rows[Data(i)]
    BY ContractRows DEF SeenAll, Seen
<1> SUFFICES Progress(op, After(op, at), x, rows, new)
    BY <1>2 DEF ContractTx
<1> HIDE DEF v, s, x
<1>5. CASE at = "delete data"
  <2>1. Deletes(op) /\ s = DelData(op) /\ After(op, at) = "delete metadata" /\ DOMAIN w = {}
      BY <1>1, <1>5, LeftTail DEF Progress, Stages, After, s
  <2>2. \A r \in DOMAIN x : r = Data(g) /\ x[r] = None /\ rows[r] # None
    <3>1. g \in Ids /\ TouchedBy(v, s) = {r \in {Data(g)} : v[r] # None} /\ \A y : Written(s, y) = None
        BY <2>1, ContractTouch
    <3>2. v[Data(g)] = rows[Data(g)]
        BY <2>1, <3>1, <1>4
    <3>. QED  BY <2>1, <3>1, <3>2, <1>3
  <2>. QED  BY <2>1, <2>2 DEF Progress, Both
<1>6. CASE at = "delete metadata"
  <2>1. /\ Deletes(op) /\ s = DelMeta(op) /\ g \in Ids
        /\ After(op, at) \in {"put metadata", "done"} /\ (Puts(op) <=> After(op, at) = "put metadata")
        /\ \A r \in DOMAIN w : r = Data(g) /\ w[r] = None /\ rows[r] # None
      BY <1>1, <1>6, LeftTail, ContractTouch DEF Progress, Stages, After, s, g
  <2>2. /\ DOMAIN x \subseteq Both(g)
        /\ Meta(g) \in DOMAIN x <=> Data(g) \in DOMAIN x
        /\ Meta(g) \in DOMAIN x => x[Meta(g)] = None /\ x[Data(g)] = None
        /\ Meta(g) \notin DOMAIN x => rows[Data(g)] = None
    <3>1. TouchedBy(v, s) = {r \in Both(g) : v[r] # None} /\ \A y : Written(s, y) = None
        BY <2>1, ContractTouch
    <3>2. Meta(g) # Data(g)
        BY ContractRows
    <3>3. v[Meta(g)] = rows[Data(g)]
        BY <2>1, <3>2, <1>4
    <3>4. CASE DOMAIN w = {}
      <4>1. v[Data(g)] = rows[Data(g)]
          BY <2>1, <3>4, <1>4
      <4>. QED  BY <3>1, <3>2, <3>3, <3>4, <4>1, <1>3 DEF Both
    <3>5. CASE DOMAIN w # {}
      <4>1. DOMAIN w = {Data(g)} /\ w[Data(g)] = None /\ rows[Data(g)] # None
          BY <2>1, <3>5
      <4>2. v[Data(g)] = None
          BY <2>1, <4>1, <1>4
      <4>3. TouchedBy(v, s) = {Meta(g)}
          BY <3>1, <3>2, <3>3, <4>1, <4>2 DEF Both
      <4>. QED  BY <3>1, <3>2, <4>1, <4>3, <1>3 DEF Both
    <3>. QED  BY <3>4, <3>5
  <2>3. \A i \in Abstract!Removed(op) : i = g
    <3>1. CASE op.kind = "delete"
        BY <3>1 DEF Abstract!Removed, Gone
    <3>2. CASE op.kind = "update"
        BY <3>2 DEF Abstract!Removed, Gone
    <3>3. CASE op.kind = "create"
        BY <3>3 DEF Abstract!Removed
    <3>. QED  BY <3>1, <3>2, <3>3, CallAssumption
  <2>4. \A i \in Abstract!Removed(op) : Cleared(x, rows, new, i)
      BY <2>2, <2>3 DEF Cleared
  <2>5. Puts(op) => After(op, at) = "put metadata"
      BY <2>1
  <2>. QED  BY <2>1, <2>2, <2>4, <2>5 DEF Progress
<1>7. CASE at \in {"put metadata", "put data"}
  <2>1. /\ Puts(op) /\ id \in Ids
        /\ at = "put metadata" => s = PutMeta(op) /\ After(op, at) = "put data"
        /\ at = "put data" => s = PutData(op) /\ After(op, at) = "done"
    <3>1. Puts(op)
        BY <1>7 DEF Stages
    <3>2. CASE at = "put metadata"
        BY <1>1, <3>1, <3>2, LeftTail, ContractTouch DEF After, s, id
    <3>3. CASE at = "put data"
        BY <1>1, <3>1, <3>3, LeftTail, ContractTouch DEF After, s, id
    <3>. QED  BY <1>7, <3>2, <3>3
  <2>2. CASE at = "put metadata"
    <3>1. /\ DOMAIN x = {Meta(id)} \cup DOMAIN w /\ x[Meta(id)] = st
          /\ \A r \in DOMAIN w : r # Meta(id) => x[r] = w[r]
        BY <1>3, <2>1, <2>2, ContractTouch
    <3>2. \A i \in Abstract!Removed(op) : i # id /\ Cleared(w, rows, new, i)
      <4>1. \A i \in Abstract!Removed(op) : i # id
          BY <2>1 DEF Abstract!Removed, Puts
      <4>. QED  BY <4>1, <1>1, <2>2 DEF Progress
    <3>3. \A i \in Abstract!Removed(op) : Cleared(x, rows, new, i)
        BY <3>1, <3>2, ContractRows DEF Cleared
    <3>. QED  BY <2>1, <2>2, <3>1, <3>3, <1>1 DEF Progress, Both
  <2>3. CASE at = "put data"
    <3>1. /\ DOMAIN x = {Data(id)} \cup DOMAIN w /\ x[Data(id)] = st
          /\ \A r \in DOMAIN w : r # Data(id) => x[r] = w[r]
        BY <1>3, <2>1, <2>3, ContractTouch
    <3>2. \A i \in Abstract!Removed(op) : i # id /\ Cleared(w, rows, new, i)
      <4>1. \A i \in Abstract!Removed(op) : i # id
          BY <2>1 DEF Abstract!Removed, Puts
      <4>. QED  BY <4>1, <1>1, <2>3 DEF Progress
    <3>3. \A i \in Abstract!Removed(op) : Cleared(x, rows, new, i)
        BY <3>1, <3>2, ContractRows DEF Cleared
    <3>4. Meta(id) \in DOMAIN x /\ x[Meta(id)] = st
        BY <3>1, <1>1, <2>1, <2>3, ContractRows DEF Progress
    <3>. QED  BY <2>1, <2>3, <3>1, <3>3, <3>4, <1>1 DEF Progress, Both
  <2>. QED  BY <1>7, <2>2, <2>3
<1>. QED  BY <1>2, <1>5, <1>6, <1>7 DEF Stages

(* A call of the manager has nothing written when it starts.               *)
LEMMA ContractStart ==
    ASSUME NEW op \in ContractOps, NEW w, NEW rows, NEW new, DOMAIN w = {}
    PROVE  ContractTx(op, Statements(op), w, rows, new)
<1> DEFINE at == IF Deletes(op) THEN "delete data" ELSE "put metadata"
<1>1. Statements(op) = Left(op, at)
    BY FirstStage
<1>2. at \in Stages(op)
    BY CallAssumption DEF Stages, Deletes, Puts
<1>3. at = "put metadata" => Abstract!Removed(op) = {}
    BY CallAssumption DEF Deletes, Abstract!Removed
<1>4. Progress(op, at, w, rows, new)
    BY <1>3 DEF Progress
<1>. QED  BY <1>1, <1>2, <1>4 DEF ContractTx

LEMMA ContractScope ==
    ASSUME NEW op \in ContractOps, NEW left, NEW w, NEW rows, NEW new,
           ContractTx(op, left, w, rows, new)
    PROVE  \A r \in DOMAIN w : \E id \in Ids : r \in Both(id)
BY ContractTouch DEF ContractTx, Progress

(* Calls that end meanwhile change other rows, and are remembered when     *)
(* they store a record that was not there.                                 *)
LEMMA ContractFrame ==
    ASSUME NEW op \in ContractOps, NEW left, NEW w, NEW rows, NEW new, NEW rows2, NEW new2,
           ContractTx(op, left, w, rows, new),
           \A r \in DOMAIN w : rows2[r] = rows[r],
           new \subseteq new2,
           \A id \in Ids : rows2[Data(id)] # None /\ rows[Data(id)] = None => id \in new2
    PROVE  ContractTx(op, left, w, rows2, new2)
<1>1. PICK at \in Stages(op) : left = Left(op, at) /\ Progress(op, at, w, rows, new)
    BY DEF ContractTx
<1>2. Abstract!Removed(op) \subseteq Ids
  <2>1. CASE op.kind = "delete"
      BY <2>1, CallAssumption DEF Abstract!Removed
  <2>2. CASE op.kind = "update"
      BY <2>2, CallAssumption DEF Abstract!Removed
  <2>3. CASE op.kind = "create"
      BY <2>3 DEF Abstract!Removed
  <2>. QED  BY <2>1, <2>2, <2>3, CallAssumption
<1>3. ASSUME NEW id \in Abstract!Removed(op), Cleared(w, rows, new, id)
      PROVE  Cleared(w, rows2, new2, id)
    BY <1>2, <1>3 DEF Cleared
<1>4. Progress(op, at, w, rows2, new2)
    BY <1>1, <1>3 DEF Progress
<1>. QED  BY <1>1, <1>4 DEF ContractTx

(* What a call of the manager has changed when nothing is left to it.      *)
LEMMA ContractDone ==
    ASSUME NEW op \in ContractOps, NEW w, NEW rows, NEW new,
           ContractTx(op, <<>>, w, rows, new),
           \A id \in Ids : rows[Meta(id)] = rows[Data(id)],
           NEW id \in Ids
    PROVE  /\ Seen(w, rows, Meta(id)) = Seen(w, rows, Data(id))
           /\ id \in Abstract!Stored(op) => Seen(w, rows, Data(id)) = Abstract!NewState(op)
           /\ id \notin Abstract!Stored(op) \cup Abstract!Removed(op) =>
                 Seen(w, rows, Data(id)) = rows[Data(id)]
           /\ id \in Abstract!Removed(op) =>
                 \/ Seen(w, rows, Data(id)) = None
                 \/ id \in new /\ Seen(w, rows, Data(id)) = rows[Data(id)]
<1>1. PICK at \in Stages(op) : <<>> = Left(op, at) /\ Progress(op, at, w, rows, new)
    BY DEF ContractTx
<1>2. at = "done"
    BY <1>1, LeftTail
<1>3. /\ \A r \in DOMAIN w : \/ Deletes(op) /\ r \in Both(Gone(op))
                             \/ Puts(op) /\ r \in Both(op.id)
      /\ \A i \in Abstract!Removed(op) : Cleared(w, rows, new, i)
      /\ Puts(op) => /\ Meta(op.id) \in DOMAIN w /\ w[Meta(op.id)] = Abstract!NewState(op)
                     /\ Data(op.id) \in DOMAIN w /\ w[Data(op.id)] = Abstract!NewState(op)
    BY <1>1, <1>2 DEF Progress
<1>4. CASE id \in Abstract!Stored(op)
  <2>1. Puts(op) /\ id = op.id
      BY <1>4 DEF Abstract!Stored, Puts
  <2>2. id \notin Abstract!Removed(op)
      BY <2>1 DEF Abstract!Removed, Puts
  <2>. QED  BY <1>3, <1>4, <2>1, <2>2 DEF Seen
<1>5. CASE id \in Abstract!Removed(op)
  <2>1. Cleared(w, rows, new, id)
      BY <1>3, <1>5
  <2>2. id \notin Abstract!Stored(op)
      BY <1>5 DEF Abstract!Stored, Abstract!Removed
  <2>. QED  BY <1>5, <2>1, <2>2 DEF Cleared, Seen
<1>6. CASE id \notin Abstract!Stored(op) \cup Abstract!Removed(op)
  <2>1. Puts(op) => id # op.id
      BY <1>6 DEF Abstract!Stored, Puts
  <2>2. Deletes(op) => id # Gone(op)
    <3>1. CASE op.kind = "delete"
        BY <1>6, <3>1 DEF Abstract!Removed, Gone
    <3>2. CASE op.kind # "delete" /\ Deletes(op)
        BY <1>6, <2>1, <3>2 DEF Abstract!Removed, Deletes, Gone, Puts
    <3>. QED  BY <3>1, <3>2
  <2>3. Meta(id) \notin DOMAIN w /\ Data(id) \notin DOMAIN w
      BY <1>3, <2>1, <2>2, ContractRows DEF Both
  <2>. QED  BY <1>6, <2>3 DEF Seen
<1>. QED  BY <1>4, <1>5, <1>6

-----------------------------------------------------------------------------
(* A call of the wallet under way.  Each row of the wallet goes from its    *)
(* committed value, old, to its value with the change set merged in; now is *)
(* what the transaction sees, and rest the statements it has yet to run.    *)

KeyRow(k) == Row("keychain", k)
SpkRow(k) == Row("spk_cache", k)
BlockRow(h) == Row("block", h)
TxRowOf(t) == Row("tx", t)
AnchorRow(a) == Row("anchor_tx", a)

WalletRows == {KeyRow(k) : k \in Keychains} \cup {SpkRow(k) : k \in Keychains}
              \cup {BlockRow(h) : h \in Heights} \cup {TxRowOf(t) : t \in Txs}
              \cup {AnchorRow(a) : a \in Txs \X Hashes}

Describe(k) == Statement("ignore", KeyRow(k), 0)
Reveal(cs, k) == Statement("greatest", KeyRow(k), cs.revealed[k])
Cache(k) == Statement("ignore", SpkRow(k), TRUE)
Anchor(a) == Statement("reference", AnchorRow(a), TRUE)

Base(x) == IF x = None THEN 0 ELSE x

KeychainDone(cs, k, rest, old, now) ==
    /\ old # None => now # None
    /\ now # None => old # None \/ k \in cs.descriptors
    /\ k \in cs.descriptors /\ Describe(k) \notin rest => now # None
    /\ now # None => now \in {Base(old), Abstract!MaxOf(Base(old), cs.revealed[k])}
    /\ cs.revealed[k] > 0 => old # None \/ k \in cs.descriptors
    /\ cs.revealed[k] > 0 /\ Reveal(cs, k) \notin rest =>
          now = Abstract!MaxOf(Base(old), cs.revealed[k])

SpkDone(cs, k, rest, old, now) ==
    /\ old # None => now # None
    /\ now # None => old # None \/ k \in cs.spks
    /\ k \in cs.spks /\ Cache(k) \notin rest => now # None

BlockDone(cs, h, rest, old, now) ==
    IF h \in cs.heights THEN BlockChange(cs, h) \notin rest => now = cs.blocks[h]
    ELSE now = old

AnchorDone(cs, a, rest, old, now) ==
    /\ old # None => now # None
    /\ now # None => old # None \/ a \in cs.anchors
    /\ a \in cs.anchors /\ Anchor(a) \notin rest => now # None

TxOf(x) == IF x = None THEN TxRow(FALSE, 0, 0, 0) ELSE x
IsKnown(t) == TxChange(t, TxRow(TRUE, 0, 0, 0))
IsSeen(cs, t) == TxChange(t, TxRow(FALSE, cs.last_seen[t], 0, 0))
IsFirst(cs, t) == TxChange(t, TxRow(FALSE, 0, cs.first_seen[t], 0))
IsEvicted(cs, t) == TxChange(t, TxRow(FALSE, 0, 0, cs.last_evicted[t]))

TxDone(cs, t, rest, old, now) ==
    /\ now \in TxRows \cup {None}
    /\ TxOf(now).whole_tx => TxOf(old).whole_tx \/ t \in cs.txs
    /\ TxOf(old).whole_tx => TxOf(now).whole_tx
    /\ t \in cs.txs /\ IsKnown(t) \notin rest => TxOf(now).whole_tx
    /\ TxOf(now).last_seen
          \in {TxOf(old).last_seen, Abstract!MaxOf(TxOf(old).last_seen, cs.last_seen[t])}
    /\ cs.last_seen[t] > 0 /\ IsSeen(cs, t) \notin rest =>
          TxOf(now).last_seen = Abstract!MaxOf(TxOf(old).last_seen, cs.last_seen[t])
    /\ TxOf(now).first_seen
          \in {TxOf(old).first_seen, Abstract!MinOf(TxOf(old).first_seen, cs.first_seen[t])}
    /\ cs.first_seen[t] > 0 /\ IsFirst(cs, t) \notin rest =>
          TxOf(now).first_seen = Abstract!MinOf(TxOf(old).first_seen, cs.first_seen[t])
    /\ TxOf(now).last_evicted
          \in {TxOf(old).last_evicted, Abstract!MaxOf(TxOf(old).last_evicted, cs.last_evicted[t])}
    /\ cs.last_evicted[t] > 0 /\ IsEvicted(cs, t) \notin rest =>
          TxOf(now).last_evicted = Abstract!MaxOf(TxOf(old).last_evicted, cs.last_evicted[t])

(* What the wallet's rows hold.                                            *)
WalletDb(rows) ==
    /\ \A k \in Keychains : rows[KeyRow(k)] \in Nat \cup {None}
    /\ \A h \in Heights : rows[BlockRow(h)] \in Hashes \cup {None}
    /\ \A t \in Txs : rows[TxRowOf(t)] \in TxRows \cup {None}

WalletTx(cs, left, w, rows) ==
    /\ left \in Seq(OfWallet(cs)) /\ First(Described(cs), left)
    /\ DOMAIN w \subseteq WalletRows
    /\ \A k \in Keychains :
          /\ KeychainDone(cs, k, Range(left), rows[KeyRow(k)], Seen(w, rows, KeyRow(k)))
          /\ SpkDone(cs, k, Range(left), rows[SpkRow(k)], Seen(w, rows, SpkRow(k)))
    /\ \A h \in Heights :
          BlockDone(cs, h, Range(left), rows[BlockRow(h)], Seen(w, rows, BlockRow(h)))
    /\ \A t \in Txs : TxDone(cs, t, Range(left), rows[TxRowOf(t)], Seen(w, rows, TxRowOf(t)))
    /\ \A a \in Txs \X Hashes :
          AnchorDone(cs, a, Range(left), rows[AnchorRow(a)], Seen(w, rows, AnchorRow(a)))

LEMMA WalletRowsApart ==
    /\ \A x, y : /\ KeyRow(x) = KeyRow(y) => x = y
                 /\ SpkRow(x) = SpkRow(y) => x = y
                 /\ BlockRow(x) = BlockRow(y) => x = y
                 /\ TxRowOf(x) = TxRowOf(y) => x = y
                 /\ AnchorRow(x) = AnchorRow(y) => x = y
    /\ \A x, y : /\ KeyRow(x) # SpkRow(y) /\ KeyRow(x) # BlockRow(y) /\ KeyRow(x) # TxRowOf(y)
                 /\ KeyRow(x) # AnchorRow(y) /\ SpkRow(x) # BlockRow(y) /\ SpkRow(x) # TxRowOf(y)
                 /\ SpkRow(x) # AnchorRow(y) /\ BlockRow(x) # TxRowOf(y)
                 /\ BlockRow(x) # AnchorRow(y) /\ TxRowOf(x) # AnchorRow(y)
BY DEF KeyRow, SpkRow, BlockRow, TxRowOf, AnchorRow, Row

LEMMA WalletRowsAreNot ==
    /\ WalletRows \subseteq Rows
    /\ \A r \in WalletRows : \A id : r # Meta(id) /\ r # Data(id)
<1>1. \A x, id : /\ KeyRow(x) # Meta(id) /\ SpkRow(x) # Meta(id) /\ BlockRow(x) # Meta(id)
                 /\ TxRowOf(x) # Meta(id) /\ AnchorRow(x) # Meta(id)
                 /\ KeyRow(x) # Data(id) /\ SpkRow(x) # Data(id) /\ BlockRow(x) # Data(id)
                 /\ TxRowOf(x) # Data(id) /\ AnchorRow(x) # Data(id)
    BY DEF KeyRow, SpkRow, BlockRow, TxRowOf, AnchorRow, Row, Meta, Data
<1>2. /\ \A k \in Keychains : KeyRow(k) \in Rows /\ SpkRow(k) \in Rows
      /\ \A h \in Heights : BlockRow(h) \in Rows
      /\ \A t \in Txs : TxRowOf(t) \in Rows
      /\ \A a \in Txs \X Hashes : AnchorRow(a) \in Rows
    BY DEF KeyRow, SpkRow, BlockRow, TxRowOf, AnchorRow, Rows
<1>. QED  BY <1>1, <1>2 DEF WalletRows

(* The statements about transaction t.                                     *)
OfTx(cs, t, s) ==
    \/ t \in cs.txs /\ s = IsKnown(t)
    \/ cs.last_seen[t] > 0 /\ s = IsSeen(cs, t)
    \/ cs.first_seen[t] > 0 /\ s = IsFirst(cs, t)
    \/ cs.last_evicted[t] > 0 /\ s = IsEvicted(cs, t)

(* The kinds of statement.                                                 *)
LEMMA WalletKinds ==
    ASSUME NEW cs \in ChangeSet, NEW s \in OfWallet(cs)
    PROVE  \/ \E k \in cs.descriptors : s = Describe(k)
           \/ \E k \in Keychains : cs.revealed[k] > 0 /\ s = Reveal(cs, k)
           \/ \E k \in cs.spks : s = Cache(k)
           \/ \E h \in cs.heights : s = BlockChange(cs, h)
           \/ \E t \in Txs : OfTx(cs, t, s)
           \/ \E a \in cs.anchors : s = Anchor(a)
<1>1. cs.txs \subseteq Txs
    BY DEF ChangeSet
<1>2. CASE s \in Described(cs)
    BY <1>2 DEF Described, Describe, KeyRow
<1>3. CASE s \in Revealed(cs)
    BY <1>3 DEF Revealed, Reveal, KeyRow
<1>4. CASE s \in Cached(cs)
    BY <1>4 DEF Cached, Cache, SpkRow
<1>5. CASE s \in Linked(cs)
    BY <1>5 DEF Linked
<1>6. CASE s \in Known(cs)
    BY <1>1, <1>6 DEF Known, OfTx, IsKnown
<1>7. CASE s \in LastSeen(cs)
    BY <1>7 DEF LastSeen, OfTx, IsSeen
<1>8. CASE s \in FirstSeen(cs)
    BY <1>8 DEF FirstSeen, OfTx, IsFirst
<1>9. CASE s \in LastEvicted(cs)
    BY <1>9 DEF LastEvicted, OfTx, IsEvicted
<1>10. CASE s \in Anchored(cs)
    BY <1>10 DEF Anchored, Anchor, AnchorRow
<1>. QED  BY <1>2, <1>3, <1>4, <1>5, <1>6, <1>7, <1>8, <1>9, <1>10
          DEF OfWallet, NotDescribed, OfTxGraph

(* What each of them does, and to which row.                               *)
LEMMA DescribeFields ==
    \A k : Describe(k).do = "ignore" /\ Describe(k).row = KeyRow(k) /\ Describe(k).value = 0
BY DEF Describe, Statement

LEMMA RevealFields ==
    \A cs, k : /\ Reveal(cs, k).do = "greatest" /\ Reveal(cs, k).row = KeyRow(k)
               /\ Reveal(cs, k).value = cs.revealed[k]
BY DEF Reveal, Statement

LEMMA CacheFields ==
    \A k : Cache(k).do = "ignore" /\ Cache(k).row = SpkRow(k) /\ Cache(k).value # None
<1>1. TRUE # None
    BY NoneAssumption
<1>. QED  BY <1>1 DEF Cache, Statement

LEMMA BlockFields ==
    \A cs, h : /\ BlockChange(cs, h).row = BlockRow(h)
               /\ cs.blocks[h] = None => BlockChange(cs, h).do = "delete"
               /\ cs.blocks[h] # None => BlockChange(cs, h).do = "upsert"
               /\ cs.blocks[h] # None => BlockChange(cs, h).value = cs.blocks[h]
BY DEF BlockChange, Statement, BlockRow

LEMMA TxFields ==
    \A t, x : /\ TxChange(t, x).do = "merge" /\ TxChange(t, x).row = TxRowOf(t)
              /\ TxChange(t, x).value = x
BY DEF TxChange, Statement, TxRowOf

LEMMA AnchorFields ==
    \A a : Anchor(a).do = "reference" /\ Anchor(a).row = AnchorRow(a) /\ Anchor(a).value # None
<1>1. TRUE # None
    BY NoneAssumption
<1>. QED  BY <1>1 DEF Anchor, Statement

(* The statements about a row.                                             *)
LEMMA WalletKindOfRow ==
    ASSUME NEW cs \in ChangeSet, NEW s \in OfWallet(cs)
    PROVE  /\ \A k : s.row = KeyRow(k) =>
                    \/ k \in cs.descriptors /\ s = Describe(k)
                    \/ cs.revealed[k] > 0 /\ s = Reveal(cs, k)
           /\ \A k : s.row = SpkRow(k) => k \in cs.spks /\ s = Cache(k)
           /\ \A h : s.row = BlockRow(h) => h \in cs.heights /\ s = BlockChange(cs, h)
           /\ \A t : s.row = TxRowOf(t) => OfTx(cs, t, s)
           /\ \A a : s.row = AnchorRow(a) => a \in cs.anchors /\ s = Anchor(a)
<1>1. CASE \E k \in cs.descriptors : s = Describe(k)
  <2>1. PICK k \in cs.descriptors : s = Describe(k)
      BY <1>1
  <2>2. s.row = KeyRow(k)
      BY <2>1, DescribeFields
  <2>. QED  BY <2>1, <2>2, WalletRowsApart
<1>2. CASE \E k \in Keychains : cs.revealed[k] > 0 /\ s = Reveal(cs, k)
  <2>1. PICK k \in Keychains : cs.revealed[k] > 0 /\ s = Reveal(cs, k)
      BY <1>2
  <2>2. s.row = KeyRow(k)
      BY <2>1, RevealFields
  <2>. QED  BY <2>1, <2>2, WalletRowsApart
<1>3. CASE \E k \in cs.spks : s = Cache(k)
  <2>1. PICK k \in cs.spks : s = Cache(k)
      BY <1>3
  <2>2. s.row = SpkRow(k)
      BY <2>1, CacheFields
  <2>. QED  BY <2>1, <2>2, WalletRowsApart
<1>4. CASE \E h \in cs.heights : s = BlockChange(cs, h)
  <2>1. PICK h \in cs.heights : s = BlockChange(cs, h)
      BY <1>4
  <2>2. s.row = BlockRow(h)
      BY <2>1, BlockFields
  <2>. QED  BY <2>1, <2>2, WalletRowsApart
<1>5. CASE \E t \in Txs : OfTx(cs, t, s)
  <2>1. PICK t \in Txs : OfTx(cs, t, s)
      BY <1>5
  <2>2. s.row = TxRowOf(t)
      BY <2>1, TxFields DEF OfTx, IsKnown, IsSeen, IsFirst, IsEvicted
  <2>. QED  BY <2>1, <2>2, WalletRowsApart
<1>6. CASE \E a \in cs.anchors : s = Anchor(a)
  <2>1. PICK a \in cs.anchors : s = Anchor(a)
      BY <1>6
  <2>2. s.row = AnchorRow(a)
      BY <2>1, AnchorFields
  <2>. QED  BY <2>1, <2>2, WalletRowsApart
<1>. QED  BY <1>1, <1>2, <1>3, <1>4, <1>5, <1>6, WalletKinds, Zenon

(* The row of a statement afterwards, as its transaction sees it.          *)
Result(s, x) == IF s.do \in {"delete", "greatest"} /\ x = None THEN None ELSE Written(s, x)

LEMMA WalletTouch ==
    ASSUME NEW cs \in ChangeSet, NEW s \in OfWallet(cs), NEW w, NEW rows
    PROVE  LET x == Wrote(w, SeenAll(w, rows), s) IN
           /\ s.row \in WalletRows
           /\ DOMAIN x \subseteq DOMAIN w \cup {s.row}
           /\ \A r \in Rows :
                 Seen(x, rows, r) = IF r = s.row THEN Result(s, Seen(w, rows, r)) ELSE Seen(w, rows, r)
<1> DEFINE v == SeenAll(w, rows)
           x == Wrote(w, v, s)
<1>1. s.row \in WalletRows
  <2>1. /\ cs.descriptors \subseteq Keychains /\ cs.spks \subseteq Keychains
        /\ cs.heights \subseteq Heights /\ cs.anchors \subseteq Txs \X Hashes
      BY DEF ChangeSet
  <2>2. /\ \A k \in Keychains : KeyRow(k) \in WalletRows /\ SpkRow(k) \in WalletRows
        /\ \A h \in Heights : BlockRow(h) \in WalletRows
        /\ \A t \in Txs : TxRowOf(t) \in WalletRows
        /\ \A a \in Txs \X Hashes : AnchorRow(a) \in WalletRows
      BY DEF WalletRows
  <2>3. CASE \E k \in cs.descriptors : s = Describe(k)
    <3>1. PICK k \in cs.descriptors : s = Describe(k)
        BY <2>3
    <3>2. s.row = KeyRow(k)
        BY <3>1, DescribeFields, RevealFields
    <3>. QED  BY <2>1, <2>2, <3>1, <3>2
  <2>4. CASE \E k \in Keychains : cs.revealed[k] > 0 /\ s = Reveal(cs, k)
    <3>1. PICK k \in Keychains : s = Reveal(cs, k)
        BY <2>4
    <3>2. s.row = KeyRow(k)
        BY <3>1, DescribeFields, RevealFields
    <3>. QED  BY <2>1, <2>2, <3>1, <3>2
  <2>5. CASE \E k \in cs.spks : s = Cache(k)
    <3>1. PICK k \in cs.spks : s = Cache(k)
        BY <2>5
    <3>2. s.row = SpkRow(k)
        BY <3>1, CacheFields
    <3>. QED  BY <2>1, <2>2, <3>1, <3>2
  <2>6. CASE \E h \in cs.heights : s = BlockChange(cs, h)
    <3>1. PICK h \in cs.heights : s = BlockChange(cs, h)
        BY <2>6
    <3>2. s.row = BlockRow(h)
        BY <3>1, BlockFields
    <3>. QED  BY <2>1, <2>2, <3>1, <3>2
  <2>7. CASE \E t \in Txs : \E y : s = TxChange(t, y)
    <3>1. PICK t \in Txs : \E y : s = TxChange(t, y)
        BY <2>7
    <3>2. s.row = TxRowOf(t)
        BY <3>1, TxFields
    <3>. QED  BY <2>1, <2>2, <3>1, <3>2
  <2>8. CASE \E a \in cs.anchors : s = Anchor(a)
    <3>1. PICK a \in cs.anchors : s = Anchor(a)
        BY <2>8
    <3>2. s.row = AnchorRow(a)
        BY <3>1, AnchorFields
    <3>. QED  BY <2>1, <2>2, <3>1, <3>2
  <2>. QED  BY <2>3, <2>4, <2>5, <2>6, <2>7, <2>8, WalletKinds
            DEF OfTx, IsKnown, IsSeen, IsFirst, IsEvicted
<1>2. s.row \in Rows /\ v[s.row] = Seen(w, rows, s.row)
    BY <1>1, WalletRowsAreNot DEF SeenAll
<1>3. TouchedBy(v, s) = {r \in {s.row} : s.do \in {"delete", "greatest"} => v[r] # None}
    BY <1>1, WalletRowsAreNot DEF TouchedBy
<1>4. /\ DOMAIN x = TouchedBy(v, s) \cup DOMAIN w
      /\ \A r \in DOMAIN x : x[r] = IF r \in TouchedBy(v, s) THEN Written(s, v[r]) ELSE w[r]
    BY DEF Wrote
<1> HIDE DEF x, v
<1>5. DOMAIN x \subseteq DOMAIN w \cup {s.row}
    BY <1>3, <1>4
<1>6. ASSUME NEW r \in Rows
      PROVE  Seen(x, rows, r) = IF r = s.row THEN Result(s, Seen(w, rows, r)) ELSE Seen(w, rows, r)
  <2>1. CASE r # s.row
      BY <2>1, <1>3, <1>4 DEF Seen
  <2>2. CASE r = s.row /\ r \in TouchedBy(v, s)
    <3>1. Seen(x, rows, r) = Written(s, v[r])
        BY <2>2, <1>4 DEF Seen
    <3>2. Result(s, v[r]) = Written(s, v[r])
        BY <2>2, <1>3 DEF Result
    <3>. QED  BY <2>2, <3>1, <3>2, <1>2
  <2>3. CASE r = s.row /\ r \notin TouchedBy(v, s)
    <3>1. s.do \in {"delete", "greatest"} /\ v[r] = None
        BY <2>3, <1>3
    <3>2. Seen(x, rows, r) = Seen(w, rows, r)
        BY <2>3, <1>4 DEF Seen
    <3>. QED  BY <2>3, <3>1, <3>2, <1>2 DEF Result
  <2>. QED  BY <2>1, <2>2, <2>3
<1>. QED  BY <1>1, <1>5, <1>6 DEF x, v

LEMMA Clamps ==
    /\ \A a, b \in Nat : /\ Abstract!MaxOf(a, b) \in Nat /\ Abstract!MinOf(a, b) \in Nat
                         /\ Abstract!MaxOf(a, 0) = a /\ Abstract!MinOf(a, 0) = a
                         /\ Abstract!MaxOf(Abstract!MaxOf(a, b), b) = Abstract!MaxOf(a, b)
                         /\ Abstract!MinOf(Abstract!MinOf(a, b), b) = Abstract!MinOf(a, b)
BY DEF Abstract!MaxOf, Abstract!MinOf

LEMMA KeychainStep ==
    ASSUME NEW cs \in ChangeSet, NEW s \in OfWallet(cs), NEW k \in Keychains,
           NEW rest, NEW rest2, rest \subseteq rest2 \cup {s},
           s \notin Described(cs) => rest2 \cap Described(cs) = {},
           NEW old \in Nat \cup {None}, NEW now, NEW now2,
           KeychainDone(cs, k, rest, old, now),
           now2 = IF s.row = KeyRow(k) THEN Result(s, now) ELSE now
    PROVE  KeychainDone(cs, k, rest2, old, now2)
<1>1. cs.revealed[k] \in Nat /\ Base(old) \in Nat /\ None \notin Nat
    BY NoneAssumption DEF ChangeSet, Base
<1> DEFINE R == cs.revealed[k]
           m == Abstract!MaxOf(Base(old), R)
<1>2. m \in Nat /\ Abstract!MaxOf(m, R) = m
    BY <1>1, Clamps
<1>3. /\ Describe(k).row = KeyRow(k) /\ Reveal(cs, k).row = KeyRow(k)
      /\ Describe(k) # Reveal(cs, k)
  <2>1. Describe(k).do # Reveal(cs, k).do
      BY DescribeFields, RevealFields
  <2>. QED  BY <2>1, DescribeFields, RevealFields
<1>4. CASE s.row # KeyRow(k)
    BY <1>3, <1>4 DEF KeychainDone
<1>5. CASE s = Describe(k) /\ k \in cs.descriptors
  <2>1. Result(s, now) = IF now = None THEN 0 ELSE now
      BY <1>5, DescribeFields, RevealFields DEF Result, Written
  <2>2. now2 = IF now = None THEN 0 ELSE now
      BY <1>3, <1>5, <2>1
  <2>3. now = None => Base(old) = 0
      BY DEF KeychainDone, Base
  <2>4. R > 0 /\ Reveal(cs, k) \notin rest2 => now = m
      BY <1>3, <1>5 DEF KeychainDone
  <2>. QED  BY <1>1, <1>2, <1>5, <2>2, <2>3, <2>4 DEF KeychainDone
<1>6. CASE s = Reveal(cs, k) /\ R > 0
  <2>1. s \notin Described(cs)
    <3>1. \A j : Describe(j).do # s.do
        BY <1>6, DescribeFields, RevealFields
    <3>2. Described(cs) = {Describe(j) : j \in cs.descriptors}
        BY DEF Described, Describe, KeyRow
    <3>. QED  BY <3>1, <3>2
  <2>2. k \in cs.descriptors => Describe(k) \notin rest
    <3>1. k \in cs.descriptors => Describe(k) \in Described(cs)
        BY DEF Described, Describe, KeyRow
    <3>. QED  BY <2>1, <3>1, <1>3, <1>6
  <2>3. now # None /\ now \in {Base(old), m}
      BY <2>2, <1>6 DEF KeychainDone
  <2>4. now2 = Abstract!MaxOf(now, R)
    <3>1. s.do = "greatest" /\ s.value = R /\ s.row = KeyRow(k)
        BY <1>6, DescribeFields, RevealFields
    <3>. QED  BY <2>3, <3>1 DEF Result, Written
  <2>5. now2 = m
      BY <2>3, <2>4, <1>2
  <2>. QED  BY <1>1, <1>2, <1>6, <2>2, <2>3, <2>5 DEF KeychainDone
<1>7. s.row = KeyRow(k) => \/ s = Describe(k) /\ k \in cs.descriptors
                           \/ s = Reveal(cs, k) /\ R > 0
    BY WalletKindOfRow
<1>. QED  BY <1>4, <1>5, <1>6, <1>7

LEMMA SpkStep ==
    ASSUME NEW cs \in ChangeSet, NEW s \in OfWallet(cs), NEW k \in Keychains,
           NEW rest, NEW rest2, rest \subseteq rest2 \cup {s}, NEW old, NEW now, NEW now2,
           SpkDone(cs, k, rest, old, now),
           now2 = IF s.row = SpkRow(k) THEN Result(s, now) ELSE now
    PROVE  SpkDone(cs, k, rest2, old, now2)
<1>1. CASE s.row = SpkRow(k)
  <2>1. k \in cs.spks /\ s = Cache(k)
      BY <1>1, WalletKindOfRow
  <2>2. s.do = "ignore" /\ s.value # None
      BY <2>1, CacheFields
  <2>3. now2 # None
      BY <1>1, <2>2 DEF Result, Written
  <2>. QED  BY <2>1, <2>3 DEF SpkDone
<1>2. CASE s.row # SpkRow(k)
  <2>1. s # Cache(k)
      BY <1>2, CacheFields
  <2>. QED  BY <1>2, <2>1 DEF SpkDone
<1>. QED  BY <1>1, <1>2

LEMMA AnchorStep ==
    ASSUME NEW cs \in ChangeSet, NEW s \in OfWallet(cs), NEW a \in Txs \X Hashes,
           NEW rest, NEW rest2, rest \subseteq rest2 \cup {s}, NEW old, NEW now, NEW now2,
           AnchorDone(cs, a, rest, old, now),
           now2 = IF s.row = AnchorRow(a) THEN Result(s, now) ELSE now
    PROVE  AnchorDone(cs, a, rest2, old, now2)
<1>1. CASE s.row = AnchorRow(a)
  <2>1. a \in cs.anchors /\ s = Anchor(a)
      BY <1>1, WalletKindOfRow
  <2>2. s.do = "reference" /\ s.value # None
      BY <2>1, AnchorFields
  <2>3. now2 # None
      BY <1>1, <2>2 DEF Result, Written
  <2>. QED  BY <2>1, <2>3 DEF AnchorDone
<1>2. CASE s.row # AnchorRow(a)
  <2>1. s # Anchor(a)
      BY <1>2, AnchorFields
  <2>. QED  BY <1>2, <2>1 DEF AnchorDone
<1>. QED  BY <1>1, <1>2

LEMMA BlockStep ==
    ASSUME NEW cs \in ChangeSet, NEW s \in OfWallet(cs), NEW h \in Heights,
           NEW rest, NEW rest2, rest \subseteq rest2 \cup {s}, NEW old, NEW now, NEW now2,
           BlockDone(cs, h, rest, old, now),
           now2 = IF s.row = BlockRow(h) THEN Result(s, now) ELSE now
    PROVE  BlockDone(cs, h, rest2, old, now2)
<1>1. CASE s.row = BlockRow(h)
  <2>1. h \in cs.heights /\ s = BlockChange(cs, h)
      BY <1>1, WalletKindOfRow
  <2>2. CASE cs.blocks[h] = None
    <3>1. s.do = "delete"
        BY <2>1, <2>2, BlockFields
    <3>2. now2 = None
        BY <1>1, <3>1 DEF Result, Written
    <3>. QED  BY <2>1, <2>2, <3>2 DEF BlockDone
  <2>3. CASE cs.blocks[h] # None
    <3>1. s.do = "upsert" /\ s.value = cs.blocks[h]
        BY <2>1, <2>3, BlockFields
    <3>2. now2 = cs.blocks[h]
        BY <1>1, <3>1 DEF Result, Written
    <3>. QED  BY <2>1, <3>2 DEF BlockDone
  <2>. QED  BY <2>2, <2>3
<1>2. CASE s.row # BlockRow(h)
  <2>1. s # BlockChange(cs, h)
      BY <1>2, BlockFields
  <2>. QED  BY <1>2, <2>1 DEF BlockDone
<1>. QED  BY <1>1, <1>2

(* Merging one field of a transaction leaves the others alone.             *)
LEMMA MergeFields ==
    ASSUME NEW now \in TxRows \cup {None}, NEW s, s.do = "merge", s.value \in TxRows
    PROVE  /\ Result(s, now) \in TxRows
           /\ TxOf(Result(s, now)).whole_tx <=> TxOf(now).whole_tx \/ s.value.whole_tx
           /\ TxOf(Result(s, now)).last_seen
                 = Abstract!MaxOf(TxOf(now).last_seen, s.value.last_seen)
           /\ TxOf(Result(s, now)).first_seen
                 = Abstract!MinOf(TxOf(now).first_seen, s.value.first_seen)
           /\ TxOf(Result(s, now)).last_evicted
                 = Abstract!MaxOf(TxOf(now).last_evicted, s.value.last_evicted)
<1> DEFINE x == s.value
<1> HIDE DEF x
<1>5. s.value = x /\ x \in TxRows
    BY DEF x
<1>1. None \notin TxRows
    BY NoneAssumption
<1>2. \A y \in TxRows : /\ y.whole_tx \in BOOLEAN /\ y.last_seen \in Nat /\ y.first_seen \in Nat
                        /\ y.last_evicted \in Nat
    BY DEF TxRows
<1>3. CASE now = None
  <2>1. Result(s, now) = x
      BY <1>3, <1>5 DEF Result, Written
  <2>2. TxOf(Result(s, now)) = x
      BY <2>1, <1>1, <1>5 DEF TxOf
  <2>3. /\ ~TxOf(now).whole_tx /\ TxOf(now).last_seen = 0 /\ TxOf(now).first_seen = 0
        /\ TxOf(now).last_evicted = 0
      BY <1>3 DEF TxOf, TxRow
  <2>4. \A n \in Nat : Abstract!MaxOf(0, n) = n /\ Abstract!MinOf(0, n) = n
      BY DEF Abstract!MaxOf, Abstract!MinOf
  <2>. QED  BY <2>1, <2>2, <2>3, <2>4, <1>2, <1>5
<1>4. CASE now # None
  <2>1. now \in TxRows /\ TxOf(now) = now
      BY <1>4 DEF TxOf
  <2>2. Result(s, now) = MergeTx(now, x)
      BY <1>4, <1>5 DEF Result, Written
  <2>3. /\ MergeTx(now, x).whole_tx <=> now.whole_tx \/ x.whole_tx
        /\ MergeTx(now, x).last_seen = Abstract!MaxOf(now.last_seen, x.last_seen)
        /\ MergeTx(now, x).first_seen = Abstract!MinOf(now.first_seen, x.first_seen)
        /\ MergeTx(now, x).last_evicted = Abstract!MaxOf(now.last_evicted, x.last_evicted)
      BY DEF MergeTx, TxRow
  <2>4. MergeTx(now, x) \in TxRows
    <3>1. /\ (now.whole_tx \/ x.whole_tx) \in BOOLEAN
          /\ Abstract!MaxOf(now.last_seen, x.last_seen) \in Nat
          /\ Abstract!MinOf(now.first_seen, x.first_seen) \in Nat
          /\ Abstract!MaxOf(now.last_evicted, x.last_evicted) \in Nat
        BY <1>2, <1>5, <2>1, Clamps
    <3>. QED  BY <3>1 DEF MergeTx, TxRow, TxRows
  <2>5. TxOf(Result(s, now)) = MergeTx(now, x)
      BY <2>2, <2>4, <1>1 DEF TxOf
  <2>. QED  BY <2>1, <2>2, <2>3, <2>4, <2>5, <1>5
<1>. QED  BY <1>3, <1>4 DEF x

WholeRow(i, j, k) == TxRow(TRUE, i, j, k)
TimesRow(i, j, k) == TxRow(FALSE, i, j, k)

LEMMA TxRowValues ==
    \A i, j, k \in Nat :
        /\ WholeRow(i, j, k) \in TxRows /\ TimesRow(i, j, k) \in TxRows
        /\ WholeRow(i, j, k).whole_tx /\ ~TimesRow(i, j, k).whole_tx
        /\ WholeRow(i, j, k).last_seen = i /\ TimesRow(i, j, k).last_seen = i
        /\ WholeRow(i, j, k).first_seen = j /\ TimesRow(i, j, k).first_seen = j
        /\ WholeRow(i, j, k).last_evicted = k /\ TimesRow(i, j, k).last_evicted = k
BY DEF WholeRow, TimesRow, TxRow, TxRows

(* The row that a statement about transaction t merges into its row.       *)
LEMMA TxValues ==
    ASSUME NEW cs \in ChangeSet, NEW s, NEW t \in Txs, OfTx(cs, t, s)
    PROVE  /\ s.do = "merge" /\ s.value \in TxRows
           /\ s.value.whole_tx => t \in cs.txs
           /\ s.value.last_seen \in {0, cs.last_seen[t]}
           /\ s.value.first_seen \in {0, cs.first_seen[t]}
           /\ s.value.last_evicted \in {0, cs.last_evicted[t]}
           /\ s = IsKnown(t) => s.value.whole_tx
           /\ s = IsSeen(cs, t) => s.value.last_seen = cs.last_seen[t]
           /\ s = IsFirst(cs, t) => s.value.first_seen = cs.first_seen[t]
           /\ s = IsEvicted(cs, t) => s.value.last_evicted = cs.last_evicted[t]
<1>1. cs.last_seen[t] \in Nat /\ cs.first_seen[t] \in Nat /\ cs.last_evicted[t] \in Nat
    BY DEF ChangeSet
<1>2. ASSUME s = IsKnown(t)
      PROVE  /\ s.do = "merge" /\ s.value \in TxRows /\ s.value.whole_tx
             /\ s.value.last_seen = 0 /\ s.value.first_seen = 0
             /\ s.value.last_evicted = 0
  <2>1. s = TxChange(t, WholeRow(0, 0, 0))
      BY <1>2, Zenon DEF IsKnown, WholeRow
  <2>2. s.do = "merge" /\ s.value = WholeRow(0, 0, 0)
      BY <2>1 DEF TxChange, Statement
  <2>. QED  BY <1>1, <2>2, TxRowValues
<1>3. ASSUME s = IsSeen(cs, t)
      PROVE  /\ s.do = "merge" /\ s.value \in TxRows /\ ~s.value.whole_tx
             /\ s.value.last_seen = cs.last_seen[t] /\ s.value.first_seen = 0
             /\ s.value.last_evicted = 0
  <2>1. s = TxChange(t, TimesRow(cs.last_seen[t], 0, 0))
      BY <1>3, Zenon DEF IsSeen, TimesRow
  <2>2. s.do = "merge" /\ s.value = TimesRow(cs.last_seen[t], 0, 0)
      BY <2>1 DEF TxChange, Statement
  <2>3. LET r == TimesRow(cs.last_seen[t], 0, 0) IN
        /\ r \in TxRows /\ ~r.whole_tx /\ r.last_seen = cs.last_seen[t]
        /\ r.first_seen = 0 /\ r.last_evicted = 0
      BY <1>1, TxRowValues
  <2>. QED  BY <2>2, <2>3
<1>4. ASSUME s = IsFirst(cs, t)
      PROVE  /\ s.do = "merge" /\ s.value \in TxRows /\ ~s.value.whole_tx
             /\ s.value.last_seen = 0 /\ s.value.first_seen = cs.first_seen[t]
             /\ s.value.last_evicted = 0
  <2>1. s = TxChange(t, TimesRow(0, cs.first_seen[t], 0))
      BY <1>4, Zenon DEF IsFirst, TimesRow
  <2>2. s.do = "merge" /\ s.value = TimesRow(0, cs.first_seen[t], 0)
      BY <2>1 DEF TxChange, Statement
  <2>. QED  BY <1>1, <2>2, TxRowValues
<1>5. ASSUME s = IsEvicted(cs, t)
      PROVE  /\ s.do = "merge" /\ s.value \in TxRows /\ ~s.value.whole_tx
             /\ s.value.last_seen = 0 /\ s.value.first_seen = 0
             /\ s.value.last_evicted = cs.last_evicted[t]
  <2>1. s = TxChange(t, TimesRow(0, 0, cs.last_evicted[t]))
      BY <1>5, Zenon DEF IsEvicted, TimesRow
  <2>2. s.do = "merge" /\ s.value = TimesRow(0, 0, cs.last_evicted[t])
      BY <2>1 DEF TxChange, Statement
  <2>. QED  BY <1>1, <2>2, TxRowValues
<1>6. CASE t \in cs.txs /\ s = IsKnown(t)
    BY <1>1, <1>2, <1>3, <1>4, <1>5, <1>6
<1>7. CASE cs.last_seen[t] > 0 /\ s = IsSeen(cs, t)
    BY <1>1, <1>2, <1>3, <1>4, <1>5, <1>7
<1>8. CASE cs.first_seen[t] > 0 /\ s = IsFirst(cs, t)
    BY <1>1, <1>2, <1>3, <1>4, <1>5, <1>8
<1>9. CASE cs.last_evicted[t] > 0 /\ s = IsEvicted(cs, t)
    BY <1>1, <1>2, <1>3, <1>4, <1>5, <1>9
<1>. QED  BY <1>6, <1>7, <1>8, <1>9 DEF OfTx

LEMMA TxStep ==
    ASSUME NEW cs \in ChangeSet, NEW s \in OfWallet(cs), NEW t \in Txs,
           NEW rest, NEW rest2, rest \subseteq rest2 \cup {s},
           NEW old \in TxRows \cup {None}, NEW now, NEW now2,
           TxDone(cs, t, rest, old, now),
           now2 = IF s.row = TxRowOf(t) THEN Result(s, now) ELSE now
    PROVE  TxDone(cs, t, rest2, old, now2)
<1>1. /\ IsKnown(t).row = TxRowOf(t) /\ IsSeen(cs, t).row = TxRowOf(t)
      /\ IsFirst(cs, t).row = TxRowOf(t) /\ IsEvicted(cs, t).row = TxRowOf(t)
    BY TxFields DEF IsKnown, IsSeen, IsFirst, IsEvicted
<1>2. CASE s.row # TxRowOf(t)
    BY <1>1, <1>2 DEF TxDone
<1>3. CASE s.row = TxRowOf(t)
  <2> DEFINE L == cs.last_seen[t]
             F == cs.first_seen[t]
             E == cs.last_evicted[t]
             ol == TxOf(old).last_seen
             of == TxOf(old).first_seen
             oe == TxOf(old).last_evicted
             x == s.value
  <2>1. L \in Nat /\ F \in Nat /\ E \in Nat
      BY DEF ChangeSet
  <2>2. /\ now \in TxRows \cup {None} /\ ol \in Nat /\ of \in Nat /\ oe \in Nat
        /\ TxOf(now).last_seen \in Nat /\ TxOf(now).first_seen \in Nat
        /\ TxOf(now).last_evicted \in Nat
    <3>1. \A y \in TxRows \cup {None} : /\ TxOf(y).last_seen \in Nat /\ TxOf(y).first_seen \in Nat
                                       /\ TxOf(y).last_evicted \in Nat
        BY DEF TxOf, TxRow, TxRows
    <3>. QED  BY <3>1 DEF TxDone
  <2>3. OfTx(cs, t, s)
      BY <1>3, WalletKindOfRow
  <2>4. s.do = "merge"
      BY <2>3, TxValues
  <2>7. /\ x \in TxRows
        /\ x.whole_tx => t \in cs.txs
        /\ x.last_seen \in {0, L} /\ x.first_seen \in {0, F} /\ x.last_evicted \in {0, E}
      BY <2>3, TxValues
  <2>8. /\ s = IsKnown(t) => x.whole_tx
        /\ s = IsSeen(cs, t) => x.last_seen = L
        /\ s = IsFirst(cs, t) => x.first_seen = F
        /\ s = IsEvicted(cs, t) => x.last_evicted = E
      BY <2>3, TxValues
  <2> HIDE DEF x, L, F, E
  <2>9. /\ now2 \in TxRows
        /\ TxOf(now2).whole_tx <=> TxOf(now).whole_tx \/ x.whole_tx
        /\ TxOf(now2).last_seen = Abstract!MaxOf(TxOf(now).last_seen, x.last_seen)
        /\ TxOf(now2).first_seen = Abstract!MinOf(TxOf(now).first_seen, x.first_seen)
        /\ TxOf(now2).last_evicted = Abstract!MaxOf(TxOf(now).last_evicted, x.last_evicted)
    <3>1. now2 = Result(s, now)
        BY <1>3
    <3>. QED  BY <3>1, <2>2, <2>4, <2>7, MergeFields, Zenon DEF x
  <2>10. /\ TxOf(now2).whole_tx => TxOf(old).whole_tx \/ t \in cs.txs
         /\ TxOf(old).whole_tx => TxOf(now2).whole_tx
         /\ t \in cs.txs /\ IsKnown(t) \notin rest2 => TxOf(now2).whole_tx
      BY <2>7, <2>8, <2>9 DEF TxDone
  <2>11. /\ TxOf(now2).last_seen \in {ol, Abstract!MaxOf(ol, L)}
         /\ L > 0 /\ IsSeen(cs, t) \notin rest2 => TxOf(now2).last_seen = Abstract!MaxOf(ol, L)
    <3>1. /\ TxOf(now).last_seen \in {ol, Abstract!MaxOf(ol, L)}
          /\ L > 0 /\ IsSeen(cs, t) \notin rest => TxOf(now).last_seen = Abstract!MaxOf(ol, L)
        BY DEF TxDone, L
    <3>2. /\ Abstract!MaxOf(ol, L) \in Nat /\ Abstract!MaxOf(Abstract!MaxOf(ol, L), L) = Abstract!MaxOf(ol, L)
          /\ \A n \in Nat : Abstract!MaxOf(n, 0) = n
        BY <2>1, <2>2, Clamps
    <3> HIDE DEF ol
    <3>3. IsSeen(cs, t) \notin rest2 => s = IsSeen(cs, t) \/ IsSeen(cs, t) \notin rest
        OBVIOUS
    <3>. QED  BY <2>2, <2>7, <2>8, <2>9, <3>1, <3>2, <3>3
  <2>12. /\ TxOf(now2).first_seen \in {of, Abstract!MinOf(of, F)}
         /\ F > 0 /\ IsFirst(cs, t) \notin rest2 => TxOf(now2).first_seen = Abstract!MinOf(of, F)
    <3>1. /\ TxOf(now).first_seen \in {of, Abstract!MinOf(of, F)}
          /\ F > 0 /\ IsFirst(cs, t) \notin rest => TxOf(now).first_seen = Abstract!MinOf(of, F)
        BY DEF TxDone, F
    <3>2. /\ Abstract!MinOf(of, F) \in Nat /\ Abstract!MinOf(Abstract!MinOf(of, F), F) = Abstract!MinOf(of, F)
          /\ \A n \in Nat : Abstract!MinOf(n, 0) = n
        BY <2>1, <2>2, Clamps
    <3> HIDE DEF of
    <3>3. IsFirst(cs, t) \notin rest2 => s = IsFirst(cs, t) \/ IsFirst(cs, t) \notin rest
        OBVIOUS
    <3>. QED  BY <2>2, <2>7, <2>8, <2>9, <3>1, <3>2, <3>3
  <2>13. /\ TxOf(now2).last_evicted \in {oe, Abstract!MaxOf(oe, E)}
         /\ E > 0 /\ IsEvicted(cs, t) \notin rest2 => TxOf(now2).last_evicted = Abstract!MaxOf(oe, E)
    <3>1. /\ TxOf(now).last_evicted \in {oe, Abstract!MaxOf(oe, E)}
          /\ E > 0 /\ IsEvicted(cs, t) \notin rest => TxOf(now).last_evicted = Abstract!MaxOf(oe, E)
        BY DEF TxDone, E
    <3>2. /\ Abstract!MaxOf(oe, E) \in Nat /\ Abstract!MaxOf(Abstract!MaxOf(oe, E), E) = Abstract!MaxOf(oe, E)
          /\ \A n \in Nat : Abstract!MaxOf(n, 0) = n
        BY <2>1, <2>2, Clamps
    <3> HIDE DEF oe
    <3>3. IsEvicted(cs, t) \notin rest2 => s = IsEvicted(cs, t) \/ IsEvicted(cs, t) \notin rest
        OBVIOUS
    <3>. QED  BY <2>2, <2>7, <2>8, <2>9, <3>1, <3>2, <3>3
  <2> HIDE DEF ol, of, oe
  <2>. QED  BY <2>9, <2>10, <2>11, <2>12, <2>13 DEF TxDone, L, F, E, ol, of, oe
<1>. QED  BY <1>2, <1>3

(* The wallet's call starts with every statement of its change set.        *)
LEMMA WalletStart ==
    ASSUME NEW cs \in ChangeSet, NEW w, NEW rows, DOMAIN w = {}, WalletDb(rows),
           \A k \in Keychains : cs.revealed[k] > 0 => rows[KeyRow(k)] # None \/ k \in cs.descriptors
    PROVE  WalletTx(cs, Write(cs), w, rows)
<1>1. /\ Write(cs) \in Seq(OfWallet(cs)) /\ Range(Write(cs)) = OfWallet(cs)
      /\ First(Described(cs), Write(cs))
    BY WriteLists DEF Lists
<1>2. \A r : Seen(w, rows, r) = rows[r]
    BY DEF Seen
<1>3. \A k \in Keychains : KeychainDone(cs, k, OfWallet(cs), rows[KeyRow(k)], rows[KeyRow(k)])
  <2> TAKE k \in Keychains
  <2>1. k \in cs.descriptors => Describe(k) \in OfWallet(cs)
      BY DEF OfWallet, Described, Describe, KeyRow
  <2>2. cs.revealed[k] > 0 => Reveal(cs, k) \in OfWallet(cs)
      BY DEF OfWallet, NotDescribed, Revealed, Reveal, KeyRow
  <2>3. rows[KeyRow(k)] # None => rows[KeyRow(k)] = Base(rows[KeyRow(k)])
      BY DEF Base
  <2>. QED  BY <2>1, <2>2, <2>3 DEF KeychainDone
<1>4. \A k \in Keychains : SpkDone(cs, k, OfWallet(cs), rows[SpkRow(k)], rows[SpkRow(k)])
  <2> TAKE k \in Keychains
  <2>1. k \in cs.spks => Cache(k) \in OfWallet(cs)
      BY DEF OfWallet, NotDescribed, Cached, Cache, SpkRow
  <2>. QED  BY <2>1 DEF SpkDone
<1>5. \A h \in Heights : BlockDone(cs, h, OfWallet(cs), rows[BlockRow(h)], rows[BlockRow(h)])
  <2> TAKE h \in Heights
  <2>1. h \in cs.heights => BlockChange(cs, h) \in OfWallet(cs)
      BY DEF OfWallet, NotDescribed, Linked
  <2>. QED  BY <2>1 DEF BlockDone
<1>6. \A t \in Txs : TxDone(cs, t, OfWallet(cs), rows[TxRowOf(t)], rows[TxRowOf(t)])
  <2> TAKE t \in Txs
  <2>1. t \in cs.txs => IsKnown(t) \in OfWallet(cs)
      BY DEF OfWallet, NotDescribed, OfTxGraph, Known, IsKnown
  <2>2. cs.last_seen[t] > 0 => IsSeen(cs, t) \in OfWallet(cs)
      BY DEF OfWallet, NotDescribed, OfTxGraph, LastSeen, IsSeen
  <2>3. cs.first_seen[t] > 0 => IsFirst(cs, t) \in OfWallet(cs)
      BY DEF OfWallet, NotDescribed, OfTxGraph, FirstSeen, IsFirst
  <2>4. cs.last_evicted[t] > 0 => IsEvicted(cs, t) \in OfWallet(cs)
      BY DEF OfWallet, NotDescribed, OfTxGraph, LastEvicted, IsEvicted
  <2>5. rows[TxRowOf(t)] \in TxRows \cup {None}
      BY DEF WalletDb
  <2>. QED  BY <2>1, <2>2, <2>3, <2>4, <2>5 DEF TxDone
<1>7. \A a \in Txs \X Hashes : AnchorDone(cs, a, OfWallet(cs), rows[AnchorRow(a)], rows[AnchorRow(a)])
  <2> TAKE a \in Txs \X Hashes
  <2>1. a \in cs.anchors => Anchor(a) \in OfWallet(cs)
      BY DEF OfWallet, NotDescribed, OfTxGraph, Anchored, Anchor, AnchorRow
  <2>. QED  BY <2>1 DEF AnchorDone
<1>. QED  BY <1>1, <1>2, <1>3, <1>4, <1>5, <1>6, <1>7 DEF WalletTx

(* Every statement of the wallet's call brings its row further.            *)
LEMMA WalletStep ==
    ASSUME NEW cs \in ChangeSet, NEW left, NEW w, NEW rows, left # <<>>,
           WalletDb(rows), WalletTx(cs, left, w, rows)
    PROVE  WalletTx(cs, Tail(left), Wrote(w, SeenAll(w, rows), Head(left)), rows)
<1> DEFINE s == Head(left)
           x == Wrote(w, SeenAll(w, rows), s)
           rest == Range(left)
           rest2 == Range(Tail(left))
<1>1. left \in Seq(OfWallet(cs)) /\ First(Described(cs), left) /\ DOMAIN w \subseteq WalletRows
    BY DEF WalletTx
<1>2. /\ s \in OfWallet(cs) /\ Tail(left) \in Seq(OfWallet(cs)) /\ rest \subseteq rest2 \cup {s}
    BY <1>1, TailRange, HeadTailProperties
<1>3. First(Described(cs), Tail(left)) /\ (s \notin Described(cs) => rest2 \cap Described(cs) = {})
    BY <1>1, FirstOfTail
<1>4. /\ s.row \in WalletRows /\ DOMAIN x \subseteq DOMAIN w \cup {s.row}
      /\ \A r \in Rows :
            Seen(x, rows, r) = IF r = s.row THEN Result(s, Seen(w, rows, r)) ELSE Seen(w, rows, r)
    BY <1>2, WalletTouch
<1> HIDE DEF s, x, rest, rest2
<1>5. /\ \A k \in Keychains : KeyRow(k) \in Rows /\ SpkRow(k) \in Rows
      /\ \A h \in Heights : BlockRow(h) \in Rows
      /\ \A t \in Txs : TxRowOf(t) \in Rows
      /\ \A a \in Txs \X Hashes : AnchorRow(a) \in Rows
    BY WalletRowsAreNot DEF WalletRows
<1>6. ASSUME NEW k \in Keychains
      PROVE  KeychainDone(cs, k, rest2, rows[KeyRow(k)], Seen(x, rows, KeyRow(k)))
  <2> DEFINE old == rows[KeyRow(k)]
             now == Seen(w, rows, KeyRow(k))
             now2 == Seen(x, rows, KeyRow(k))
  <2>1. KeychainDone(cs, k, rest, old, now) /\ old \in Nat \cup {None}
      BY DEF WalletTx, WalletDb, rest
  <2>2. now2 = IF s.row = KeyRow(k) THEN Result(s, now) ELSE now
      BY <1>4, <1>5
  <2> HIDE DEF old, now, now2
  <2>3. KeychainDone(cs, k, rest2, old, now2)
      BY <1>2, <1>3, <2>1, <2>2, KeychainStep, Zenon
  <2>. QED  BY <2>3 DEF old, now2
<1>7. ASSUME NEW k \in Keychains
      PROVE  SpkDone(cs, k, rest2, rows[SpkRow(k)], Seen(x, rows, SpkRow(k)))
  <2> DEFINE old == rows[SpkRow(k)]
             now == Seen(w, rows, SpkRow(k))
             now2 == Seen(x, rows, SpkRow(k))
  <2>1. SpkDone(cs, k, rest, old, now)
      BY DEF WalletTx, rest
  <2>2. now2 = IF s.row = SpkRow(k) THEN Result(s, now) ELSE now
      BY <1>4, <1>5
  <2> HIDE DEF old, now, now2
  <2>3. SpkDone(cs, k, rest2, old, now2)
      BY <1>2, <2>1, <2>2, SpkStep, Zenon
  <2>. QED  BY <2>3 DEF old, now2
<1>8. ASSUME NEW h \in Heights
      PROVE  BlockDone(cs, h, rest2, rows[BlockRow(h)], Seen(x, rows, BlockRow(h)))
  <2> DEFINE old == rows[BlockRow(h)]
             now == Seen(w, rows, BlockRow(h))
             now2 == Seen(x, rows, BlockRow(h))
  <2>1. BlockDone(cs, h, rest, old, now)
      BY DEF WalletTx, rest
  <2>2. now2 = IF s.row = BlockRow(h) THEN Result(s, now) ELSE now
      BY <1>4, <1>5
  <2> HIDE DEF old, now, now2
  <2>3. BlockDone(cs, h, rest2, old, now2)
      BY <1>2, <2>1, <2>2, BlockStep, Zenon
  <2>. QED  BY <2>3 DEF old, now2
<1>9. ASSUME NEW t \in Txs
      PROVE  TxDone(cs, t, rest2, rows[TxRowOf(t)], Seen(x, rows, TxRowOf(t)))
  <2> DEFINE old == rows[TxRowOf(t)]
             now == Seen(w, rows, TxRowOf(t))
             now2 == Seen(x, rows, TxRowOf(t))
  <2>1. TxDone(cs, t, rest, old, now) /\ old \in TxRows \cup {None}
      BY DEF WalletTx, WalletDb, rest
  <2>2. now2 = IF s.row = TxRowOf(t) THEN Result(s, now) ELSE now
      BY <1>4, <1>5
  <2> HIDE DEF old, now, now2
  <2>3. TxDone(cs, t, rest2, old, now2)
      BY <1>2, <2>1, <2>2, TxStep, Zenon
  <2>. QED  BY <2>3 DEF old, now2
<1>10. ASSUME NEW a \in Txs \X Hashes
       PROVE  AnchorDone(cs, a, rest2, rows[AnchorRow(a)], Seen(x, rows, AnchorRow(a)))
  <2> DEFINE old == rows[AnchorRow(a)]
             now == Seen(w, rows, AnchorRow(a))
             now2 == Seen(x, rows, AnchorRow(a))
  <2>1. AnchorDone(cs, a, rest, old, now)
      BY DEF WalletTx, rest
  <2>2. now2 = IF s.row = AnchorRow(a) THEN Result(s, now) ELSE now
      BY <1>4, <1>5
  <2> HIDE DEF old, now, now2
  <2>3. AnchorDone(cs, a, rest2, old, now2)
      BY <1>2, <2>1, <2>2, AnchorStep, Zenon
  <2>. QED  BY <2>3 DEF old, now2
<1>11. DOMAIN x \subseteq WalletRows
    BY <1>1, <1>4
<1>. QED  BY <1>2, <1>3, <1>6, <1>7, <1>8, <1>9, <1>10, <1>11, Zenon DEF WalletTx, s, x, rest2

(* Calls that end meanwhile change other rows.                             *)
LEMMA WalletFrame ==
    ASSUME NEW cs, NEW left, NEW w, NEW rows, NEW rows2, WalletTx(cs, left, w, rows),
           \A r \in WalletRows : rows2[r] = rows[r]
    PROVE  WalletTx(cs, left, w, rows2)
<1>1. /\ \A k \in Keychains : KeyRow(k) \in WalletRows /\ SpkRow(k) \in WalletRows
      /\ \A h \in Heights : BlockRow(h) \in WalletRows
      /\ \A t \in Txs : TxRowOf(t) \in WalletRows
      /\ \A a \in Txs \X Hashes : AnchorRow(a) \in WalletRows
    BY DEF WalletRows
<1>2. \A r \in WalletRows : Seen(w, rows2, r) = Seen(w, rows, r)
    BY DEF Seen
<1>. QED  BY <1>1, <1>2 DEF WalletTx

(* The wallet as the rows hold it.                                         *)
ReadOf(rows) ==
    [descriptors |-> {k \in Keychains : rows[KeyRow(k)] # None},
     revealed |-> [k \in Keychains |-> Base(rows[KeyRow(k)])],
     spks |-> {k \in Keychains : rows[SpkRow(k)] # None},
     blocks |-> [h \in Heights |-> rows[BlockRow(h)]],
     txs |-> {t \in Txs : TxOf(rows[TxRowOf(t)]).whole_tx},
     last_seen |-> [t \in Txs |-> TxOf(rows[TxRowOf(t)]).last_seen],
     first_seen |-> [t \in Txs |-> TxOf(rows[TxRowOf(t)]).first_seen],
     last_evicted |-> [t \in Txs |-> TxOf(rows[TxRowOf(t)]).last_evicted],
     anchors |-> {a \in Txs \X Hashes : rows[AnchorRow(a)] # None}]

(* What the wallet's call has changed when nothing is left to it.          *)
LEMMA WalletDone ==
    ASSUME NEW cs \in ChangeSet, NEW w, NEW rows, NEW now, WalletDb(rows),
           WalletTx(cs, <<>>, w, rows), \A r \in Rows : now[r] = Seen(w, rows, r)
    PROVE  WalletDb(now) /\ ReadOf(now) = Abstract!MergeChangeSet(ReadOf(rows), cs)
<1>1. Range(<<>>) = {}
    BY DEF Range
<1>2. /\ \A k \in Keychains : KeyRow(k) \in Rows /\ SpkRow(k) \in Rows
      /\ \A h \in Heights : BlockRow(h) \in Rows
      /\ \A t \in Txs : TxRowOf(t) \in Rows
      /\ \A a \in Txs \X Hashes : AnchorRow(a) \in Rows
    BY WalletRowsAreNot DEF WalletRows
<1>3. ASSUME NEW k \in Keychains
      PROVE  /\ now[KeyRow(k)] \in Nat \cup {None}
             /\ now[KeyRow(k)] # None <=> rows[KeyRow(k)] # None \/ k \in cs.descriptors
             /\ Base(now[KeyRow(k)]) = Abstract!MaxOf(Base(rows[KeyRow(k)]), cs.revealed[k])
  <2> DEFINE old == rows[KeyRow(k)]
             x == now[KeyRow(k)]
             R == cs.revealed[k]
             m == Abstract!MaxOf(Base(old), R)
  <2>1. KeychainDone(cs, k, {}, old, x)
      BY <1>1, <1>2 DEF WalletTx
  <2>2. old \in Nat \cup {None} /\ R \in Nat /\ None \notin Nat
      BY NoneAssumption DEF WalletDb, ChangeSet
  <2>3. Base(old) \in Nat
      BY <2>2 DEF Base
  <2>4. m \in Nat /\ (R = 0 => m = Base(old))
      BY <2>2, <2>3, Clamps
  <2>5. x \in Nat \cup {None} /\ (x # None => x \in {Base(old), m}) /\ (R > 0 => x = m)
      BY <2>1, <2>3, <2>4 DEF KeychainDone
  <2>6. Base(x) = m
    <3> HIDE DEF old, x, R, m
    <3>1. CASE R > 0
        BY <3>1, <2>2, <2>4, <2>5 DEF Base
    <3>2. CASE R = 0 /\ x # None
        BY <3>2, <2>4, <2>5 DEF Base
    <3>3. CASE R = 0 /\ x = None
      <4>1. old = None
          BY <2>1, <3>3 DEF KeychainDone
      <4>. QED  BY <3>3, <4>1, <2>4 DEF Base
    <3>. QED  BY <3>1, <3>2, <3>3, <2>2
  <2>7. x # None <=> old # None \/ k \in cs.descriptors
      BY <2>1 DEF KeychainDone
  <2>. QED  BY <2>5, <2>6, <2>7
<1>4. ASSUME NEW k \in Keychains
      PROVE  now[SpkRow(k)] # None <=> rows[SpkRow(k)] # None \/ k \in cs.spks
  <2>1. SpkDone(cs, k, {}, rows[SpkRow(k)], now[SpkRow(k)])
      BY <1>1, <1>2 DEF WalletTx
  <2>. QED  BY <2>1 DEF SpkDone
<1>5. ASSUME NEW h \in Heights
      PROVE  /\ now[BlockRow(h)] = IF h \in cs.heights THEN cs.blocks[h] ELSE rows[BlockRow(h)]
             /\ now[BlockRow(h)] \in Hashes \cup {None}
  <2>1. BlockDone(cs, h, {}, rows[BlockRow(h)], now[BlockRow(h)])
      BY <1>1, <1>2 DEF WalletTx
  <2>2. cs.blocks[h] \in Hashes \cup {None} /\ rows[BlockRow(h)] \in Hashes \cup {None}
      BY DEF WalletDb, ChangeSet
  <2>. QED  BY <2>1, <2>2 DEF BlockDone
<1>6. ASSUME NEW t \in Txs
      PROVE  LET old == TxOf(rows[TxRowOf(t)]) x == TxOf(now[TxRowOf(t)]) IN
             /\ now[TxRowOf(t)] \in TxRows \cup {None}
             /\ x.whole_tx <=> old.whole_tx \/ t \in cs.txs
             /\ x.last_seen = Abstract!MaxOf(old.last_seen, cs.last_seen[t])
             /\ x.first_seen = Abstract!MinOf(old.first_seen, cs.first_seen[t])
             /\ x.last_evicted = Abstract!MaxOf(old.last_evicted, cs.last_evicted[t])
  <2> DEFINE old == TxOf(rows[TxRowOf(t)])
             x == TxOf(now[TxRowOf(t)])
  <2>1. TxDone(cs, t, {}, rows[TxRowOf(t)], now[TxRowOf(t)])
      BY <1>1, <1>2 DEF WalletTx
  <2>2. /\ cs.last_seen[t] \in Nat /\ cs.first_seen[t] \in Nat /\ cs.last_evicted[t] \in Nat
      BY DEF ChangeSet
  <2>3. old.last_seen \in Nat /\ old.first_seen \in Nat /\ old.last_evicted \in Nat
      BY DEF WalletDb, TxOf, TxRow, TxRows
  <2>4. now[TxRowOf(t)] \in TxRows \cup {None} /\ (x.whole_tx <=> old.whole_tx \/ t \in cs.txs)
      BY <2>1 DEF TxDone
  <2>5. x.last_seen = Abstract!MaxOf(old.last_seen, cs.last_seen[t])
    <3>1. /\ x.last_seen \in {old.last_seen, Abstract!MaxOf(old.last_seen, cs.last_seen[t])}
          /\ cs.last_seen[t] > 0 => x.last_seen = Abstract!MaxOf(old.last_seen, cs.last_seen[t])
        BY <2>1 DEF TxDone
    <3>2. cs.last_seen[t] > 0 \/ cs.last_seen[t] = 0
        BY <2>2
    <3>3. Abstract!MaxOf(old.last_seen, 0) = old.last_seen
        BY <2>3, Clamps
    <3> HIDE DEF x, old
    <3>4. CASE cs.last_seen[t] = 0
        BY <3>1, <3>3, <3>4
    <3>. QED  BY <3>1, <3>2, <3>4
  <2>6. x.first_seen = Abstract!MinOf(old.first_seen, cs.first_seen[t])
    <3>1. /\ x.first_seen \in {old.first_seen, Abstract!MinOf(old.first_seen, cs.first_seen[t])}
          /\ cs.first_seen[t] > 0 => x.first_seen = Abstract!MinOf(old.first_seen, cs.first_seen[t])
        BY <2>1 DEF TxDone
    <3>2. cs.first_seen[t] > 0 \/ cs.first_seen[t] = 0
        BY <2>2
    <3>3. Abstract!MinOf(old.first_seen, 0) = old.first_seen
        BY <2>3, Clamps
    <3> HIDE DEF x, old
    <3>4. CASE cs.first_seen[t] = 0
        BY <3>1, <3>3, <3>4
    <3>. QED  BY <3>1, <3>2, <3>4
  <2>7. x.last_evicted = Abstract!MaxOf(old.last_evicted, cs.last_evicted[t])
    <3>1. /\ x.last_evicted \in {old.last_evicted, Abstract!MaxOf(old.last_evicted, cs.last_evicted[t])}
          /\ cs.last_evicted[t] > 0 =>
                x.last_evicted = Abstract!MaxOf(old.last_evicted, cs.last_evicted[t])
        BY <2>1 DEF TxDone
    <3>2. cs.last_evicted[t] > 0 \/ cs.last_evicted[t] = 0
        BY <2>2
    <3>3. Abstract!MaxOf(old.last_evicted, 0) = old.last_evicted
        BY <2>3, Clamps
    <3> HIDE DEF x, old
    <3>4. CASE cs.last_evicted[t] = 0
        BY <3>1, <3>3, <3>4
    <3>. QED  BY <3>1, <3>2, <3>4
  <2>. QED  BY <2>4, <2>5, <2>6, <2>7
<1>7. ASSUME NEW a \in Txs \X Hashes
      PROVE  now[AnchorRow(a)] # None <=> rows[AnchorRow(a)] # None \/ a \in cs.anchors
  <2>1. AnchorDone(cs, a, {}, rows[AnchorRow(a)], now[AnchorRow(a)])
      BY <1>1, <1>2 DEF WalletTx
  <2>. QED  BY <2>1 DEF AnchorDone
<1>8. WalletDb(now)
    BY <1>3, <1>5, <1>6 DEF WalletDb
<1>9. ReadOf(now) = Abstract!MergeChangeSet(ReadOf(rows), cs)
  <2>1. /\ cs.descriptors \subseteq Keychains /\ cs.spks \subseteq Keychains
        /\ cs.txs \subseteq Txs /\ cs.anchors \subseteq Txs \X Hashes
      BY DEF ChangeSet
  <2> DEFINE R == ReadOf(rows)
             N == ReadOf(now)
  <2>2. N.descriptors = R.descriptors \cup cs.descriptors
      BY <1>3, <2>1 DEF ReadOf
  <2>3. N.revealed = [k \in Keychains |-> Abstract!MaxOf(R.revealed[k], cs.revealed[k])]
      BY <1>3 DEF ReadOf
  <2>4. N.spks = R.spks \cup cs.spks
      BY <1>4, <2>1 DEF ReadOf
  <2>5. N.blocks = [h \in Heights |-> IF h \in cs.heights THEN cs.blocks[h] ELSE R.blocks[h]]
      BY <1>5 DEF ReadOf
  <2>6. N.txs = R.txs \cup cs.txs
      BY <1>6, <2>1 DEF ReadOf
  <2>7. N.last_seen = [t \in Txs |-> Abstract!MaxOf(R.last_seen[t], cs.last_seen[t])]
      BY <1>6 DEF ReadOf
  <2>8. N.first_seen = [t \in Txs |-> Abstract!MinOf(R.first_seen[t], cs.first_seen[t])]
      BY <1>6 DEF ReadOf
  <2>9. N.last_evicted = [t \in Txs |-> Abstract!MaxOf(R.last_evicted[t], cs.last_evicted[t])]
      BY <1>6 DEF ReadOf
  <2>10. N.anchors = R.anchors \cup cs.anchors
      BY <1>7, <2>1 DEF ReadOf
  <2>11. N = [descriptors |-> N.descriptors, revealed |-> N.revealed, spks |-> N.spks,
              blocks |-> N.blocks, txs |-> N.txs, last_seen |-> N.last_seen,
              first_seen |-> N.first_seen, last_evicted |-> N.last_evicted,
              anchors |-> N.anchors]
      BY DEF ReadOf
  <2> HIDE DEF R, N
  <2>12. N = Abstract!MergeChangeSet(R, cs)
      BY <2>2, <2>3, <2>4, <2>5, <2>6, <2>7, <2>8, <2>9, <2>10, <2>11, Zenon
         DEF Abstract!MergeChangeSet
  <2>. QED  BY <2>12 DEF R, N
<1>. QED  BY <1>8, <1>9

-----------------------------------------------------------------------------
(* The inductive invariant.                                                *)

OpsOf(c) == IF c = WalletClient THEN WalletOps ELSE ContractOps

Types ==
    /\ backend \in {"postgres", "sled"}
    /\ tree \in [Ids -> States \cup {None}]
    /\ DOMAIN writes = Clients /\ DOMAIN todo = Clients /\ DOMAIN copy = Clients
    /\ phase \in [Clients -> {"idle", "acquire", "open", "got"}]
    /\ pending \in [Clients -> Ops \cup {None}]
    /\ reply \in [Clients -> {None, "ok", "error"}]
    /\ fresh \in [Clients -> SUBSET Ids]
    /\ Connections <= MaxConnections
    /\ calls \in 0..MaxCalls

(* Every descriptor that a change set relies on is stored or carried.      *)
Rests(cs, rows) ==
    \A k \in Keychains : cs.revealed[k] > 0 => rows[KeyRow(k)] # None \/ k \in cs.descriptors

CallsInv ==
    \A c \in Clients :
        /\ pending[c] = None <=> phase[c] = "idle"
        /\ pending[c] # None => pending[c] \in OpsOf(c)
        /\ phase[c] = "open" => backend = "postgres"
        /\ phase[c] = "got" => backend = "sled" /\ c = WalletClient /\ copy[c] = changeset
        /\ phase[c] # "open" => DOMAIN writes[c] = {}
        /\ phase[c] = "acquire" /\ c = WalletClient /\ backend = "postgres" =>
              Rests(pending[c].changes, db)

(* No row is written by two transactions.                                  *)
LocksInv ==
    \A c, d \in Clients : c # d => DOMAIN writes[c] \cap DOMAIN writes[d] = {}

(* The committed rows: both halves of every contract, or neither.          *)
DbInv ==
    /\ WalletDb(db)
    /\ \A id \in Ids : db[Meta(id)] = db[Data(id)] /\ db[Data(id)] \in States \cup {None}

(* How far each transaction has come.                                      *)
TxInv(c) ==
    IF c = WalletClient THEN WalletTx(pending[c].changes, todo[c], writes[c], db)
    ELSE ContractTx(pending[c], todo[c], writes[c], db, fresh[c])
TxsInv == \A c \in Clients : phase[c] = "open" => TxInv(c)

Inv == Types /\ CallsInv /\ LocksInv /\ DbInv /\ TxsInv

-----------------------------------------------------------------------------

LEMMA OpsApart ==
    /\ \A op \in ContractOps : /\ op.kind # "write" /\ Abstract!Stored(op) \subseteq Ids
                               /\ Abstract!Stored(op) # {} => Abstract!NewState(op) \in States
    /\ \A op \in WalletOps : /\ op.kind = "write" /\ op.changes \in ChangeSet
                             /\ Abstract!Stored(op) = {} /\ Abstract!Removed(op) = {}
    /\ None \notin ContractOps /\ None \notin WalletOps
<1>1. ASSUME NEW op \in ContractOps
      PROVE  /\ op.kind # "write" /\ Abstract!Stored(op) \subseteq Ids
             /\ Abstract!Stored(op) # {} => Abstract!NewState(op) \in States
    BY CallAssumption DEF Abstract!Stored, Abstract!NewState, States
<1>2. ASSUME NEW op \in WalletOps
      PROVE  /\ op.kind = "write" /\ op.changes \in ChangeSet
             /\ Abstract!Stored(op) = {} /\ Abstract!Removed(op) = {}
    BY CallAssumption DEF Abstract!Stored, Abstract!Removed
<1>. QED  BY <1>1, <1>2, NoneAssumption DEF Ops

LEMMA ViewIsSeen ==
    ASSUME NEW c \in Clients
    PROVE  /\ View(c) = SeenAll(writes[c], db)
           /\ \A r \in Rows : View(c)[r] = Seen(writes[c], db, r)
           /\ \A s : Touched(c, s) = TouchedBy(View(c), s)
BY DEF View, SeenAll, Seen, Touched, TouchedBy, Meta, Data

LEMMA TxRowsAreRows ==
    ASSUME Inv, NEW c \in Clients
    PROVE  /\ DOMAIN writes[c] \subseteq Rows
           /\ c = WalletClient => DOMAIN writes[c] \subseteq WalletRows
           /\ c # WalletClient => \A r \in DOMAIN writes[c] : \E id \in Ids : r \in Both(id)
<1>1. CASE phase[c] # "open"
    BY <1>1 DEF Inv, CallsInv
<1>2. CASE phase[c] = "open" /\ c = WalletClient
    BY <1>2, WalletRowsAreNot DEF Inv, TxsInv, TxInv, WalletTx
<1>3. CASE phase[c] = "open" /\ c # WalletClient
  <2>1. pending[c] \in ContractOps
      BY <1>3 DEF Inv, CallsInv, OpsOf
  <2>2. \A r \in DOMAIN writes[c] : \E id \in Ids : r \in Both(id)
      BY <1>3, <2>1, ContractScope DEF Inv, TxsInv, TxInv
  <2>. QED  BY <1>3, <2>2, ContractRows DEF Both
<1>. QED  BY <1>1, <1>2, <1>3

LEMMA ConnectionsShrink ==
    ASSUME Connections <= MaxConnections,
           \A c \in Clients : phase'[c] = "open" => phase[c] = "open"
    PROVE  Connections' <= MaxConnections
<1> DEFINE S == {c \in Clients : phase[c] = "open"}
           T == {c \in Clients : phase'[c] = "open"}
<1>1. IsFiniteSet(S) /\ T \subseteq S
    BY StoreAssumption, FS_Subset
<1>2. Cardinality(T) <= Cardinality(S) /\ Cardinality(S) \in Nat /\ Cardinality(T) \in Nat
    BY <1>1, FS_Subset, FS_CardinalityType
<1>. QED  BY <1>2, StoreAssumption DEF Connections

(* The end of a call.                                                      *)
LEMMA ReturnKeeps ==
    ASSUME Inv, NEW c \in Clients, NEW answer \in {"ok", "error"}, Return(c, answer),
           UNCHANGED <<backend, calls>>, DbInv',
           tree' \in [Ids -> States \cup {None}], fresh' \in [Clients -> SUBSET Ids],
           DOMAIN copy' = Clients,
           \A d \in Clients \ {c} : /\ copy'[d] = copy[d]
                                    /\ phase[d] = "open" => TxInv(d)',
           changeset' = changeset \/ c = WalletClient,
           (\A r \in WalletRows : db'[r] = db[r]) \/ c = WalletClient
    PROVE  Inv'
<1>1. /\ phase'[c] = "idle" /\ pending'[c] = None /\ DOMAIN writes'[c] = {}
      /\ \A d \in Clients \ {c} : /\ phase'[d] = phase[d] /\ pending'[d] = pending[d]
                                  /\ writes'[d] = writes[d]
    BY DEF Inv, Types, Return, Nothing
<1>2. Types'
  <2>1. Connections' <= MaxConnections
      BY <1>1, ConnectionsShrink DEF Inv, Types
  <2>2. /\ DOMAIN writes' = Clients /\ DOMAIN todo' = Clients
        /\ phase' \in [Clients -> {"idle", "acquire", "open", "got"}]
        /\ pending' \in [Clients -> Ops \cup {None}]
        /\ reply' \in [Clients -> {None, "ok", "error"}]
      BY DEF Inv, Types, Return
  <2>. QED  BY <2>1, <2>2 DEF Inv, Types
<1>3. CallsInv'
  <2> SUFFICES ASSUME NEW d \in Clients
               PROVE  /\ pending'[d] = None <=> phase'[d] = "idle"
                      /\ pending'[d] # None => pending'[d] \in OpsOf(d)
                      /\ phase'[d] = "open" => backend' = "postgres"
                      /\ phase'[d] = "got" =>
                            backend' = "sled" /\ d = WalletClient /\ copy'[d] = changeset'
                      /\ phase'[d] # "open" => DOMAIN writes'[d] = {}
                      /\ phase'[d] = "acquire" /\ d = WalletClient /\ backend' = "postgres" =>
                            Rests(pending'[d].changes, db')
      BY DEF CallsInv
  <2>1. CASE d = c
      BY <2>1, <1>1
  <2>2. CASE d # c
    <3>1. /\ pending[d] = None <=> phase[d] = "idle"
          /\ pending[d] # None => pending[d] \in OpsOf(d)
          /\ phase[d] = "open" => backend = "postgres"
          /\ phase[d] = "got" => backend = "sled" /\ d = WalletClient /\ copy[d] = changeset
          /\ phase[d] # "open" => DOMAIN writes[d] = {}
          /\ phase[d] = "acquire" /\ d = WalletClient /\ backend = "postgres" =>
                Rests(pending[d].changes, db)
        BY DEF Inv, CallsInv
    <3>2. /\ phase'[d] = phase[d] /\ pending'[d] = pending[d] /\ writes'[d] = writes[d]
          /\ copy'[d] = copy[d] /\ backend' = backend
        BY <2>2, <1>1
    <3>3. d = WalletClient => changeset' = changeset /\ \A r \in WalletRows : db'[r] = db[r]
        BY <2>2
    <3>4. d = WalletClient /\ Rests(pending[d].changes, db) => Rests(pending[d].changes, db')
      <4>1. \A k \in Keychains : KeyRow(k) \in WalletRows
          BY DEF WalletRows
      <4>. QED  BY <3>3, <4>1 DEF Rests
    <3>. QED  BY <3>1, <3>2, <3>3, <3>4
  <2>. QED  BY <2>1, <2>2
<1>4. LocksInv'
    BY <1>1 DEF Inv, LocksInv
<1>5. TxsInv'
    BY <1>1 DEF TxsInv
<1>. QED  BY <1>2, <1>3, <1>4, <1>5 DEF Inv

LEMMA InitInv == Init => Inv
<1> SUFFICES ASSUME Init PROVE Inv
    OBVIOUS
<1>1. Types
  <2>1. {c \in Clients : phase[c] = "open"} = {}
      BY DEF Init
  <2>2. Connections = 0
      BY <2>1, FS_EmptySet DEF Connections
  <2>. QED  BY <2>2, StoreAssumption DEF Init, Types
<1>2. CallsInv /\ LocksInv /\ TxsInv
    BY DEF Init, CallsInv, LocksInv, TxsInv, Nothing
<1>3. DbInv
    BY ContractRows, WalletRowsAreNot DEF Init, DbInv, WalletDb, WalletRows
<1>. QED  BY <1>1, <1>2, <1>3 DEF Inv

(* A step of client c that leaves the committed rows and the other clients *)
(* alone.                                                                  *)
LEMMA OthersKeep ==
    ASSUME Inv, NEW c \in Clients, Types', UNCHANGED <<backend, db, changeset>>,
           \A d \in Clients \ {c} :
              /\ phase'[d] = phase[d] /\ pending'[d] = pending[d] /\ writes'[d] = writes[d]
              /\ todo'[d] = todo[d] /\ copy'[d] = copy[d] /\ fresh'[d] = fresh[d],
           pending'[c] = None <=> phase'[c] = "idle",
           pending'[c] # None => pending'[c] \in OpsOf(c),
           phase'[c] = "open" => backend = "postgres",
           phase'[c] = "got" => backend = "sled" /\ c = WalletClient /\ copy'[c] = changeset,
           phase'[c] # "open" => DOMAIN writes'[c] = {},
           phase'[c] = "acquire" /\ c = WalletClient /\ backend = "postgres" =>
              Rests(pending'[c].changes, db),
           \A d \in Clients \ {c} : DOMAIN writes'[c] \cap DOMAIN writes[d] = {},
           phase'[c] = "open" => TxInv(c)'
    PROVE  Inv'
<1>1. CallsInv'
  <2> SUFFICES ASSUME NEW d \in Clients
               PROVE  /\ pending'[d] = None <=> phase'[d] = "idle"
                      /\ pending'[d] # None => pending'[d] \in OpsOf(d)
                      /\ phase'[d] = "open" => backend' = "postgres"
                      /\ phase'[d] = "got" =>
                            backend' = "sled" /\ d = WalletClient /\ copy'[d] = changeset'
                      /\ phase'[d] # "open" => DOMAIN writes'[d] = {}
                      /\ phase'[d] = "acquire" /\ d = WalletClient /\ backend' = "postgres" =>
                            Rests(pending'[d].changes, db')
      BY DEF CallsInv
  <2>. QED  BY DEF Inv, CallsInv
<1>2. LocksInv'
    BY DEF Inv, LocksInv
<1>3. DbInv'
    BY DEF Inv, DbInv
<1>4. TxsInv'
    BY DEF Inv, TxsInv, TxInv
<1>. QED  BY <1>1, <1>2, <1>3, <1>4 DEF Inv

LEMMA BeginKeeps ==
    ASSUME Inv, NEW c \in Clients, NEW op \in OpsOf(c), Begin(c, op)
    PROVE  Inv'
<1>1. /\ \A d \in Clients \ {c} :
            /\ phase'[d] = phase[d] /\ pending'[d] = pending[d] /\ writes'[d] = writes[d]
            /\ todo'[d] = todo[d] /\ copy'[d] = copy[d] /\ fresh'[d] = fresh[d]
      /\ phase'[c] = "acquire" /\ pending'[c] = op /\ writes'[c] = writes[c]
      /\ UNCHANGED <<backend, db, changeset>>
    BY DEF Inv, Types, Begin
<1>2. op # None /\ op \in Ops
    BY OpsApart DEF OpsOf, Ops
<1>3. Types'
  <2>1. Connections' <= MaxConnections
      BY <1>1, ConnectionsShrink DEF Inv, Types
  <2>. QED  BY <2>1, <1>2, StoreAssumption DEF Inv, Types, Begin
<1>4. phase[c] = "idle" /\ DOMAIN writes[c] = {}
    BY DEF Inv, CallsInv, Begin
<1>5. c = WalletClient /\ backend = "postgres" => Rests(op.changes, db)
  <2> SUFFICES ASSUME c = WalletClient, backend = "postgres", NEW k \in Keychains,
                      op.changes.revealed[k] > 0
               PROVE  db[KeyRow(k)] # None \/ k \in op.changes.descriptors
      BY DEF Rests
  <2>1. op.kind = "write"
      BY OpsApart DEF OpsOf
  <2>2. k \in Read.descriptors \cup op.changes.descriptors
      BY <2>1 DEF Begin, Abstract!Describes
  <2>. QED  BY <2>2 DEF Read, KeyRow
<1>6. \A d \in Clients \ {c} : DOMAIN writes'[c] \cap DOMAIN writes[d] = {}
    BY <1>1, <1>4
<1>. QED  BY <1>1, <1>2, <1>3, <1>4, <1>5, <1>6, OthersKeep

LEMMA AcquireKeeps ==
    ASSUME Inv, NEW c \in Clients, Acquire(c)
    PROVE  Inv'
<1>1. /\ \A d \in Clients \ {c} :
            /\ phase'[d] = phase[d] /\ pending'[d] = pending[d] /\ writes'[d] = writes[d]
            /\ todo'[d] = todo[d] /\ copy'[d] = copy[d] /\ fresh'[d] = fresh[d]
      /\ phase'[c] = "open" /\ pending'[c] = pending[c] /\ writes'[c] = writes[c]
      /\ todo'[c] = Statements(pending[c]) /\ fresh'[c] = fresh[c]
      /\ UNCHANGED <<backend, db, changeset>>
    BY DEF Inv, Types, Acquire
<1>2. Types'
  <2> DEFINE S == {d \in Clients : phase[d] = "open"}
             T == {d \in Clients : phase'[d] = "open"}
  <2>1. T = S \cup {c} /\ c \notin S
      BY <1>1 DEF Acquire
  <2>2. IsFiniteSet(S) /\ Cardinality(S) \in Nat
      BY StoreAssumption, FS_Subset, FS_CardinalityType
  <2>3. Cardinality(T) = Cardinality(S) + 1
      BY <2>1, <2>2, FS_AddElement
  <2>4. Cardinality(S) < MaxConnections
      BY DEF Acquire, Connections
  <2>5. Connections' <= MaxConnections
      BY <2>2, <2>3, <2>4, StoreAssumption DEF Connections
  <2>. QED  BY <2>5 DEF Inv, Types, Acquire
<1>3. /\ DOMAIN writes[c] = {} /\ pending[c] # None /\ pending[c] \in OpsOf(c)
      /\ backend = "postgres"
      /\ c = WalletClient => Rests(pending[c].changes, db)
    BY DEF Inv, CallsInv, Acquire
<1>4. TxInv(c)'
  <2>1. CASE c = WalletClient
    <3>1. /\ pending[c].kind = "write" /\ pending[c].changes \in ChangeSet
        BY <2>1, <1>3, OpsApart DEF OpsOf
    <3>2. Statements(pending[c]) = Write(pending[c].changes)
        BY <3>1 DEF Statements
    <3>3. WalletTx(pending[c].changes, Write(pending[c].changes), writes[c], db)
        BY <3>1, <1>3, <2>1, WalletStart DEF Inv, DbInv, Rests
    <3>. QED  BY <1>1, <2>1, <3>2, <3>3 DEF TxInv
  <2>2. CASE c # WalletClient
    <3>1. ContractTx(pending[c], Statements(pending[c]), writes[c], db, fresh[c])
        BY <1>3, <2>2, ContractStart DEF OpsOf
    <3>. QED  BY <1>1, <2>2, <3>1 DEF TxInv
  <2>. QED  BY <2>1, <2>2
<1>5. \A d \in Clients \ {c} : DOMAIN writes'[c] \cap DOMAIN writes[d] = {}
    BY <1>1, <1>3
<1>6. pending'[c] # None /\ phase'[c] # "idle"
    BY <1>1, <1>3
<1>. QED  BY <1>1, <1>2, <1>3, <1>4, <1>5, <1>6, OthersKeep

LEMMA ExecuteKeeps ==
    ASSUME Inv, NEW c \in Clients, Execute(c)
    PROVE  Inv'
<1> DEFINE s == Head(todo[c])
<1>1. /\ \A d \in Clients \ {c} :
            /\ phase'[d] = phase[d] /\ pending'[d] = pending[d] /\ writes'[d] = writes[d]
            /\ todo'[d] = todo[d] /\ copy'[d] = copy[d] /\ fresh'[d] = fresh[d]
      /\ phase'[c] = "open" /\ pending'[c] = pending[c]
      /\ todo'[c] = Tail(todo[c]) /\ fresh'[c] = fresh[c]
      /\ UNCHANGED <<backend, db, changeset>>
    BY DEF Inv, Types, Execute
<1>2. writes'[c] = [r \in Touched(c, s) \cup DOMAIN writes[c] |->
                       IF r \in Touched(c, s) THEN Written(s, View(c)[r]) ELSE writes[c][r]]
    BY DEF Inv, Types, Execute
<1>3. /\ todo[c] # <<>> /\ phase[c] = "open" /\ Blockers(c, s) = {}
      /\ backend = "postgres" /\ pending[c] # None /\ pending[c] \in OpsOf(c)
    BY DEF Execute, Inv, CallsInv
<1>4. writes'[c] = Wrote(writes[c], SeenAll(writes[c], db), s)
    BY <1>2, ViewIsSeen DEF Wrote
<1>5. Types'
  <2>1. Connections' <= MaxConnections
      BY <1>1, <1>3, ConnectionsShrink DEF Inv, Types
  <2>. QED  BY <2>1 DEF Inv, Types, Execute
<1>6. TxInv(c)'
  <2>1. TxInv(c)
      BY <1>3 DEF Inv, TxsInv
  <2>2. CASE c = WalletClient
    <3>1. pending[c].changes \in ChangeSet
        BY <2>2, <1>3, OpsApart DEF OpsOf
    <3>2. WalletTx(pending[c].changes, Tail(todo[c]), writes'[c], db)
        BY <3>1, <1>3, <1>4, <2>1, <2>2, WalletStep DEF TxInv, Inv, DbInv
    <3>. QED  BY <1>1, <2>2, <3>2 DEF TxInv
  <2>3. CASE c # WalletClient
    <3>1. pending[c] \in ContractOps
        BY <2>3, <1>3 DEF OpsOf
    <3>2. ContractTx(pending[c], Tail(todo[c]), writes'[c], db, fresh[c])
        BY <3>1, <1>3, <1>4, <2>1, <2>3, ContractStep DEF TxInv, Inv, DbInv
    <3>. QED  BY <1>1, <2>3, <3>2 DEF TxInv
  <2>. QED  BY <2>2, <2>3
<1>7. \A d \in Clients \ {c} : DOMAIN writes'[c] \cap DOMAIN writes[d] = {}
  <2>1. DOMAIN writes'[c] = Touched(c, s) \cup DOMAIN writes[c]
      BY <1>2
  <2>2. \A d \in Clients \ {c} : Touched(c, s) \cap DOMAIN writes[d] = {}
      BY <1>3 DEF Blockers, Holds
  <2>. QED  BY <2>1, <2>2 DEF Inv, LocksInv
<1>8. pending'[c] # None /\ pending'[c] \in OpsOf(c)
    BY <1>1, <1>3
<1> HIDE DEF s
<1>. QED  BY <1>1, <1>3, <1>5, <1>6, <1>7, <1>8, OthersKeep

(* An error ends a call and nothing else.                                  *)
LEMMA FailKeeps ==
    ASSUME Inv, NEW c \in Clients, Return(c, "error"),
           UNCHANGED <<backend, db, tree, changeset, fresh, calls>>,
           DOMAIN copy' = Clients, \A d \in Clients \ {c} : copy'[d] = copy[d]
    PROVE  Inv'
<1>1. \A d \in Clients \ {c} : phase[d] = "open" => TxInv(d)'
    BY DEF Inv, Types, TxsInv, TxInv, Return
<1>2. DbInv'
    BY DEF Inv, DbInv
<1>3. tree' \in [Ids -> States \cup {None}] /\ fresh' \in [Clients -> SUBSET Ids]
    BY DEF Inv, Types
<1>. QED  BY <1>1, <1>2, <1>3, ReturnKeeps

(* A call tells the others of the records it stores.                       *)
LEMMA FreshGrows ==
    ASSUME Inv, NEW c \in Clients, pending[c] # None, fresh' = Abstract!FreshAfter(c)
    PROVE  /\ fresh' \in [Clients -> SUBSET Ids]
           /\ \A d \in Clients \ {c} : fresh'[d] = fresh[d] \cup Abstract!Stored(pending[c])
           /\ fresh'[c] = fresh[c]
<1>1. pending[c] \in OpsOf(c)
    BY DEF Inv, CallsInv
<1>2. Abstract!Stored(pending[c]) \subseteq Ids
    BY <1>1, OpsApart DEF OpsOf
<1>. QED  BY <1>2 DEF Inv, Types, Abstract!FreshAfter

LEMMA WalletCommit ==
    ASSUME Inv, NEW c \in Clients, c = WalletClient, phase[c] = "open", todo[c] = <<>>, db' = View(c)
    PROVE  /\ pending[c] \in WalletOps
           /\ \A r \in Rows \ WalletRows : db'[r] = db[r]
           /\ WalletDb(db') /\ ReadOf(db') = Abstract!MergeChangeSet(ReadOf(db), pending[c].changes)
<1>1. pending[c] \in WalletOps
    BY DEF Inv, CallsInv, OpsOf
<1>2. pending[c].changes \in ChangeSet
    BY <1>1, OpsApart
<1>3. \A r \in Rows : db'[r] = Seen(writes[c], db, r)
    BY ViewIsSeen
<1>4. WalletTx(pending[c].changes, <<>>, writes[c], db) /\ WalletDb(db)
    BY DEF Inv, TxsInv, TxInv, DbInv
<1>5. WalletDb(db') /\ ReadOf(db') = Abstract!MergeChangeSet(ReadOf(db), pending[c].changes)
    BY <1>2, <1>3, <1>4, WalletDone
<1>6. DOMAIN writes[c] \subseteq WalletRows
    BY TxRowsAreRows
<1>. QED  BY <1>1, <1>3, <1>5, <1>6 DEF Seen

LEMMA ContractCommit ==
    ASSUME Inv, NEW c \in Clients, c # WalletClient, phase[c] = "open", todo[c] = <<>>, db' = View(c)
    PROVE  /\ pending[c] \in ContractOps
           /\ \A r \in Rows \ DOMAIN writes[c] : db'[r] = db[r]
           /\ \A r \in WalletRows : db'[r] = db[r]
           /\ \A id \in Ids :
                 /\ db'[Meta(id)] = db'[Data(id)]
                 /\ id \in Abstract!Stored(pending[c]) =>
                       db'[Data(id)] = Abstract!NewState(pending[c])
                 /\ id \notin Abstract!Stored(pending[c]) \cup Abstract!Removed(pending[c]) =>
                       db'[Data(id)] = db[Data(id)]
                 /\ id \in Abstract!Removed(pending[c]) =>
                       \/ db'[Data(id)] = None
                       \/ id \in fresh[c] /\ db'[Data(id)] = db[Data(id)]
<1>1. pending[c] \in ContractOps
    BY DEF Inv, CallsInv, OpsOf
<1>2. \A r \in Rows : db'[r] = Seen(writes[c], db, r)
    BY ViewIsSeen
<1>3. ContractTx(pending[c], <<>>, writes[c], db, fresh[c])
    BY DEF Inv, TxsInv, TxInv
<1>4. \A id \in Ids : db[Meta(id)] = db[Data(id)]
    BY DEF Inv, DbInv
<1>5. \A r \in WalletRows : r \in Rows /\ r \notin DOMAIN writes[c]
    BY TxRowsAreRows, WalletRowsAreNot DEF Both
<1>6. \A r \in Rows \ DOMAIN writes[c] : db'[r] = db[r]
    BY <1>2 DEF Seen
<1>7. ASSUME NEW id \in Ids
      PROVE  /\ db'[Meta(id)] = db'[Data(id)]
             /\ id \in Abstract!Stored(pending[c]) =>
                   db'[Data(id)] = Abstract!NewState(pending[c])
             /\ id \notin Abstract!Stored(pending[c]) \cup Abstract!Removed(pending[c]) =>
                   db'[Data(id)] = db[Data(id)]
             /\ id \in Abstract!Removed(pending[c]) =>
                   \/ db'[Data(id)] = None
                   \/ id \in fresh[c] /\ db'[Data(id)] = db[Data(id)]
  <2>1. db'[Meta(id)] = Seen(writes[c], db, Meta(id)) /\ db'[Data(id)] = Seen(writes[c], db, Data(id))
      BY <1>2, ContractRows
  <2>. QED  BY <1>1, <1>3, <1>4, <2>1, ContractDone
<1>. QED  BY <1>1, <1>5, <1>6, <1>7

LEMMA CommitKeeps ==
    ASSUME Inv, NEW c \in Clients, NEW answer \in {"ok", "error"}, Commit(c, answer)
    PROVE  Inv'
<1>1. /\ phase[c] = "open" /\ todo[c] = <<>> /\ db' = View(c) /\ fresh' = Abstract!FreshAfter(c)
      /\ Return(c, answer) /\ UNCHANGED <<backend, tree, changeset, copy, calls>>
    BY DEF Commit
<1>2. pending[c] # None
    BY <1>1 DEF Inv, CallsInv
<1>3. /\ fresh' \in [Clients -> SUBSET Ids]
      /\ \A d \in Clients \ {c} : fresh'[d] = fresh[d] \cup Abstract!Stored(pending[c])
    BY <1>1, <1>2, FreshGrows
<1>4. \A d \in Clients \ {c} : /\ pending'[d] = pending[d] /\ todo'[d] = todo[d]
                               /\ writes'[d] = writes[d]
    BY <1>1 DEF Inv, Types, Return
<1>5. CASE c = WalletClient
  <2>1. /\ pending[c] \in WalletOps /\ \A r \in Rows \ WalletRows : db'[r] = db[r]
        /\ WalletDb(db')
      BY <1>1, <1>5, WalletCommit
  <2>2. \A id \in Ids : db'[Meta(id)] = db[Meta(id)] /\ db'[Data(id)] = db[Data(id)]
      BY <2>1, ContractRows, WalletRowsAreNot
  <2>3. DbInv'
      BY <2>1, <2>2 DEF Inv, DbInv
  <2>4. ASSUME NEW d \in Clients \ {c}, phase[d] = "open"
        PROVE  TxInv(d)'
    <3>1. pending[d] \in ContractOps /\ ContractTx(pending[d], todo[d], writes[d], db, fresh[d])
        BY <1>5, <2>4 DEF Inv, CallsInv, TxsInv, TxInv, OpsOf
    <3>2. \A r \in DOMAIN writes[d] : db'[r] = db[r]
        BY <1>5, <2>2, TxRowsAreRows DEF Both
    <3>3. ContractTx(pending[d], todo[d], writes[d], db', fresh'[d])
        BY <3>1, <3>2, <2>2, <1>3, ContractFrame
    <3>. QED  BY <1>4, <1>5, <3>3 DEF TxInv
  <2>5. tree' \in [Ids -> States \cup {None}] /\ DOMAIN copy' = Clients
      BY <1>1 DEF Inv, Types
  <2>. QED  BY <1>1, <1>3, <1>5, <2>3, <2>4, <2>5, ReturnKeeps
<1>6. CASE c # WalletClient
  <2>1. /\ pending[c] \in ContractOps
        /\ \A r \in Rows \ DOMAIN writes[c] : db'[r] = db[r]
        /\ \A r \in WalletRows : db'[r] = db[r]
        /\ \A id \in Ids :
              /\ db'[Meta(id)] = db'[Data(id)]
              /\ id \in Abstract!Stored(pending[c]) =>
                    db'[Data(id)] = Abstract!NewState(pending[c])
              /\ id \notin Abstract!Stored(pending[c]) \cup Abstract!Removed(pending[c]) =>
                    db'[Data(id)] = db[Data(id)]
              /\ id \in Abstract!Removed(pending[c]) =>
                    \/ db'[Data(id)] = None
                    \/ id \in fresh[c] /\ db'[Data(id)] = db[Data(id)]
      BY <1>1, <1>6, ContractCommit
  <2>2. DbInv'
    <3>1. WalletDb(db')
      <4>1. /\ \A k \in Keychains : KeyRow(k) \in WalletRows
            /\ \A h \in Heights : BlockRow(h) \in WalletRows
            /\ \A t \in Txs : TxRowOf(t) \in WalletRows
          BY DEF WalletRows
      <4>. QED  BY <2>1, <4>1 DEF Inv, DbInv, WalletDb
    <3>2. \A id \in Ids : db'[Data(id)] \in States \cup {None}
        BY <2>1, OpsApart DEF Inv, DbInv
    <3>. QED  BY <2>1, <3>1, <3>2 DEF DbInv
  <2>3. ASSUME NEW d \in Clients \ {c}, phase[d] = "open"
        PROVE  TxInv(d)'
    <3>1. CASE d = WalletClient
      <4>1. WalletTx(pending[d].changes, todo[d], writes[d], db)
          BY <2>3, <3>1 DEF Inv, TxsInv, TxInv
      <4>2. WalletTx(pending[d].changes, todo[d], writes[d], db')
          BY <4>1, <2>1, WalletFrame
      <4>. QED  BY <1>4, <3>1, <4>2 DEF TxInv
    <3>2. CASE d # WalletClient
      <4>1. pending[d] \in ContractOps /\ ContractTx(pending[d], todo[d], writes[d], db, fresh[d])
          BY <3>2, <2>3 DEF Inv, CallsInv, TxsInv, TxInv, OpsOf
      <4>2. \A r \in DOMAIN writes[d] : db'[r] = db[r]
          BY <2>1, TxRowsAreRows DEF Inv, LocksInv
      <4>3. \A id \in Ids : db'[Data(id)] # None /\ db[Data(id)] = None => id \in fresh'[d]
          BY <1>3, <2>1
      <4>4. ContractTx(pending[d], todo[d], writes[d], db', fresh'[d])
          BY <4>1, <4>2, <4>3, <1>3, ContractFrame
      <4>. QED  BY <1>4, <3>2, <4>4 DEF TxInv
    <3>. QED  BY <3>1, <3>2
  <2>4. tree' \in [Ids -> States \cup {None}] /\ DOMAIN copy' = Clients
      BY <1>1 DEF Inv, Types
  <2>. QED  BY <1>1, <1>3, <2>1, <2>2, <2>3, <2>4, ReturnKeeps
<1>. QED  BY <1>5, <1>6

LEMMA SledContractsKeeps ==
    ASSUME Inv, NEW c \in Clients, SledContracts(c)
    PROVE  Inv'
<1>1. /\ backend = "sled" /\ phase[c] = "acquire" /\ pending[c].kind # "write"
      /\ tree' = Abstract!ContractsAfter(pending[c], {}) /\ fresh' = Abstract!FreshAfter(c)
      /\ Return(c, "ok") /\ UNCHANGED <<backend, db, changeset, copy, calls>>
    BY DEF SledContracts
<1>2. pending[c] # None /\ pending[c] \in ContractOps
    BY <1>1, OpsApart DEF Inv, CallsInv, OpsOf
<1>3. tree' \in [Ids -> States \cup {None}]
    BY <1>1, <1>2, OpsApart DEF Abstract!ContractsAfter, Inv, Types
<1>4. fresh' \in [Clients -> SUBSET Ids]
    BY <1>1, <1>2, FreshGrows
<1>5. DbInv' /\ DOMAIN copy' = Clients
    BY <1>1 DEF Inv, DbInv, Types
<1>6. \A d \in Clients \ {c} : phase[d] # "open" /\ copy'[d] = copy[d]
    BY <1>1 DEF Inv, CallsInv
<1>. QED  BY <1>1, <1>3, <1>4, <1>5, <1>6, ReturnKeeps

LEMMA SledGetKeeps ==
    ASSUME Inv, NEW c \in Clients, SledPersistGet(c)
    PROVE  Inv'
<1>1. /\ \A d \in Clients \ {c} :
            /\ phase'[d] = phase[d] /\ pending'[d] = pending[d] /\ writes'[d] = writes[d]
            /\ todo'[d] = todo[d] /\ copy'[d] = copy[d] /\ fresh'[d] = fresh[d]
      /\ phase'[c] = "got" /\ pending'[c] = pending[c] /\ writes'[c] = writes[c]
      /\ copy'[c] = changeset /\ UNCHANGED <<backend, db, changeset>>
    BY DEF Inv, Types, SledPersistGet
<1>2. /\ backend = "sled" /\ phase[c] = "acquire" /\ pending[c].kind = "write"
    BY DEF SledPersistGet
<1>3. /\ pending[c] # None /\ pending[c] \in OpsOf(c) /\ DOMAIN writes[c] = {}
    BY <1>2 DEF Inv, CallsInv
<1>4. c = WalletClient
    BY <1>2, <1>3, OpsApart DEF OpsOf
<1>5. Types'
  <2>1. Connections' <= MaxConnections
      BY <1>1, ConnectionsShrink DEF Inv, Types
  <2>. QED  BY <2>1 DEF Inv, Types, SledPersistGet
<1>6. \A d \in Clients \ {c} : DOMAIN writes'[c] \cap DOMAIN writes[d] = {}
    BY <1>1, <1>3
<1>7. pending'[c] # None /\ pending'[c] \in OpsOf(c) /\ DOMAIN writes'[c] = {} /\ phase'[c] # "idle"
    BY <1>1, <1>3
<1>. QED  BY <1>1, <1>2, <1>4, <1>5, <1>6, <1>7, OthersKeep

LEMMA SledInsertKeeps ==
    ASSUME Inv, NEW c \in Clients, SledPersistInsert(c)
    PROVE  Inv'
<1>1. /\ phase[c] = "got" /\ Return(c, "ok") /\ copy' = [copy EXCEPT ![c] = None]
      /\ UNCHANGED <<backend, db, tree, fresh, calls>>
    BY DEF SledPersistInsert
<1>2. backend = "sled" /\ c = WalletClient
    BY <1>1 DEF Inv, CallsInv
<1>3. DbInv' /\ DOMAIN copy' = Clients /\ \A d \in Clients \ {c} : copy'[d] = copy[d]
    BY <1>1 DEF Inv, DbInv, Types
<1>4. tree' \in [Ids -> States \cup {None}] /\ fresh' \in [Clients -> SUBSET Ids]
    BY <1>1 DEF Inv, Types
<1>5. \A d \in Clients \ {c} : phase[d] # "open"
    BY <1>2 DEF Inv, CallsInv
<1>. QED  BY <1>1, <1>2, <1>3, <1>4, <1>5, ReturnKeeps

LEMMA RestartKeeps ==
    ASSUME Inv, Restart
    PROVE  Inv'
<1>1. \A c \in Clients : /\ phase'[c] = "idle" /\ pending'[c] = None /\ DOMAIN writes'[c] = {}
    BY DEF Restart, Nothing
<1>2. Types'
  <2>1. Connections' <= MaxConnections
      BY <1>1, ConnectionsShrink DEF Inv, Types
  <2>. QED  BY <2>1 DEF Inv, Types, Restart
<1>3. CallsInv' /\ LocksInv' /\ TxsInv'
    BY <1>1 DEF CallsInv, LocksInv, TxsInv
<1>4. DbInv'
    BY DEF Inv, DbInv, Restart
<1>. QED  BY <1>2, <1>3, <1>4 DEF Inv

(* The early return of an error, whatever it is.                           *)
LEMMA ErrorKeeps ==
    ASSUME Inv, NEW c \in Clients, Fail(c) \/ SledFails(c)
    PROVE  Inv'
<1>1. /\ Return(c, "error") /\ UNCHANGED <<backend, db, tree, changeset, fresh, calls>>
      /\ DOMAIN copy' = Clients /\ \A d \in Clients \ {c} : copy'[d] = copy[d]
    BY DEF Fail, SledFails, Inv, Types
<1>. QED  BY <1>1, FailKeeps

LEMMA NextInv ==
    ASSUME Inv, [Next]_vars
    PROVE  Inv'
<1>1. ASSUME NEW c \in Clients, NEW op \in OpsOf(c), Begin(c, op)
      PROVE  Inv'
    BY <1>1, BeginKeeps
<1>2. ASSUME NEW c \in Clients, Proceed(c)
      PROVE  Inv'
  <2>1. CASE Acquire(c)
      BY <2>1, AcquireKeeps
  <2>2. CASE Execute(c)
      BY <2>2, ExecuteKeeps
  <2>3. CASE StatementFails(c) \/ DeadlockDetected(c)
      BY <2>3, ErrorKeeps DEF StatementFails, DeadlockDetected
  <2>4. CASE Commit(c, "ok")
      BY <2>4, CommitKeeps
  <2>5. CASE SledContracts(c) \/ SledPersistGet(c) \/ SledPersistInsert(c)
      BY <2>5, SledContractsKeeps, SledGetKeeps, SledInsertKeeps
  <2>. QED  BY <1>2, <2>1, <2>2, <2>3, <2>4, <2>5 DEF Proceed
<1>3. ASSUME NEW c \in Clients,
             Commit(c, "error") \/ AcquireTimeout(c) \/ ConnectionLost(c) \/ SledFails(c)
      PROVE  Inv'
    BY <1>3, CommitKeeps, ErrorKeeps DEF AcquireTimeout, ConnectionLost
<1>4. CASE Restart
    BY <1>4, RestartKeeps
<1>5. CASE UNCHANGED vars
    BY <1>5 DEF vars, Inv, Types, CallsInv, LocksInv, DbInv, TxsInv, TxInv, Connections
<1>. QED  BY <1>1, <1>2, <1>3, <1>4, <1>5 DEF Next, OpsOf

LEMMA Invariant == Spec => []Inv
<1>1. Init => Inv
    BY InitInv
<1>2. Inv /\ [Next]_vars => Inv'
    BY NextInv
<1>. QED  BY <1>1, <1>2, PTL DEF Spec

(* The halves of every contract agree, and the tables, the transactions    *)
(* and the pool hold what they can, for any clients, calls and pool.       *)
THEOREM HalvesAlwaysAgree == Spec => []StoreInv
<1>1. Inv => StoreInv
  <2> SUFFICES ASSUME Inv PROVE StoreInv
      OBVIOUS
  <2>1. \A id \in Ids : db[Meta(id)] = db[Data(id)] /\ db[Data(id)] \in States \cup {None}
      BY DEF Inv, DbInv
  <2>2. TypeOK
    <3>1. ASSUME NEW r \in Rows, r[1] \in {"metadata", "data"}
          PROVE  \E id \in Ids : r \in Both(id)
        BY <3>1 DEF Rows, Row, Both, Meta, Data
    <3>2. \A r \in Rows : r[1] \in {"metadata", "data"} => db[r] \in {None} \cup States
        BY <2>1, <3>1 DEF Both
    <3>3. ASSUME NEW c \in Clients
          PROVE  /\ DOMAIN writes[c] \subseteq Rows
                 /\ phase[c] \in {"idle", "acquire", "open", "got"}
                 /\ (pending[c] = None) = (phase[c] = "idle")
                 /\ reply[c] \in {None, "ok", "error"}
        BY TxRowsAreRows DEF Inv, Types, CallsInv
    <3>. QED  BY <3>2, <3>3 DEF TypeOK, Inv, Types
  <2>3. HalvesAgree
    <3>1. \A state \in States : GetContractMetadata({state}) = GetContractsInState(state)
        BY <2>1 DEF GetContractMetadata, GetContractsInState, Meta, Data
    <3>2. GetContractOffers = GetContractsInState("Offered") \ OwnOffers
        BY <2>1, NoneAssumption DEF GetContractOffers, GetContractMetadata, GetContractsInState,
           Meta, Data, States
    <3>. QED  BY <3>1, <3>2 DEF HalvesAgree
  <2>. QED  BY <2>2, <2>3 DEF StoreInv
<1>. QED  BY <1>1, Invariant, PTL

-----------------------------------------------------------------------------
(* PostgresStore implements Store.                                         *)

Contracts == IF backend = "sled" THEN tree ELSE [id \in Ids |-> db[Data(id)]]
WalletState == IF backend = "sled" THEN changeset ELSE ReadOf(db)

(* The wallet that is read back is that of the committed rows.             *)
LEMMA ReadIs == Read = ReadOf(db) /\ Read' = ReadOf(db')
<1>1. \A t : /\ RowTx(t) = TxOf(db[TxRowOf(t)])
             /\ RowTx(t)' = TxOf(db'[TxRowOf(t)])
    BY DEF RowTx, TxOf, TxRow, TxRowOf
<1>2. Read = ReadOf(db)
    BY <1>1 DEF Read, ReadOf, Base, KeyRow, SpkRow, BlockRow, AnchorRow
<1>3. Read' = ReadOf(db')
    BY <1>1 DEF Read, ReadOf, Base, KeyRow, SpkRow, BlockRow, AnchorRow
<1>. QED  BY <1>2, <1>3

LEMMA InitRefines == Init => Abstract!Init
<1> SUFFICES ASSUME Init PROVE Abstract!Init
    OBVIOUS
<1>1. \A r \in Rows : db[r] = None
    BY DEF Init
<1>2. /\ \A k \in Keychains : KeyRow(k) \in Rows /\ SpkRow(k) \in Rows
      /\ \A h \in Heights : BlockRow(h) \in Rows
      /\ \A t \in Txs : TxRowOf(t) \in Rows
      /\ \A a \in Txs \X Hashes : AnchorRow(a) \in Rows
      /\ \A id \in Ids : Data(id) \in Rows
    BY WalletRowsAreNot, ContractRows DEF WalletRows
<1>3. /\ {k \in Keychains : db[KeyRow(k)] # None} = {}
      /\ {k \in Keychains : db[SpkRow(k)] # None} = {}
      /\ {a \in Txs \X Hashes : db[AnchorRow(a)] # None} = {}
      /\ {t \in Txs : TxOf(db[TxRowOf(t)]).whole_tx} = {}
    BY <1>1, <1>2 DEF TxOf, TxRow
<1>4. /\ \A k \in Keychains : Base(db[KeyRow(k)]) = 0
      /\ \A h \in Heights : db[BlockRow(h)] = None
      /\ \A t \in Txs : /\ TxOf(db[TxRowOf(t)]).last_seen = 0
                        /\ TxOf(db[TxRowOf(t)]).first_seen = 0
                        /\ TxOf(db[TxRowOf(t)]).last_evicted = 0
    BY <1>1, <1>2 DEF TxOf, TxRow, Base
<1>5. ReadOf(db) = Abstract!EmptyChangeSet
    BY <1>3, <1>4 DEF ReadOf, Abstract!EmptyChangeSet
<1>6. [id \in Ids |-> db[Row("data", id)]] = [id \in Ids |-> None]
    BY <1>1, <1>2 DEF Data
<1>. QED  BY <1>5, <1>6, ReadIs DEF Init, Abstract!Init

(* A step that leaves the committed rows and the trees alone stores nothing. *)
LEMMA Stores ==
    ASSUME UNCHANGED <<backend, db, tree, changeset>>
    PROVE  /\ (IF backend = "sled" THEN tree ELSE [id \in Ids |-> db[Row("data", id)]])'
                 = IF backend = "sled" THEN tree ELSE [id \in Ids |-> db[Row("data", id)]]
           /\ (IF backend = "sled" THEN changeset ELSE Read)'
                 = IF backend = "sled" THEN changeset ELSE Read
BY ReadIs

LEMMA BeginRefines ==
    ASSUME NEW c \in Clients, NEW op \in OpsOf(c), Begin(c, op)
    PROVE  Abstract!Next
<1>1. op \in Ops
    BY DEF OpsOf, Ops
<1>2. UNCHANGED <<backend, db, tree, changeset>>
    BY DEF Begin
<1>3. Abstract!Call(c, op)
    BY <1>2, Stores DEF Begin, Abstract!Call
<1>. QED  BY <1>1, <1>3 DEF Abstract!Next

(* The steps inside of a call.                                             *)
LEMMA InnerRefines ==
    ASSUME NEW c \in Clients, Acquire(c) \/ Execute(c) \/ SledPersistGet(c)
    PROVE  UNCHANGED Abstract!vars
<1>1. UNCHANGED <<backend, db, tree, changeset, pending, reply, fresh>>
    BY DEF Acquire, Execute, SledPersistGet
<1>. QED  BY <1>1, Stores DEF Abstract!vars

LEMMA ErrorRefines ==
    ASSUME Inv, NEW c \in Clients, phase[c] # "idle", Return(c, "error"),
           UNCHANGED <<backend, db, tree, changeset, fresh>>
    PROVE  Abstract!Next
<1>1. pending[c] # None
    BY DEF Inv, CallsInv
<1>2. Abstract!Refuse(c)
    BY <1>1, Stores DEF Return, Abstract!Refuse
<1>. QED  BY <1>2 DEF Abstract!Next

LEMMA CommitRefines ==
    ASSUME Inv, NEW c \in Clients, NEW answer \in {"ok", "error"}, Commit(c, answer)
    PROVE  Abstract!Next
<1>1. /\ phase[c] = "open" /\ todo[c] = <<>> /\ db' = View(c) /\ fresh' = Abstract!FreshAfter(c)
      /\ Return(c, answer) /\ UNCHANGED <<backend, tree, changeset, copy, calls>>
    BY DEF Commit
<1>2. pending[c] # None /\ backend = "postgres" /\ backend' = "postgres"
    BY <1>1 DEF Inv, CallsInv
<1> SUFFICES /\ \E missed \in SUBSET (Abstract!Removed(pending[c]) \cap fresh[c]) :
                   [id \in Ids |-> db'[Row("data", id)]]
                      = [id \in Ids |->
                           IF id \in Abstract!Stored(pending[c]) THEN Abstract!NewState(pending[c])
                           ELSE IF id \in Abstract!Removed(pending[c]) \ missed THEN None
                           ELSE db[Row("data", id)]]
             /\ ReadOf(db') = IF pending[c].kind = "write"
                              THEN Abstract!MergeChangeSet(ReadOf(db), pending[c].changes)
                              ELSE ReadOf(db)
  <2>1. Abstract!TakeEffect(c, answer)
      BY <1>1, <1>2, ReadIs
         DEF Abstract!TakeEffect, Abstract!ContractsAfter, Abstract!WalletAfter, Return
  <2>. QED  BY <2>1 DEF Abstract!Next
<1>3. CASE c = WalletClient
  <2>1. /\ pending[c] \in WalletOps /\ \A r \in Rows \ WalletRows : db'[r] = db[r]
        /\ ReadOf(db') = Abstract!MergeChangeSet(ReadOf(db), pending[c].changes)
      BY <1>1, <1>3, WalletCommit
  <2>2. /\ pending[c].kind = "write" /\ Abstract!Stored(pending[c]) = {}
        /\ Abstract!Removed(pending[c]) = {}
      BY <2>1, OpsApart
  <2>3. \A id \in Ids : db'[Row("data", id)] = db[Row("data", id)]
      BY <2>1, ContractRows, WalletRowsAreNot DEF Data
  <2>. QED  BY <2>1, <2>2, <2>3
<1>4. CASE c # WalletClient
  <2>1. /\ pending[c] \in ContractOps
        /\ \A r \in WalletRows : db'[r] = db[r]
        /\ \A id \in Ids :
              /\ id \in Abstract!Stored(pending[c]) =>
                    db'[Data(id)] = Abstract!NewState(pending[c])
              /\ id \notin Abstract!Stored(pending[c]) \cup Abstract!Removed(pending[c]) =>
                    db'[Data(id)] = db[Data(id)]
              /\ id \in Abstract!Removed(pending[c]) =>
                    \/ db'[Data(id)] = None
                    \/ id \in fresh[c] /\ db'[Data(id)] = db[Data(id)]
      BY <1>1, <1>4, ContractCommit
  <2>2. pending[c].kind # "write"
      BY <2>1, OpsApart
  <2>3. ReadOf(db') = ReadOf(db)
    <3>1. /\ \A k \in Keychains : KeyRow(k) \in WalletRows /\ SpkRow(k) \in WalletRows
          /\ \A h \in Heights : BlockRow(h) \in WalletRows
          /\ \A t \in Txs : TxRowOf(t) \in WalletRows
          /\ \A a \in Txs \X Hashes : AnchorRow(a) \in WalletRows
        BY DEF WalletRows
    <3>2. /\ \A k \in Keychains : db'[KeyRow(k)] = db[KeyRow(k)] /\ db'[SpkRow(k)] = db[SpkRow(k)]
          /\ \A h \in Heights : db'[BlockRow(h)] = db[BlockRow(h)]
          /\ \A t \in Txs : db'[TxRowOf(t)] = db[TxRowOf(t)]
          /\ \A a \in Txs \X Hashes : db'[AnchorRow(a)] = db[AnchorRow(a)]
        BY <2>1, <3>1
    <3>. QED  BY <3>2 DEF ReadOf
  <2>4. PICK missed : missed = {id \in Abstract!Removed(pending[c]) :
                                   id \in Ids /\ id \in fresh[c] /\ db'[Data(id)] # None}
      OBVIOUS
  <2>5. missed \in SUBSET (Abstract!Removed(pending[c]) \cap fresh[c])
      BY <2>4
  <2>6. ASSUME NEW id \in Ids
        PROVE  db'[Row("data", id)] = IF id \in Abstract!Stored(pending[c]) THEN Abstract!NewState(pending[c])
                                ELSE IF id \in Abstract!Removed(pending[c]) \ missed THEN None
                                ELSE db[Row("data", id)]
      BY <2>1, <2>4 DEF Data
  <2>. QED  BY <2>2, <2>3, <2>5, <2>6
<1>. QED  BY <1>3, <1>4

LEMMA SledRefines ==
    ASSUME Inv, NEW c \in Clients, SledContracts(c) \/ SledPersistInsert(c)
    PROVE  Abstract!Next
<1>1. CASE SledContracts(c)
  <2>1. /\ backend = "sled" /\ pending[c].kind # "write" /\ phase[c] = "acquire"
        /\ tree' = Abstract!ContractsAfter(pending[c], {}) /\ fresh' = Abstract!FreshAfter(c)
        /\ Return(c, "ok") /\ UNCHANGED <<backend, changeset>>
      BY <1>1 DEF SledContracts
  <2>2. pending[c] # None
      BY <2>1 DEF Inv, CallsInv
  <2>3. Abstract!TakeEffect(c, "ok")
      BY <2>1, <2>2 DEF Abstract!TakeEffect, Abstract!WalletAfter, Return
  <2>. QED  BY <2>3 DEF Abstract!Next
<1>2. CASE SledPersistInsert(c)
  <2>1. /\ phase[c] = "got" /\ Return(c, "ok") /\ UNCHANGED <<backend, tree, fresh>>
        /\ changeset' = Abstract!MergeChangeSet(copy[c], pending[c].changes)
      BY <1>2 DEF SledPersistInsert
  <2>2. /\ backend = "sled" /\ c = WalletClient /\ copy[c] = changeset
        /\ pending[c] # None /\ pending[c] \in WalletOps
      BY <2>1 DEF Inv, CallsInv, OpsOf
  <2>3. /\ pending[c].kind = "write" /\ Abstract!Stored(pending[c]) = {}
        /\ Abstract!Removed(pending[c]) = {}
      BY <2>2, OpsApart
  <2>4. tree = Abstract!ContractsAfter(pending[c], {})
      BY <2>2, <2>3 DEF Abstract!ContractsAfter, Inv, Types
  <2>5. fresh = Abstract!FreshAfter(c)
      BY <2>3 DEF Abstract!FreshAfter, Inv, Types
  <2>6. Abstract!TakeEffect(c, "ok")
      BY <2>1, <2>2, <2>3, <2>4, <2>5 DEF Abstract!TakeEffect, Abstract!WalletAfter, Return
  <2>. QED  BY <2>6 DEF Abstract!Next
<1>. QED  BY <1>1, <1>2

LEMMA NextRefines ==
    ASSUME Inv, [Next]_vars
    PROVE  [Abstract!Next]_Abstract!vars
<1>1. ASSUME NEW c \in Clients, NEW op \in OpsOf(c), Begin(c, op)
      PROVE  Abstract!Next
    BY <1>1, BeginRefines
<1>2. ASSUME NEW c \in Clients, Fail(c), phase[c] # "idle"
      PROVE  Abstract!Next
    BY <1>2, ErrorRefines DEF Fail
<1>3. ASSUME NEW c \in Clients, Proceed(c)
      PROVE  [Abstract!Next]_Abstract!vars
  <2>1. CASE Acquire(c) \/ Execute(c) \/ SledPersistGet(c)
      BY <2>1, InnerRefines
  <2>2. CASE StatementFails(c)
      BY <2>2, <1>2 DEF StatementFails
  <2>3. CASE DeadlockDetected(c)
      BY <2>3, <1>2 DEF DeadlockDetected, WaitsFor
  <2>4. CASE Commit(c, "ok")
      BY <2>4, CommitRefines
  <2>5. CASE SledContracts(c) \/ SledPersistInsert(c)
      BY <2>5, SledRefines
  <2>. QED  BY <1>3, <2>1, <2>2, <2>3, <2>4, <2>5 DEF Proceed
<1>4. ASSUME NEW c \in Clients,
             Commit(c, "error") \/ AcquireTimeout(c) \/ ConnectionLost(c) \/ SledFails(c)
      PROVE  Abstract!Next
  <2>1. CASE Commit(c, "error")
      BY <2>1, CommitRefines
  <2>2. CASE AcquireTimeout(c) \/ ConnectionLost(c)
      BY <2>2, <1>2 DEF AcquireTimeout, ConnectionLost
  <2>3. CASE SledFails(c)
      BY <2>3, ErrorRefines DEF SledFails
  <2>. QED  BY <1>4, <2>1, <2>2, <2>3
<1>5. CASE Restart
  <2>1. UNCHANGED <<backend, db, tree, changeset, fresh>>
      BY <1>5 DEF Restart
  <2>2. Abstract!Restart
      BY <1>5, <2>1, Stores DEF Restart, Abstract!Restart
  <2>. QED  BY <2>2 DEF Abstract!Next
<1>6. CASE UNCHANGED vars
  <2>1. UNCHANGED <<backend, db, tree, changeset, pending, reply, fresh>>
      BY <1>6 DEF vars
  <2>. QED  BY <2>1, Stores DEF Abstract!vars
<1>. QED  BY <1>1, <1>3, <1>4, <1>5, <1>6 DEF Next, OpsOf

(* Whatever the interleaving of statements, locks, aborts, lost answers    *)
(* and restarts, the calls of both back ends are atomic.                   *)
THEOREM CallsAreAtomic == Spec => StoreIsAtomic
<1>1. Init => Abstract!Init
    BY InitRefines
<1>2. Inv /\ [Next]_vars => [Abstract!Next]_Abstract!vars
    BY NextRefines
<1>. QED  BY <1>1, <1>2, Invariant, PTL DEF Spec, StoreIsAtomic, Abstract!Spec
=============================================================================
