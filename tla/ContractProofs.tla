--------------------------- MODULE ContractProofs ---------------------------
(***************************************************************************)
(* Proofs about a contract: how it is agreed on, for any set of contract   *)
(* ids, and what its transactions pay, for any terms and amounts.          *)
(*                                                                         *)
(* Of Negotiation, FundedIsSignedByBoth rests on two orderings of the      *)
(* code: a SignDlc message exists only after the offering party stored     *)
(* Signed, and the funding transaction is sent only after the accepting    *)
(* party did.  OffersCoinsOnce rests on the temporary record: signing      *)
(* consumes it, and only the one call of send_offer ever writes it.        *)
(*                                                                         *)
(* Of DlcTransactions, the rate and the amounts rest on what the funding   *)
(* output holds besides the collateral, and the punishment on the place of *)
(* the cheater's output: AmountsInv says that all that is held, revoked or *)
(* published was built by the construction from the terms and the shares.  *)
(* Its sums are folds, taken in an order that the definition leaves open:  *)
(* the first sections prove that the order does not matter, that the       *)
(* ordering by serial ids rearranges, and what discarding the dust leaves. *)
(***************************************************************************)
EXTENDS Negotiation, DlcTransactions, FiniteSetTheorems, WellFoundedInduction, TLAPS

-----------------------------------------------------------------------------
(***************************************************************************)
(* The negotiation.                                                        *)
(***************************************************************************)
\* The offering party stored Signed before SignDlc left.
SignAfterStore == \A i \in Ids : SignMsg(i) \in msgs => rec["offer"][i] = "Signed"

\* The accepting party stored Signed before it sends the funding transaction.
FundAfterStore == unsent # NoId => /\ rec["accept"][unsent] = "Signed"
                                   /\ SignMsg(unsent) \in msgs

\* Only the accepting party verifies a SignDlc message.
OfferNeverFailsSign == \A i \in Ids : rec["offer"][i] # "FailedSign"

SafetyInv == /\ TypeOK
             /\ OfferNeverFailsSign
             /\ SignAfterStore
             /\ FundAfterStore
             /\ FundedIsSignedByBoth

\* Distinct messages are distinct: what the provers need of the encoding.
LEMMA MessagesDiffer ==
    ASSUME NEW i \in Ids, NEW j \in Ids
    PROVE  /\ SignMsg(i) # OfferMsg
           /\ SignMsg(i) # AcceptMsg(j)
           /\ AcceptMsg(i) # OfferMsg
           /\ SignMsg(i) = SignMsg(j) => i = j
           /\ SignMsg(i) \in Message /\ AcceptMsg(i) \in Message
  BY DEF SignMsg, AcceptMsg, OfferMsg, Message

\* Every reachable state satisfies the type invariant and the two orderings.
THEOREM SafetyInvariant == Spec => []SafetyInv
<1> USE NegotiationAssumption
<1>1. Init => SafetyInv
  BY DEF Init, SafetyInv, TypeOK, SignAfterStore, FundAfterStore,
         OfferNeverFailsSign, FundedIsSignedByBoth, Party, TempState, RecState
<1>2. SafetyInv /\ [Next]_vars => SafetyInv'
  <2> SUFFICES ASSUME SafetyInv, [Next]_vars PROVE SafetyInv'
    OBVIOUS
  <2> USE DEF SafetyInv, TypeOK, SignAfterStore, FundAfterStore,
              OfferNeverFailsSign, FundedIsSignedByBoth, Party, TempState, RecState
  <2>1. CASE SendOffer
    <3>1. OfferMsg \in Message
      BY DEF Message
    <3> QED
      BY <2>1, <3>1, MessagesDiffer DEF SendOffer
  <2>2. CASE OnOfferMessage
    BY <2>2 DEF OnOfferMessage
  <2>3. CASE SendFund
    BY <2>3 DEF SendFund
  <2>4. CASE SendFundLost
    BY <2>4 DEF SendFundLost
  <2>5. ASSUME NEW i \in Ids, AcceptContractOffer(i) PROVE SafetyInv'
    BY <2>5, MessagesDiffer DEF AcceptContractOffer, UpdateContract
  <2>6. ASSUME NEW i \in Ids, OnAcceptMessage(i) PROVE SafetyInv'
    BY <2>6, MessagesDiffer DEF OnAcceptMessage, UpdateContract
  <2>7. ASSUME NEW i \in Ids, AcceptFailOnError(i) PROVE SafetyInv'
    BY <2>7 DEF AcceptFailOnError
  <2>8. ASSUME NEW i \in Ids, OnSignMessage(i) PROVE SafetyInv'
    BY <2>8 DEF OnSignMessage, UpdateContract
  <2>9. ASSUME NEW i \in Ids, SignFailOnError(i) PROVE SafetyInv'
    BY <2>9 DEF SignFailOnError, UpdateContract
  <2>10. CASE UNCHANGED vars
    BY <2>10 DEF vars
  <2> QED
    BY <2>1, <2>2, <2>3, <2>4, <2>5, <2>6, <2>7, <2>8, <2>9, <2>10 DEF Next
<1> QED
  BY <1>1, <1>2, PTL DEF Spec

\* on_accept_message and on_sign_message store before they answer or
\* broadcast: a funding transaction on the network is signed in both stores,
\* with either kind of backend.
THEOREM FundedSignedByBoth == Spec => []FundedIsSignedByBoth
<1>1. SafetyInv => FundedIsSignedByBoth
  BY DEF SafetyInv
<1> QED
  BY <1>1, SafetyInvariant, PTL

\* The records, the messages and the funding transaction stay in their types,
\* through every failure of accept_fail_on_error and sign_fail_on_error.
THEOREM TypesAreCorrect == Spec => []TypeOK
<1>1. SafetyInv => TypeOK
  BY DEF SafetyInv
<1> QED
  BY <1>1, SafetyInvariant, PTL

-----------------------------------------------------------------------------
\* While the offer is open, or before it was made, nothing is signed.
OfferOpen == /\ temp["offer"] = "Offered" => OfferMsg \in msgs
             /\ SignedIds("offer") # {} => /\ temp["offer"] # "Offered"
                                           /\ OfferMsg \in msgs

OnceInv == TypeOK /\ OfferOpen /\ OffersCoinsOnce

\* With a backend that drops the temporary record (sled, Postgres), the
\* offering party signs at most one funding transaction.
THEOREM CoinsOfferedOnce == DropsTemporary /\ Spec => []OffersCoinsOnce
<1> SUFFICES ASSUME DropsTemporary PROVE Spec => []OffersCoinsOnce
  OBVIOUS
<1> USE NegotiationAssumption
<1>1. Init => OnceInv
  BY DEF Init, OnceInv, TypeOK, OfferOpen, OffersCoinsOnce, SignedIds,
         Party, TempState, RecState
<1>2. SafetyInv /\ OnceInv /\ SafetyInv' /\ [Next]_vars => OnceInv'
  <2> SUFFICES ASSUME SafetyInv, OnceInv, SafetyInv', [Next]_vars PROVE OnceInv'
    OBVIOUS
  <2>0. TypeOK'
    BY DEF SafetyInv
  <2> USE DEF OnceInv, TypeOK, OfferOpen, OffersCoinsOnce, SignedIds, Party,
              TempState, RecState
  <2>1. CASE SendOffer
    BY <2>0, <2>1 DEF SendOffer
  <2>2. CASE OnOfferMessage
    BY <2>0, <2>2 DEF OnOfferMessage
  <2>3. CASE SendFund
    BY <2>0, <2>3 DEF SendFund
  <2>4. CASE SendFundLost
    BY <2>0, <2>4 DEF SendFundLost
  <2>5. ASSUME NEW i \in Ids, AcceptContractOffer(i) PROVE OnceInv'
    BY <2>0, <2>5 DEF AcceptContractOffer, UpdateContract
  <2>6. ASSUME NEW i \in Ids, OnAcceptMessage(i) PROVE OnceInv'
    BY <2>0, <2>6 DEF OnAcceptMessage, UpdateContract
  <2>7. ASSUME NEW i \in Ids, AcceptFailOnError(i) PROVE OnceInv'
    BY <2>0, <2>7 DEF AcceptFailOnError
  <2>8. ASSUME NEW i \in Ids, OnSignMessage(i) PROVE OnceInv'
    BY <2>0, <2>8 DEF OnSignMessage, UpdateContract
  <2>9. ASSUME NEW i \in Ids, SignFailOnError(i) PROVE OnceInv'
    BY <2>0, <2>9 DEF SignFailOnError, UpdateContract
  <2>10. CASE UNCHANGED vars
    BY <2>0, <2>10 DEF vars
  <2> QED
    BY <2>1, <2>2, <2>3, <2>4, <2>5, <2>6, <2>7, <2>8, <2>9, <2>10 DEF Next
<1>3. OnceInv => OffersCoinsOnce
  BY DEF OnceInv
<1> QED
  BY <1>1, <1>2, <1>3, SafetyInvariant, PTL DEF Spec

-----------------------------------------------------------------------------
\* What one step may not do to a verdict.
KeepsVerdicts ==
    /\ \A p \in Party, i \in Ids :
         rec[p][i] \in {"Signed", "FailedSign"} => rec'[p][i] = rec[p][i]
    /\ temp["offer"] = "FailedAccept" => temp'["offer"] = "FailedAccept"

\* The state checks at the head of on_accept_message and on_sign_message keep
\* late and repeated messages from overwriting a signed or refused contract,
\* with either kind of backend.
THEOREM VerdictsAreFinal == Spec => VerdictIsFinal
<1> USE NegotiationAssumption
<1>1. SafetyInv /\ [Next]_vars => [KeepsVerdicts]_vars
  <2> SUFFICES ASSUME SafetyInv, Next PROVE KeepsVerdicts
    BY DEF KeepsVerdicts, vars
  <2> USE DEF SafetyInv, SignAfterStore, TypeOK, Party, TempState, RecState, KeepsVerdicts
  <2>1. CASE SendOffer \/ OnOfferMessage \/ SendFund \/ SendFundLost
    BY <2>1 DEF SendOffer, OnOfferMessage, SendFund, SendFundLost
  <2>2. ASSUME NEW i \in Ids, AcceptContractOffer(i) PROVE KeepsVerdicts
    BY <2>2 DEF AcceptContractOffer, UpdateContract
  <2>3. ASSUME NEW i \in Ids, OnAcceptMessage(i) PROVE KeepsVerdicts
    <3>1. rec["offer"][i] # "FailedSign"
      BY DEF OfferNeverFailsSign
    <3> QED BY <2>3, <3>1 DEF OnAcceptMessage, UpdateContract
  <2>4. ASSUME NEW i \in Ids, AcceptFailOnError(i) PROVE KeepsVerdicts
    BY <2>4 DEF AcceptFailOnError
  <2>5. ASSUME NEW i \in Ids, OnSignMessage(i) PROVE KeepsVerdicts
    BY <2>5 DEF OnSignMessage, UpdateContract
  <2>6. ASSUME NEW i \in Ids, SignFailOnError(i) PROVE KeepsVerdicts
    BY <2>6 DEF SignFailOnError, UpdateContract
  <2> QED
    BY <2>1, <2>2, <2>3, <2>4, <2>5, <2>6 DEF Next
<1> QED
  BY <1>1, SafetyInvariant, PTL DEF Spec, VerdictIsFinal, KeepsVerdicts

-----------------------------------------------------------------------------
(***************************************************************************)
(* Induction over the numbers, by the least number not in a set.           *)
(***************************************************************************)
LEMMA LeastNumber ==
    ASSUME NEW S \in SUBSET Nat, S # {}
    PROVE  \E m \in S : \A k \in S : m <= k
<1>1. PICK m \in S : \A k \in S : ~(<<k, m>> \in OpToRel(<, Nat))
  BY WFMin, NatLessThanWellFounded
<1>2. ASSUME NEW k \in S PROVE m <= k
  <2>1. ~(<<k, m>> \in OpToRel(<, Nat)) /\ k \in Nat /\ m \in Nat
    BY <1>1
  <2>2. ~(k < m)
    BY <2>1 DEF OpToRel
  <2>3. k \in Nat /\ m \in Nat
    BY <2>1
  <2> QED BY <2>2, <2>3
<1> QED BY <1>2

\* What holds of 0, and of n + 1 when it holds of n, holds of every number.
LEMMA Induction ==
    ASSUME NEW S, 0 \in S, \A n \in Nat : n \in S => n + 1 \in S
    PROVE  \A n \in Nat : n \in S
<1> DEFINE T == {n \in Nat : n \notin S}
<1> SUFFICES ASSUME T # {} PROVE FALSE
  OBVIOUS
<1>1. PICK m \in T : \A k \in T : m <= k
  BY LeastNumber
<1>2. m \in Nat /\ m # 0 /\ m - 1 \in Nat /\ (m - 1) + 1 = m
  BY <1>1
<1>3. m - 1 \notin T
  BY <1>1, <1>2
<1> QED BY <1>1, <1>2, <1>3

-----------------------------------------------------------------------------
(***************************************************************************)
(* Sums, which the folds compute in an order that is not specified.        *)
(***************************************************************************)
SumOf(v, S) == FoldFunctionOnSet(+, 0, v, S)
Chosen(s) == CHOOSE x \in s : TRUE
\* f[s] is the sum of v over s, for each set s of S.
Sums(f, v, S) == f = [s \in S |-> IF s = {} THEN 0
                                  ELSE v[Chosen(s)] + f[s \ {Chosen(s)}]]

InAnyOrder(f, v, S) ==
    \A s \in SUBSET S : /\ f[s] \in Int
                        /\ s = {} => f[s] = 0
                        /\ \A x \in s : f[s] = v[x] + f[s \ {x}]

\* The element the fold picks is one of the set.
LEMMA ChosenIsElement == ASSUME NEW s, s # {} PROVE Chosen(s) \in s
  BY DEF Chosen

\* The definition of the fold, as a function on the subsets of its set.
LEMMA FoldIsSum ==
    ASSUME NEW v, NEW S
    PROVE  SumOf(v, S) = (CHOOSE f : Sums(f, v, SUBSET S))[S]
  BY DEF SumOf, FoldFunctionOnSet, MapThenFoldSet, Sums, Chosen

\* Such a function on the subsets of a finite set exists.
LEMMA SumsExist ==
    ASSUME NEW v, NEW S, IsFiniteSet(S)
    PROVE  \E f : Sums(f, v, SUBSET S)
<1> DEFINE Level(k) == {s \in SUBSET S : Cardinality(s) <= k}
           T == {k \in Nat : \E f : Sums(f, v, Level(k))}
<1>1. \A s \in SUBSET S : IsFiniteSet(s) /\ Cardinality(s) \in Nat /\ (Cardinality(s) = 0 <=> s = {})
  BY FS_Subset, FS_CardinalityType, FS_EmptySet
<1>2. \A s \in SUBSET S : s # {} => /\ s \ {Chosen(s)} \in SUBSET S
                                    /\ Cardinality(s \ {Chosen(s)}) = Cardinality(s) - 1
  BY <1>1, ChosenIsElement, FS_RemoveElement
<1>3. 0 \in T
  <2>1. \A s \in Level(0) : s = {}
    BY <1>1
  <2>2. Sums([s \in Level(0) |-> 0], v, Level(0))
    <3> DEFINE f == [s \in Level(0) |-> 0]
    <3>1. f = [s \in Level(0) |-> IF s = {} THEN 0 ELSE v[Chosen(s)] + f[s \ {Chosen(s)}]]
      BY <2>1
    <3> QED BY <3>1 DEF Sums
  <2> QED BY <2>2
<1>4. ASSUME NEW k \in Nat, k \in T PROVE k + 1 \in T
  <2>1. PICK f : Sums(f, v, Level(k))
    BY <1>4
  <2> DEFINE g == [s \in Level(k + 1) |-> IF s = {} THEN 0
                                          ELSE v[Chosen(s)] + f[s \ {Chosen(s)}]]
  <2>2. ASSUME NEW s \in Level(k) PROVE s \in Level(k + 1) /\ g[s] = f[s]
    <3>1. s \in Level(k + 1)
      BY <1>1
    <3>2. f[s] = IF s = {} THEN 0 ELSE v[Chosen(s)] + f[s \ {Chosen(s)}]
      BY <2>1 DEF Sums
    <3> QED BY <3>1, <3>2
  <2>3. ASSUME NEW s \in Level(k + 1), s # {} PROVE s \ {Chosen(s)} \in Level(k)
    <3>1. Cardinality(s) \in Nat /\ Cardinality(s) <= k + 1
      BY <1>1
    <3>2. Cardinality(s \ {Chosen(s)}) = Cardinality(s) - 1 /\ s \ {Chosen(s)} \in SUBSET S
      BY <1>2, <2>3
    <3> QED BY <3>1, <3>2
  <2>4. ASSUME NEW s \in Level(k + 1)
        PROVE  g[s] = IF s = {} THEN 0 ELSE v[Chosen(s)] + g[s \ {Chosen(s)}]
    <3>1. g[s] = IF s = {} THEN 0 ELSE v[Chosen(s)] + f[s \ {Chosen(s)}]
      OBVIOUS
    <3> HIDE DEF g, Level
    <3> QED BY <2>2, <2>3, <3>1
  <2>5. g = [s \in Level(k + 1) |-> g[s]]
    OBVIOUS
  <2> HIDE DEF g, Level
  <2>6. Sums(g, v, Level(k + 1))
    BY <2>4, <2>5 DEF Sums
  <2> QED BY <2>6
<1>5. \A k \in Nat : k \in T
  <2> HIDE DEF T
  <2> QED BY <1>3, <1>4, Induction
<1>6. Cardinality(S) \in Nat /\ \A s \in SUBSET S : Cardinality(s) <= Cardinality(S)
  BY FS_Subset, FS_CardinalityType
<1>7. Level(Cardinality(S)) = SUBSET S
  BY <1>6
<1>8. \E f : Sums(f, v, Level(Cardinality(S)))
  BY <1>5, <1>6
<1> QED BY <1>7, <1>8

\* The sum is an integer, and does not depend on which element is taken first.
LEMMA SumInAnyOrder ==
    ASSUME NEW v, NEW S, IsFiniteSet(S), NEW f, Sums(f, v, SUBSET S),
           \A i \in S : v[i] \in Int
    PROVE  InAnyOrder(f, v, S)
<1> DEFINE Right(s) == /\ f[s] \in Int
                       /\ \A x \in s : f[s] = v[x] + f[s \ {x}]
           T == {k \in Nat : \A s \in SUBSET S : Cardinality(s) <= k => Right(s)}
<1>1. \A s \in SUBSET S : IsFiniteSet(s) /\ Cardinality(s) \in Nat /\ (Cardinality(s) = 0 <=> s = {})
  BY FS_Subset, FS_CardinalityType, FS_EmptySet
<1>2. \A s \in SUBSET S : \A x \in s : /\ s \ {x} \in SUBSET S
                                       /\ Cardinality(s \ {x}) = Cardinality(s) - 1
  BY <1>1, FS_RemoveElement
<1>3. \A s \in SUBSET S : f[s] = IF s = {} THEN 0 ELSE v[Chosen(s)] + f[s \ {Chosen(s)}]
  BY DEF Sums
<1>9. ASSUME NEW s \in SUBSET S, s = {} PROVE f[s] = 0 /\ Right(s)
  <2>1. f[s] = 0
    BY <1>3, <1>9
  <2>2. \A x : x \notin s
    BY <1>9
  <2> QED BY <2>1, <2>2
<1> HIDE DEF Right
<1>4. 0 \in T
  <2>1. \A s \in SUBSET S : Cardinality(s) <= 0 => s = {}
    BY <1>1
  <2> QED BY <1>9, <2>1
<1>5. ASSUME NEW k \in Nat, k \in T PROVE k + 1 \in T
  <2> SUFFICES ASSUME NEW s \in SUBSET S, Cardinality(s) <= k + 1 PROVE Right(s)
    OBVIOUS
  <2> SUFFICES ASSUME s # {} PROVE Right(s)
    BY <1>9
  <2> DEFINE c == Chosen(s)
  <2>1. c \in s
    BY ChosenIsElement
  <2>2. \A x \in s : s \ {x} \in SUBSET S /\ Cardinality(s \ {x}) <= k
    BY <1>1, <1>2
  <2>3. \A x \in s : Right(s \ {x})
    BY <1>5, <2>2
  <2>4. f[s] = v[c] + f[s \ {c}]
    BY <1>3
  <2> HIDE DEF c
  <2>5. f[s] \in Int
    <3>1. f[s \ {c}] \in Int /\ v[c] \in Int
      BY <2>1, <2>3 DEF Right
    <3> QED BY <2>4, <3>1
  <2>6. ASSUME NEW x \in s PROVE f[s] = v[x] + f[s \ {x}]
    <3>1. CASE x = c
      BY <2>4, <3>1
    <3>2. CASE x # c
      <4> DEFINE u == (s \ {x}) \ {c}
      <4>1. c \in s \ {x} /\ x \in s \ {c} /\ (s \ {c}) \ {x} = u
        BY <2>1, <3>2
      <4>2. f[s \ {x}] = v[c] + f[u]
        BY <2>3, <4>1 DEF Right
      <4>3. f[s \ {c}] = v[x] + f[u]
        BY <2>1, <2>3, <4>1 DEF Right
      <4>4. u \in SUBSET S /\ Cardinality(u) <= k
        <5>1. Cardinality(u) = Cardinality(s \ {x}) - 1
          BY <1>2, <2>2, <4>1
        <5> QED BY <1>1, <2>2, <5>1
      <4>5. Right(u)
        BY <1>5, <4>4
      <4>6. f[u] \in Int /\ v[x] \in Int /\ v[c] \in Int
        BY <2>1, <4>5 DEF Right
      <4> HIDE DEF u
      <4> QED BY <2>4, <4>2, <4>3, <4>6
    <3> QED BY <3>1, <3>2
  <2> QED BY <2>5, <2>6 DEF Right
<1>6. \A k \in Nat : k \in T
  <2> HIDE DEF T
  <2> QED BY <1>4, <1>5, Induction
<1>7. \A s \in SUBSET S : Right(s)
  BY <1>1, <1>6
<1> QED BY <1>7, <1>9 DEF Right, InAnyOrder

\* What is the same on the smaller set has the same sums there.
SameOn(v, w, U) == \A i \in U : v[i] = w[i]
LEMMA SumsAgree ==
    ASSUME NEW S, IsFiniteSet(S), NEW U, U \subseteq S, NEW v, NEW w, NEW f, NEW g,
           Sums(f, v, SUBSET S), Sums(g, w, SUBSET U), SameOn(v, w, U)
    PROVE  SameOn(f, g, SUBSET U)
<1> DEFINE T == {k \in Nat : \A s \in SUBSET U : Cardinality(s) <= k => f[s] = g[s]}
<1>1. \A s \in SUBSET U : IsFiniteSet(s) /\ Cardinality(s) \in Nat /\ (Cardinality(s) = 0 <=> s = {})
  BY FS_Subset, FS_CardinalityType, FS_EmptySet
<1>2. \A s \in SUBSET U : \A x \in s : /\ s \ {x} \in SUBSET U
                                       /\ Cardinality(s \ {x}) = Cardinality(s) - 1
  BY <1>1, FS_RemoveElement
<1>3. \A s \in SUBSET U :
        /\ f[s] = IF s = {} THEN 0 ELSE v[Chosen(s)] + f[s \ {Chosen(s)}]
        /\ g[s] = IF s = {} THEN 0 ELSE w[Chosen(s)] + g[s \ {Chosen(s)}]
  BY DEF Sums
<1>4. 0 \in T
  <2>1. ASSUME NEW s \in SUBSET U, Cardinality(s) <= 0 PROVE f[s] = g[s]
    <3>1. s = {}
      BY <1>1, <2>1
    <3> QED BY <1>3, <3>1
  <2> QED BY <2>1
<1>5. ASSUME NEW k \in Nat, k \in T PROVE k + 1 \in T
  <2> SUFFICES ASSUME NEW s \in SUBSET U, Cardinality(s) <= k + 1 PROVE f[s] = g[s]
    OBVIOUS
  <2> SUFFICES ASSUME s # {} PROVE f[s] = g[s]
    BY <1>3
  <2> DEFINE c == Chosen(s)
  <2>1. c \in s /\ v[c] = w[c]
    BY ChosenIsElement DEF SameOn
  <2>2. s \ {c} \in SUBSET U /\ Cardinality(s \ {c}) <= k
    BY <1>1, <1>2, <2>1
  <2>3. f[s \ {c}] = g[s \ {c}]
    BY <1>5, <2>2
  <2> QED BY <1>3, <2>1, <2>3
<1>6. \A k \in Nat : k \in T
  <2> HIDE DEF T
  <2> QED BY <1>4, <1>5, Induction
<1> QED BY <1>1, <1>6 DEF SameOn

\* The sum of none is 0, and any element can be taken out of a sum.
LEMMA SumRules ==
    ASSUME NEW S, IsFiniteSet(S), NEW v, \A i \in S : v[i] \in Int
    PROVE  /\ SumOf(v, S) \in Int
           /\ S = {} => SumOf(v, S) = 0
           /\ \A x \in S : SumOf(v, S) = v[x] + SumOf(v, S \ {x})
<1> DEFINE f == CHOOSE f : Sums(f, v, SUBSET S)
<1>1. SumOf(v, S) = f[S] /\ Sums(f, v, SUBSET S)
  BY FoldIsSum, SumsExist
<1> HIDE DEF f
<1>2. InAnyOrder(f, v, S)
  BY <1>1, SumInAnyOrder
<1>3. ASSUME NEW x \in S PROVE SumOf(v, S) = v[x] + SumOf(v, S \ {x})
  <2> DEFINE g == CHOOSE g : Sums(g, v, SUBSET (S \ {x}))
  <2>1. IsFiniteSet(S \ {x})
    BY FS_RemoveElement
  <2>2. SumOf(v, S \ {x}) = g[S \ {x}] /\ Sums(g, v, SUBSET (S \ {x}))
    BY <2>1, FoldIsSum, SumsExist
  <2> HIDE DEF g
  <2>3. f[S \ {x}] = g[S \ {x}]
    <3> DEFINE U == S \ {x}
    <3>1. U \in SUBSET S /\ Sums(g, v, SUBSET U)
      BY <2>2
    <3> HIDE DEF U
    <3>2. SameOn(v, v, U)
      BY DEF SameOn
    <3>3. U \subseteq S
      BY <3>1
    <3>4. SameOn(f, g, SUBSET U)
      BY <1>1, <3>1, <3>2, <3>3, SumsAgree
    <3> QED BY <3>4 DEF U, SameOn
  <2> QED BY <1>1, <1>2, <2>2, <2>3 DEF InAnyOrder
<1> QED BY <1>1, <1>2, <1>3 DEF InAnyOrder

\* Two functions that agree on a set have the same sum over it.
LEMMA SameSum ==
    ASSUME NEW S, IsFiniteSet(S), NEW v, NEW w, SameOn(v, w, S)
    PROVE  SumOf(v, S) = SumOf(w, S)
<1> DEFINE f == CHOOSE f : Sums(f, v, SUBSET S)
           g == CHOOSE g : Sums(g, w, SUBSET S)
<1>1. SumOf(v, S) = f[S] /\ Sums(f, v, SUBSET S) /\ SumOf(w, S) = g[S] /\ Sums(g, w, SUBSET S)
  BY FoldIsSum, SumsExist
<1> HIDE DEF f, g
<1>2. SameOn(f, g, SUBSET S)
  BY <1>1, SumsAgree
<1> QED BY <1>1, <1>2 DEF SameOn

\* The sum over 1..n, element by element.
LEMMA SumUpTo ==
    ASSUME NEW n \in Nat, NEW v, \A i \in 1..n : v[i] \in Int
    PROVE  /\ SumOf(v, 1..n) \in Int
           /\ n = 0 => SumOf(v, 1..n) = 0
           /\ n > 0 => SumOf(v, 1..n) = v[n] + SumOf(v, 1..(n - 1))
<1>1. IsFiniteSet(1..n) /\ (n = 0 => 1..n = {}) /\ (n > 0 => n \in 1..n /\ (1..n) \ {n} = 1..(n - 1))
  BY FS_Interval
<1> QED BY <1>1, SumRules

\* The same numbers in another order.
OneToOne(pi, S, R) ==
    /\ pi \in [S -> R]
    /\ \A i, j \in S : pi[i] = pi[j] => i = j
    /\ R = {pi[i] : i \in S}
LEMMA SumPermuted ==
    ASSUME NEW S, IsFiniteSet(S), NEW R, NEW pi, NEW v, OneToOne(pi, S, R),
           \A i \in R : v[i] \in Int
    PROVE  SumOf([i \in S |-> v[pi[i]]], S) = SumOf(v, R)
<1>0. /\ pi \in [S -> R] /\ R = {pi[i] : i \in S}
      /\ \A i, j \in S : pi[i] = pi[j] => i = j
  BY DEF OneToOne
<1> DEFINE w == [i \in S |-> v[pi[i]]]
           Im(s) == {pi[i] : i \in s}
           T == {k \in Nat : \A s \in SUBSET S : Cardinality(s) <= k =>
                                SumOf(w, s) = SumOf(v, Im(s))}
<1>1. \A s \in SUBSET S : /\ IsFiniteSet(s) /\ Cardinality(s) \in Nat /\ (Cardinality(s) = 0 <=> s = {})
                          /\ Im(s) \subseteq R /\ IsFiniteSet(Im(s))
  <2> SUFFICES ASSUME NEW s \in SUBSET S
               PROVE  /\ IsFiniteSet(s) /\ Cardinality(s) \in Nat /\ (Cardinality(s) = 0 <=> s = {})
                      /\ Im(s) \subseteq R /\ IsFiniteSet(Im(s))
    OBVIOUS
  <2>1. IsFiniteSet(s)
    BY FS_Subset
  <2> DEFINE q == [i \in s |-> pi[i]]
  <2>2. q \in Surjection(s, Im(s))
    BY <1>0 DEF Surjection
  <2>3. IsFiniteSet(Im(s))
    BY <2>1, <2>2, FS_Surjection
  <2> QED BY <1>0, <2>1, <2>3, FS_CardinalityType, FS_EmptySet
<1>2. \A s \in SUBSET S : \A x \in s : /\ s \ {x} \in SUBSET S
                                       /\ Cardinality(s \ {x}) = Cardinality(s) - 1
                                       /\ pi[x] \in Im(s)
                                       /\ Im(s \ {x}) = Im(s) \ {pi[x]}
  <2> SUFFICES ASSUME NEW s \in SUBSET S, NEW x \in s
               PROVE  /\ s \ {x} \in SUBSET S
                      /\ Cardinality(s \ {x}) = Cardinality(s) - 1
                      /\ pi[x] \in Im(s)
                      /\ Im(s \ {x}) = Im(s) \ {pi[x]}
    OBVIOUS
  <2>1. Cardinality(s \ {x}) = Cardinality(s) - 1
    BY <1>1, FS_RemoveElement
  <2>2. \A i \in s : pi[i] = pi[x] => i = x
    BY <1>0
  <2>3. Im(s \ {x}) = Im(s) \ {pi[x]}
    BY <2>2, Zenon
  <2> QED BY <2>1, <2>3
<1>3. \A i \in S : w[i] = v[pi[i]] /\ w[i] \in Int
  BY <1>0
<1> HIDE DEF w
<1>4. \A s \in SUBSET S : /\ s = {} => SumOf(w, s) = 0 /\ SumOf(v, Im(s)) = 0
                          /\ \A x \in s : /\ SumOf(w, s) = v[pi[x]] + SumOf(w, s \ {x})
                                          /\ SumOf(v, Im(s)) = v[pi[x]] + SumOf(v, Im(s \ {x}))
  <2> SUFFICES ASSUME NEW s \in SUBSET S
               PROVE  /\ s = {} => SumOf(w, s) = 0 /\ SumOf(v, Im(s)) = 0
                      /\ \A x \in s : /\ SumOf(w, s) = v[pi[x]] + SumOf(w, s \ {x})
                                      /\ SumOf(v, Im(s)) = v[pi[x]] + SumOf(v, Im(s \ {x}))
    OBVIOUS
  <2>1. IsFiniteSet(s) /\ \A i \in s : w[i] \in Int /\ w[i] = v[pi[i]]
    BY <1>1, <1>3
  <2>2. IsFiniteSet(Im(s)) /\ \A i \in Im(s) : v[i] \in Int
    BY <1>1
  <2>3. s = {} => Im(s) = {}
    OBVIOUS
  <2>4. /\ s = {} => SumOf(w, s) = 0
        /\ \A x \in s : SumOf(w, s) = w[x] + SumOf(w, s \ {x})
    BY <2>1, SumRules
  <2>5. /\ Im(s) = {} => SumOf(v, Im(s)) = 0
        /\ \A y \in Im(s) : SumOf(v, Im(s)) = v[y] + SumOf(v, Im(s) \ {y})
    <3> HIDE DEF Im
    <3> QED BY <2>2, SumRules
  <2> HIDE DEF Im
  <2>6. ASSUME NEW x \in s
        PROVE  /\ SumOf(w, s) = v[pi[x]] + SumOf(w, s \ {x})
               /\ SumOf(v, Im(s)) = v[pi[x]] + SumOf(v, Im(s \ {x}))
    <3>1. pi[x] \in Im(s) /\ Im(s \ {x}) = Im(s) \ {pi[x]}
      BY <1>2
    <3> QED BY <2>1, <2>4, <2>5, <3>1
  <2> QED BY <2>3, <2>4, <2>5, <2>6
<1>5. 0 \in T
  <2> HIDE DEF Im
  <2> QED BY <1>1, <1>4
<1>6. ASSUME NEW k \in Nat, k \in T PROVE k + 1 \in T
  <2> SUFFICES ASSUME NEW s \in SUBSET S, Cardinality(s) <= k + 1 PROVE SumOf(w, s) = SumOf(v, Im(s))
    OBVIOUS
  <2> HIDE DEF Im
  <2> SUFFICES ASSUME s # {} PROVE SumOf(w, s) = SumOf(v, Im(s))
    BY <1>4
  <2>1. PICK x \in s : TRUE
    OBVIOUS
  <2>2. s \ {x} \in SUBSET S /\ Cardinality(s \ {x}) <= k
    BY <1>1, <1>2, <2>1
  <2>3. SumOf(w, s \ {x}) = SumOf(v, Im(s \ {x}))
    BY <1>6, <2>2
  <2> QED BY <1>4, <2>1, <2>3
<1>7. \A k \in Nat : k \in T
  <2> HIDE DEF T
  <2> QED BY <1>5, <1>6, Induction
<1>8. SumOf(w, S) = SumOf(v, Im(S))
  <2> HIDE DEF Im
  <2> QED BY <1>1, <1>7
<1> QED BY <1>0, <1>8 DEF w

-----------------------------------------------------------------------------
(***************************************************************************)
(* What the elements of a sequence weigh together.                         *)
(***************************************************************************)
Weigh(m, s) == Total([i \in DOMAIN s |-> m[s[i]]])

\* Total is a sum over the positions of a sequence.
LEMMA TotalIsSum == ASSUME NEW v PROVE Total(v) = SumOf(v, DOMAIN v)
  BY DEF Total, FoldSeq, FoldFunction, SumOf

\* So is what the elements of a sequence weigh.
LEMMA WeighIsSum ==
    ASSUME NEW m, NEW s
    PROVE  Weigh(m, s) = SumOf([i \in DOMAIN s |-> m[s[i]]], DOMAIN s)
<1> DEFINE v == [i \in DOMAIN s |-> m[s[i]]]
<1>1. DOMAIN v = DOMAIN s
  OBVIOUS
<1>2. Weigh(m, s) = Total(v)
  BY DEF Weigh
<1> HIDE DEF v
<1>3. Weigh(m, s) = SumOf(v, DOMAIN s)
  BY <1>1, <1>2, TotalIsSum
<1> QED BY <1>3 DEF v

\* The total of at most three values.
LEMMA ShortTotal ==
    ASSUME NEW n \in 0..3, NEW v, DOMAIN v = 1..n, \A i \in 1..n : v[i] \in Int
    PROVE  /\ Total(v) \in Int
           /\ n = 0 => Total(v) = 0
           /\ n = 1 => Total(v) = v[1]
           /\ n = 2 => Total(v) = v[1] + v[2]
           /\ n = 3 => Total(v) = v[1] + v[2] + v[3]
<1>1. Total(v) = SumOf(v, 1..n)
  BY TotalIsSum
<1>2. \A k \in 0..n : \A i \in 1..k : v[i] \in Int
  OBVIOUS
<1>3. \A k \in 0..n : /\ SumOf(v, 1..k) \in Int
                      /\ k = 0 => SumOf(v, 1..k) = 0
                      /\ k > 0 => SumOf(v, 1..k) = v[k] + SumOf(v, 1..(k - 1))
  <2> SUFFICES ASSUME NEW k \in 0..n
               PROVE  /\ SumOf(v, 1..k) \in Int
                      /\ k = 0 => SumOf(v, 1..k) = 0
                      /\ k > 0 => SumOf(v, 1..k) = v[k] + SumOf(v, 1..(k - 1))
    OBVIOUS
  <2> QED BY <1>2, SumUpTo
<1> DEFINE S(k) == SumOf(v, 1..k)
<1>4. S(0) = 0
  BY <1>3
<1>5. ASSUME NEW k \in 0..3, NEW j \in Int, j = k - 1, 1 <= k, k <= n
      PROVE  S(k) = v[k] + S(j) /\ v[k] \in Int /\ S(k) \in Int
  BY <1>3, <1>5
<1> HIDE DEF S
<1>6. n >= 1 => S(1) = v[1] + S(0) /\ v[1] \in Int
  BY <1>5
<1>7. n >= 2 => S(2) = v[2] + S(1) /\ v[2] \in Int
  BY <1>5
<1>8. n >= 3 => S(3) = v[3] + S(2) /\ v[3] \in Int
  BY <1>5
<1>9. Total(v) = S(n)
  BY <1>1 DEF S
<1> QED BY <1>4, <1>6, <1>7, <1>8, <1>9

\* An appended element adds its weight.
LEMMA WeighAppend ==
    ASSUME NEW E, NEW m \in [E -> Int], NEW s \in Seq(E), NEW e \in E
    PROVE  Weigh(m, Append(s, e)) = Weigh(m, s) + m[e]
<1> DEFINE n == Len(s)
           v == [i \in DOMAIN s |-> m[s[i]]]
           w == [i \in DOMAIN Append(s, e) |-> m[Append(s, e)[i]]]
<1>1. n \in Nat /\ DOMAIN s = 1..n /\ DOMAIN Append(s, e) = 1..(n + 1)
  OBVIOUS
<1>2. \A i \in 1..n : w[i] = v[i]
  BY <1>1
<1>3. w[n + 1] = m[e]
  BY <1>1
<1>4. \A i \in 1..(n + 1) : w[i] \in Int
  OBVIOUS
<1>5. Weigh(m, Append(s, e)) = SumOf(w, 1..(n + 1)) /\ Weigh(m, s) = SumOf(v, 1..n)
  BY <1>1, WeighIsSum
<1> HIDE DEF v, w, n
<1>6. SumOf(w, 1..(n + 1)) = w[n + 1] + SumOf(w, 1..n) /\ SumOf(w, 1..n) \in Int
  <2>1. n + 1 \in Nat /\ (n + 1) - 1 = n /\ n + 1 > 0
    BY <1>1
  <2>2. \A i \in 1..n : w[i] \in Int
    BY <1>1, <1>4
  <2> QED BY <1>1, <1>4, <2>1, <2>2, SumUpTo
<1>7. SumOf(w, 1..n) = SumOf(v, 1..n)
  <2>1. SameOn(w, v, 1..n)
    BY <1>2 DEF SameOn
  <2>2. IsFiniteSet(1..n)
    BY <1>1, FS_Interval
  <2> QED BY <2>1, <2>2, SameSum
<1>8. m[e] \in Int
  OBVIOUS
<1> QED BY <1>3, <1>5, <1>6, <1>7, <1>8

\* No element weighs nothing.
LEMMA WeighEmpty == ASSUME NEW m PROVE Weigh(m, <<>>) = 0
<1>1. Weigh(m, <<>>) = SumOf([i \in DOMAIN << >> |-> m[<<>>[i]]], DOMAIN <<>>)
  BY WeighIsSum
<1>2. DOMAIN <<>> = {}
  OBVIOUS
<1>3. \A v : SumOf(v, {}) = 0
  BY FS_EmptySet, SumRules
<1> QED BY <1>1, <1>2, <1>3

\* A weight is an integer when each element has an integer weight.
LEMMA WeighType ==
    ASSUME NEW E, NEW m \in [E -> Int], NEW s \in Seq(E)
    PROVE  Weigh(m, s) \in Int
<1> DEFINE v == [i \in DOMAIN s |-> m[s[i]]]
<1>1. Len(s) \in Nat /\ DOMAIN s = 1..Len(s) /\ \A i \in 1..Len(s) : v[i] \in Int
  OBVIOUS
<1>2. Weigh(m, s) = SumOf(v, 1..Len(s))
  BY <1>1, WeighIsSum
<1> HIDE DEF v
<1> QED BY <1>1, <1>2, SumUpTo

\* Two sequences of one length that agree everywhere are equal.
LEMMA SameSeq ==
    ASSUME NEW E, NEW x \in Seq(E), NEW y \in Seq(E), Len(x) = Len(y),
           \A i \in 1..Len(x) : x[i] = y[i]
    PROVE  x = y
  OBVIOUS

\* Concatenation, one element of the second sequence at a time.
LEMMA ConcatAppend ==
    ASSUME NEW E, NEW s \in Seq(E), NEW f \in Seq(E), NEW e \in E
    PROVE  s \o Append(f, e) = Append(s \o f, e) /\ s \o f \in Seq(E)
<1> DEFINE x == s \o Append(f, e)
           y == Append(s \o f, e)
<1>1. x \in Seq(E) /\ y \in Seq(E) /\ s \o f \in Seq(E)
  OBVIOUS
<1>2. Len(x) = Len(s) + Len(f) + 1 /\ Len(y) = Len(s) + Len(f) + 1
  OBVIOUS
<1>3. Len(s) \in Nat /\ Len(f) \in Nat
  OBVIOUS
<1>4. ASSUME NEW i \in 1..(Len(s) + Len(f) + 1) PROVE x[i] = y[i]
  <2>1. CASE i <= Len(s)
    BY <2>1
  <2>2. CASE i > Len(s) /\ i <= Len(s) + Len(f)
    BY <2>2
  <2>3. CASE i = Len(s) + Len(f) + 1
    BY <2>3
  <2> QED BY <1>3, <2>1, <2>2, <2>3
<1> HIDE DEF x, y
<1>5. x = y
  BY <1>1, <1>2, <1>4, SameSeq
<1> QED BY <1>1, <1>5 DEF x, y

\* Two sequences weigh together what they weigh apart.
LEMMA WeighConcat ==
    ASSUME NEW E, NEW m \in [E -> Int], NEW s \in Seq(E), NEW u \in Seq(E)
    PROVE  Weigh(m, s \o u) = Weigh(m, s) + Weigh(m, u)
<1> DEFINE T == {n \in Nat : \A r \in Seq(E) : Len(r) = n => Weigh(m, s \o r) = Weigh(m, s) + Weigh(m, r)}
<1>1. 0 \in T
  <2> SUFFICES ASSUME NEW r \in Seq(E), Len(r) = 0 PROVE Weigh(m, s \o r) = Weigh(m, s) + Weigh(m, r)
    OBVIOUS
  <2>1. r = <<>> /\ s \o r = s
    OBVIOUS
  <2> QED BY <2>1, WeighEmpty, WeighType
<1>2. ASSUME NEW n \in Nat, n \in T PROVE n + 1 \in T
  <2> SUFFICES ASSUME NEW r \in Seq(E), Len(r) = n + 1 PROVE Weigh(m, s \o r) = Weigh(m, s) + Weigh(m, r)
    OBVIOUS
  <2> DEFINE f == SubSeq(r, 1, n)
             e == r[n + 1]
  <2>1. f \in Seq(E) /\ Len(f) = n /\ e \in E /\ r = Append(f, e)
    OBVIOUS
  <2>2. s \o r = Append(s \o f, e) /\ s \o f \in Seq(E)
    <3> HIDE DEF f, e
    <3> QED BY <2>1, ConcatAppend
  <2> HIDE DEF f, e
  <2>3. Weigh(m, s \o f) = Weigh(m, s) + Weigh(m, f)
    BY <1>2, <2>1
  <2>4. Weigh(m, r) = Weigh(m, f) + m[e]
    BY <2>1, WeighAppend
  <2>5. Weigh(m, s \o r) = Weigh(m, s \o f) + m[e]
    BY <2>1, <2>2, WeighAppend
  <2>6. Weigh(m, s) \in Int /\ Weigh(m, f) \in Int /\ m[e] \in Int
    BY <2>1, WeighType
  <2> QED BY <2>3, <2>4, <2>5, <2>6
<1>3. \A n \in Nat : n \in T
  <2> HIDE DEF T
  <2> QED BY <1>1, <1>2, Induction
<1> QED BY <1>3

\* One element.
LEMMA WeighOne ==
    ASSUME NEW E, NEW m \in [E -> Int], NEW a \in E
    PROVE  Weigh(m, <<a>>) = m[a]
<1>1. <<a>> = Append(<<>>, a) /\ <<>> \in Seq(E) /\ m[a] \in Int
  OBVIOUS
<1>2. Weigh(m, Append(<<>>, a)) = Weigh(m, <<>>) + m[a]
  BY <1>1, WeighAppend
<1> QED BY <1>1, <1>2, WeighEmpty

\* Two elements.
LEMMA WeighTwo ==
    ASSUME NEW E, NEW m \in [E -> Int], NEW a \in E, NEW b \in E
    PROVE  Weigh(m, <<a, b>>) = m[a] + m[b]
<1>1. <<a, b>> = Append(<<a>>, b) /\ <<a>> \in Seq(E) /\ m[a] \in Int /\ m[b] \in Int
  OBVIOUS
<1>2. Weigh(m, Append(<<a>>, b)) = Weigh(m, <<a>>) + m[b]
  BY <1>1, WeighAppend
<1> QED BY <1>1, <1>2, WeighOne

\* Three elements.
LEMMA WeighThree ==
    ASSUME NEW E, NEW m \in [E -> Int], NEW a \in E, NEW b \in E, NEW c \in E
    PROVE  Weigh(m, <<a, b, c>>) = m[a] + m[b] + m[c]
<1>1. /\ <<a, b, c>> = Append(<<a, b>>, c) /\ <<a, b>> \in Seq(E)
      /\ m[a] \in Int /\ m[b] \in Int /\ m[c] \in Int
  OBVIOUS
<1>2. Weigh(m, Append(<<a, b>>, c)) = Weigh(m, <<a, b>>) + m[c]
  BY <1>1, WeighAppend
<1> QED BY <1>1, <1>2, WeighTwo

-----------------------------------------------------------------------------
(***************************************************************************)
(* The elements that are kept.                                             *)
(***************************************************************************)
Joins(f, parts, n) == f = [i \in 1..n |-> IF i = 1 THEN parts[i] ELSE f[i - 1] \o parts[i]]

\* The sequences of a sequence can be joined one after another.
LEMMA JoinsExist ==
    ASSUME NEW parts, NEW n \in Nat
    PROVE  \E f : Joins(f, parts, n)
<1> DEFINE T == {k \in Nat : \E f : Joins(f, parts, k)}
<1>1. 0 \in T
  <2>1. Joins([i \in 1..0 |-> 0], parts, 0)
    BY DEF Joins
  <2> QED BY <2>1
<1>2. ASSUME NEW k \in Nat, k \in T PROVE k + 1 \in T
  <2>1. PICK f : Joins(f, parts, k)
    BY <1>2
  <2> DEFINE g == [i \in 1..(k + 1) |-> IF i = 1 THEN parts[i] ELSE f[i - 1] \o parts[i]]
  <2>2. ASSUME NEW i \in 1..k PROVE g[i] = f[i]
    <3>1. f[i] = IF i = 1 THEN parts[i] ELSE f[i - 1] \o parts[i]
      BY <2>1 DEF Joins
    <3>2. i \in 1..(k + 1)
      OBVIOUS
    <3> QED BY <3>1, <3>2
  <2>3. ASSUME NEW i \in 1..(k + 1)
        PROVE  g[i] = IF i = 1 THEN parts[i] ELSE g[i - 1] \o parts[i]
    <3>1. g[i] = IF i = 1 THEN parts[i] ELSE f[i - 1] \o parts[i]
      OBVIOUS
    <3>2. i # 1 => i - 1 \in 1..k
      OBVIOUS
    <3> HIDE DEF g
    <3> QED BY <2>2, <3>1, <3>2
  <2>4. g = [i \in 1..(k + 1) |-> g[i]]
    OBVIOUS
  <2> HIDE DEF g
  <2>5. Joins(g, parts, k + 1)
    BY <2>3, <2>4 DEF Joins
  <2> QED BY <2>5
<1>3. \A k \in Nat : k \in T
  <2> HIDE DEF T
  <2> QED BY <1>1, <1>2, Induction
<1> QED BY <1>3

\* FlattenSeq joins them.
LEMMA FlattenIsJoin ==
    ASSUME NEW parts, Len(parts) \in Nat
    PROVE  /\ Len(parts) = 0 => FlattenSeq(parts) = parts
           /\ Len(parts) > 0 => \E f : /\ Joins(f, parts, Len(parts))
                                       /\ FlattenSeq(parts) = f[Len(parts)]
<1> DEFINE f == CHOOSE f : Joins(f, parts, Len(parts))
<1>1. Joins(f, parts, Len(parts))
  BY JoinsExist
<1>2. Len(parts) # 0 => FlattenSeq(parts) = f[Len(parts)]
  BY DEF FlattenSeq, Joins
<1>3. Len(parts) = 0 => FlattenSeq(parts) = parts
  BY DEF FlattenSeq
<1> HIDE DEF f
<1> QED BY <1>1, <1>2, <1>3

Parts(s, K) == [i \in DOMAIN s |-> IF s[i] \in K THEN <<s[i]>> ELSE <<>>]
Keep(s, K) == FlattenSeq(Parts(s, K))
Only(m, E, K) == [e \in E |-> IF e \in K THEN m[e] ELSE 0]

Kept(E, K) == E \cap K
\* Keeping the elements of K weighs what those elements weighed before.
LEMMA KeepWeighs ==
    ASSUME NEW E, NEW m \in [E -> Int], NEW K, NEW s \in Seq(E)
    PROVE  /\ Keep(s, K) \in Seq(Kept(E, K))
           /\ Weigh(m, Keep(s, K)) = Weigh(Only(m, E, K), s)
<1> DEFINE parts == Parts(s, K)
           w == Only(m, E, K)
           n == Len(s)
           EK == Kept(E, K)
<1>1. Len(parts) = n /\ n \in Nat /\ DOMAIN s = 1..n
  BY DEF Parts
<1>2. \A i \in 1..n : s[i] \in E /\ parts[i] = IF s[i] \in K THEN <<s[i]>> ELSE <<>>
  BY DEF Parts
<1>3. w \in [E -> Int] /\ \A e \in E : w[e] = IF e \in K THEN m[e] ELSE 0
  BY DEF Only
<1>4. CASE n = 0
  <2>1. s = <<>> /\ parts = <<>>
    BY <1>1, <1>4
  <2>2. Keep(s, K) = <<>>
    BY <1>1, <1>4, <2>1, FlattenIsJoin DEF Keep
  <2>3. Weigh(m, <<>>) = 0 /\ Weigh(w, <<>>) = 0
    BY WeighEmpty
  <2>4. <<>> \in Seq(Kept(E, K))
    OBVIOUS
  <2> HIDE DEF n, parts
  <2> QED BY <2>1, <2>2, <2>3, <2>4
<1>5. CASE n > 0
  <2>1. PICK f : Joins(f, parts, n) /\ Keep(s, K) = f[n]
    BY <1>1, <1>5, FlattenIsJoin DEF Keep
  <2> DEFINE P(i) == SubSeq(s, 1, i)
             Right(i) == f[i] \in Seq(EK) /\ Weigh(m, f[i]) = Weigh(w, P(i))
             T == {i \in Nat : i + 1 \in 1..n => Right(i + 1)}
  <2>2. \A i \in 1..n : f[i] = IF i = 1 THEN parts[i] ELSE f[i - 1] \o parts[i]
    BY <2>1 DEF Joins
  <2>3. m \in [E -> Int] /\ (\A r \in Seq(EK) : r \in Seq(E)) /\ \A e \in EK : e \in E
    BY DEF Kept
  <2> HIDE DEF parts, w
  <2>4. \A i \in 1..n : /\ parts[i] \in Seq(EK)
                        /\ Weigh(m, parts[i]) = w[s[i]]
                        /\ s[i] \in E /\ w[s[i]] \in Int
    <3> SUFFICES ASSUME NEW i \in 1..n
                 PROVE  /\ parts[i] \in Seq(EK)
                        /\ Weigh(m, parts[i]) = w[s[i]]
                        /\ s[i] \in E /\ w[s[i]] \in Int
      OBVIOUS
    <3>1. CASE s[i] \in K
      <4>1. parts[i] = <<s[i]>> /\ s[i] \in EK /\ w[s[i]] = m[s[i]]
        BY <1>2, <1>3, <3>1 DEF Kept
      <4>2. Weigh(m, <<s[i]>>) = m[s[i]] /\ m[s[i]] \in Int
        BY <1>2, WeighOne
      <4> QED BY <1>2, <4>1, <4>2
    <3>2. CASE s[i] \notin K
      <4>1. parts[i] = <<>> /\ w[s[i]] = 0 /\ s[i] \in E
        BY <1>2, <1>3, <3>2
      <4> QED BY <4>1, WeighEmpty
    <3> QED BY <3>1, <3>2
  <2>5. 0 \in T
    <3>1. f[1] = parts[1] /\ 1 \in 1..n
      BY <1>1, <1>5, <2>2
    <3>2. P(1) = <<s[1]>>
      <4>1. s \in Seq(E) /\ Len(s) >= 1
        BY <1>1, <1>5
      <4>2. P(1) \in Seq(E) /\ Len(P(1)) = 1 /\ P(1)[1] = s[1]
        BY <4>1
      <4> HIDE DEF P
      <4> QED BY <4>2
    <3>3. Weigh(w, <<s[1]>>) = w[s[1]] /\ s[1] \in E
      BY <1>3, <2>4, <3>1, WeighOne
    <3> HIDE DEF P
    <3>4. Right(1)
      BY <2>4, <3>1, <3>2, <3>3
    <3> HIDE DEF Right
    <3> QED BY <3>4
  <2>6. ASSUME NEW i \in Nat, i \in T PROVE i + 1 \in T
    <3> SUFFICES ASSUME (i + 1) + 1 \in 1..n PROVE Right((i + 1) + 1)
      OBVIOUS
    <3> DEFINE a == i + 1
               b == a + 1
    <3>1. a \in 1..n /\ b \in 1..n /\ b # 1 /\ b - 1 = a
      BY <1>1
    <3>2. Right(a)
      BY <2>6, <3>1
    <3>3. f[b] = f[a] \o parts[b]
      BY <2>2, <3>1
    <3>4. P(b) = Append(P(a), s[b]) /\ P(a) \in Seq(E)
      BY <1>1, <3>1
    <3> HIDE DEF a, b, P
    <3>5. f[a] \in Seq(EK) /\ Weigh(m, f[a]) = Weigh(w, P(a))
      BY <3>2
    <3>6. f[b] \in Seq(EK)
      BY <2>4, <3>1, <3>3, <3>5
    <3>7. Weigh(m, f[b]) = Weigh(m, f[a]) + Weigh(m, parts[b])
      <4>1. f[a] \in Seq(E) /\ parts[b] \in Seq(E)
        BY <2>3, <2>4, <3>1, <3>5
      <4>2. Weigh(m, f[a] \o parts[b]) = Weigh(m, f[a]) + Weigh(m, parts[b])
        BY <4>1, WeighConcat
      <4> QED BY <3>3, <4>2
    <3>8. Weigh(w, P(b)) = Weigh(w, P(a)) + w[s[b]]
      <4>1. w \in [E -> Int] /\ s[b] \in E /\ P(a) \in Seq(E)
        BY <1>3, <2>4, <3>1, <3>4
      <4>2. Weigh(w, Append(P(a), s[b])) = Weigh(w, P(a)) + w[s[b]]
        BY <4>1, WeighAppend
      <4> QED BY <3>4, <4>2
    <3>9. Right(b)
      BY <2>4, <3>1, <3>5, <3>6, <3>7, <3>8
    <3> QED BY <3>9 DEF b, a
  <2>7. \A i \in Nat : i \in T
    <3> HIDE DEF T
    <3> QED BY <2>5, <2>6, Induction
  <2>8. Right(n)
    <3>1. n - 1 \in Nat /\ (n - 1) + 1 = n /\ n \in 1..n
      BY <1>1, <1>5
    <3>2. n - 1 \in T
      BY <2>7, <3>1
    <3> HIDE DEF Right
    <3> QED BY <3>1, <3>2
  <2>9. P(n) = s
    BY <1>1
  <2> QED BY <2>1, <2>8, <2>9 DEF w
<1> QED BY <1>1, <1>4, <1>5

KeepsOfTwo(a, b, K) ==
    Keep(<<a, b>>, K) = (IF a \in K THEN <<a>> ELSE <<>>) \o (IF b \in K THEN <<b>> ELSE <<>>)
\* What is kept of none, one or two elements.
LEMMA KeepShort ==
    ASSUME NEW K, NEW a, NEW b
    PROVE  KeepsOfTwo(a, b, K)
<1> DEFINE s == <<a, b>>
<1>1. Len(Parts(s, K)) = 2
  BY DEF Parts
<1> DEFINE parts == Parts(s, K)
<1> HIDE DEF s
<1>2. Len(parts) \in Nat /\ Len(parts) > 0 /\ Keep(s, K) = FlattenSeq(parts)
  BY <1>1 DEF Keep
<1>3. PICK f : Joins(f, parts, 2) /\ Keep(s, K) = f[2]
  <2> HIDE DEF parts
  <2>1. \E f : Joins(f, parts, Len(parts)) /\ FlattenSeq(parts) = f[Len(parts)]
    BY <1>2, FlattenIsJoin
  <2>2. Len(parts) = 2
    BY <1>1 DEF parts
  <2> QED BY <1>2, <2>1, <2>2
<1> USE DEF s
<1>5. f[2] = f[1] \o parts[2] /\ f[1] = parts[1]
  <2> HIDE DEF parts
  <2>1. \A i \in 1..2 : f[i] = IF i = 1 THEN parts[i] ELSE f[i - 1] \o parts[i]
    BY <1>3 DEF Joins
  <2>2. ASSUME NEW i \in 1..2, NEW j \in Int, j = i - 1, i # 1 PROVE f[i] = f[j] \o parts[i]
    BY <2>1, <2>2
  <2>3. \A i, j \in Int : i = 2 /\ j = 1 => f[i] = f[j] \o parts[i]
    <3> SUFFICES ASSUME NEW i \in Int, NEW j \in Int, i = 2, j = 1 PROVE f[i] = f[j] \o parts[i]
      OBVIOUS
    <3>1. i \in 1..2 /\ j = i - 1 /\ i # 1
      OBVIOUS
    <3> QED BY <2>2, <3>1
  <2>4. f[1] = parts[1]
    BY <2>1
  <2>5. 2 \in Int /\ 1 \in Int
    OBVIOUS
  <2>6. f[2] = f[1] \o parts[2]
    BY <2>3, <2>5, Zenon
  <2> QED BY <2>4, <2>6
<1>4. /\ Parts(s, K)[1] = IF a \in K THEN <<a>> ELSE <<>>
      /\ Parts(s, K)[2] = IF b \in K THEN <<b>> ELSE <<>>
  BY DEF Parts
<1> QED BY <1>3, <1>4, <1>5 DEF KeepsOfTwo

-----------------------------------------------------------------------------
(***************************************************************************)
(* Ordering by serial ids keeps the elements.                              *)
(***************************************************************************)
Earlier(ids, i) == {j \in DOMAIN ids : ids[j] < ids[i] \/ (ids[j] = ids[i] /\ j < i)}

\* No two elements have the same place.
LEMMA PlacesAreDistinct ==
    ASSUME NEW n \in Nat, NEW ids, DOMAIN ids = 1..n, \A i \in 1..n : ids[i] \in Int
    PROVE  /\ \A i \in 1..n : Place(ids, i) \in 1..n
           /\ \A i, j \in 1..n : Place(ids, i) = Place(ids, j) => i = j
<1> DEFINE N == 1..n
           E(i) == Earlier(ids, i)
           Before(j, i) == ids[j] < ids[i] \/ (ids[j] = ids[i] /\ j < i)
<1>1. IsFiniteSet(N) /\ Cardinality(N) = n
  BY FS_Interval
<1>2. \A i, j \in N : j \in E(i) <=> Before(j, i)
  BY DEF Earlier
<1>3. \A i \in N : E(i) \subseteq N
  BY DEF Earlier
<1>4. \A i, j, k \in N : /\ ~Before(i, i)
                         /\ Before(i, j) /\ Before(j, k) => Before(i, k)
                         /\ i # j => Before(i, j) \/ Before(j, i)
  <2>1. \A i \in N : ids[i] \in Int /\ i \in Int
    OBVIOUS
  <2> HIDE DEF N
  <2> QED BY <2>1
<1>5. \A i \in N : Place(ids, i) = 1 + Cardinality(E(i))
  BY DEF Place, Earlier
<1> HIDE DEF N, E, Before
<1>6. ASSUME NEW i \in N, NEW j \in N, Before(i, j) PROVE Cardinality(E(i)) < Cardinality(E(j))
  <2>1. IsFiniteSet(E(i)) /\ IsFiniteSet(E(j))
    BY <1>1, <1>3, FS_Subset
  <2>2. i \notin E(i)
    BY <1>2, <1>4
  <2>3. E(i) \cup {i} \subseteq E(j)
    BY <1>2, <1>3, <1>4, <1>6
  <2>4. Cardinality(E(i) \cup {i}) = Cardinality(E(i)) + 1
    BY <2>1, <2>2, FS_AddElement
  <2> DEFINE S == E(i) \cup {i}
  <2> HIDE DEF S
  <2>5. Cardinality(S) <= Cardinality(E(j))
    BY <2>1, <2>3, FS_Subset DEF S
  <2>6. Cardinality(E(i)) \in Nat /\ Cardinality(E(j)) \in Nat
    BY <2>1, FS_CardinalityType
  <2> QED BY <2>4, <2>5, <2>6 DEF S
<1>7. ASSUME NEW i \in N PROVE Place(ids, i) \in 1..n
  <2> DEFINE R == N \ {i}
  <2>1. E(i) \subseteq R
    BY <1>2, <1>3, <1>4
  <2>2. IsFiniteSet(R) /\ Cardinality(R) = n - 1
    BY <1>1, FS_RemoveElement
  <2> HIDE DEF R
  <2>3. Cardinality(E(i)) \in Nat /\ Cardinality(E(i)) <= Cardinality(R)
    BY <2>1, <2>2, FS_Subset, FS_CardinalityType
  <2> QED BY <1>5, <2>2, <2>3
<1>8. ASSUME NEW i \in N, NEW j \in N, Place(ids, i) = Place(ids, j) PROVE i = j
  <2>1. Cardinality(E(i)) = Cardinality(E(j)) /\ Cardinality(E(i)) \in Nat /\ Cardinality(E(j)) \in Nat
    <3>1. IsFiniteSet(E(i)) /\ IsFiniteSet(E(j))
      BY <1>1, <1>3, FS_Subset
    <3> QED BY <1>5, <1>8, <3>1, FS_CardinalityType
  <2>2. ~Before(i, j) /\ ~Before(j, i)
    BY <1>6, <2>1
  <2> QED BY <1>4, <2>2
<1> QED BY <1>7, <1>8 DEF N

\* Every place is that of an element, as there are as many of both.
LEMMA PlacesAreTaken ==
    ASSUME NEW n \in Nat, NEW ids, DOMAIN ids = 1..n, \A i \in 1..n : ids[i] \in Int
    PROVE  \A k \in 1..n : \E i \in 1..n : Place(ids, i) = k
<1> DEFINE N == 1..n
           f == [i \in N |-> Place(ids, i)]
<1>1. IsFiniteSet(N)
  BY FS_Interval
<1>2. f \in Injection(N, N)
  BY PlacesAreDistinct DEF Injection, IsInjective
<1> HIDE DEF f, N
<1>3. f \in Surjection(N, N)
  BY <1>1, <1>2, FS_Injection
<1> QED BY <1>3 DEF Surjection, f, N

\* util::order_by_serial_ids rearranges: nothing is lost, nothing is repeated.
LEMMA OrderingWeighs ==
    ASSUME NEW E, NEW m \in [E -> Int], NEW s \in Seq(E), NEW ids, DOMAIN ids = DOMAIN s,
           \A i \in DOMAIN s : ids[i] \in Int
    PROVE  /\ OrderBySerialIds(s, ids) \in Seq(E)
           /\ Len(OrderBySerialIds(s, ids)) = Len(s)
           /\ Weigh(m, OrderBySerialIds(s, ids)) = Weigh(m, s)
<1> DEFINE n == Len(s)
           N == 1..n
           pi == [k \in N |-> CHOOSE i \in N : Place(ids, i) = k]
           r == OrderBySerialIds(s, ids)
           v == [i \in N |-> m[s[i]]]
           w == [k \in N |-> v[pi[k]]]
<1>1. n \in Nat /\ DOMAIN s = N /\ DOMAIN ids = N /\ IsFiniteSet(N) /\ \A i \in N : ids[i] \in Int
  BY FS_Interval
<1>2. \A i \in N : s[i] \in E /\ v[i] = m[s[i]] /\ v[i] \in Int
  OBVIOUS
<1>3. r = [k \in N |-> s[pi[k]]]
  BY <1>1 DEF OrderBySerialIds
<1>4. \A k \in N : pi[k] \in N /\ Place(ids, pi[k]) = k
  <2>1. \A k \in N : \E i \in N : Place(ids, i) = k
    BY <1>1, <1>2, PlacesAreTaken
  <2> QED BY <2>1
<1>5. \A i, j \in N : pi[i] = pi[j] => i = j
  <2> HIDE DEF pi
  <2> QED BY <1>4, Zenon
<1>6. N = {pi[i] : i \in N}
  <2>1. \A i \in N : Place(ids, i) \in N
    BY <1>1, PlacesAreDistinct
  <2>2. \A i, j \in N : Place(ids, i) = Place(ids, j) => i = j
    BY <1>1, PlacesAreDistinct
  <2> HIDE DEF pi, N
  <2>3. \A i \in N : i = pi[Place(ids, i)]
    BY <1>4, <2>1, <2>2
  <2> QED BY <1>4, <2>1, <2>3
<1>7. r \in Seq(E) /\ Len(r) = n /\ DOMAIN r = N
  <2>1. \A k \in N : s[pi[k]] \in E
    BY <1>2, <1>4
  <2> HIDE DEF pi
  <2> QED BY <1>1, <1>3, <2>1
<1>8. pi \in [N -> N]
  BY <1>4
<1>9. SumOf(w, N) = SumOf(v, N)
  <2> HIDE DEF pi, v, N
  <2>1. \A i \in N : v[i] \in Int
    BY <1>2
  <2>2. OneToOne(pi, N, N)
    BY <1>5, <1>6, <1>8 DEF OneToOne
  <2>3. IsFiniteSet(N)
    BY <1>1
  <2>4. SumOf([k \in N |-> v[pi[k]]], N) = SumOf(v, N)
    BY ONLY <2>1, <2>2, <2>3, SumPermuted
  <2> QED BY ONLY <2>4
<1>10. Weigh(m, s) = SumOf(v, N)
  BY <1>1, WeighIsSum
<1>11. Weigh(m, r) = SumOf(w, N)
  <2>1. Weigh(m, r) = SumOf([k \in N |-> m[r[k]]], N)
    <3> HIDE DEF r, N
    <3> QED BY <1>7, WeighIsSum
  <2>2. \A k \in N : m[r[k]] = w[k]
    <3> HIDE DEF pi, r
    <3> QED BY <1>2, <1>3, <1>4
  <2>3. [k \in N |-> m[r[k]]] = w
    <3> HIDE DEF r, pi, v
    <3> QED BY <2>2
  <2> HIDE DEF w, N, r, pi, v
  <2> QED BY <2>1, <2>3, Zenon
<1> HIDE DEF r, w, v, N, n
<1> QED BY <1>7, <1>9, <1>10, <1>11 DEF r, n

\* A sequence with elements has a last one.
LEMMA SplitLast ==
    ASSUME NEW E, NEW r \in Seq(E), r # <<>>
    PROVE  \E f \in Seq(E) : \E e \in E : r = Append(f, e)
<1> DEFINE n == Len(r) - 1
           f == [i \in 1..n |-> r[i]]
           e == r[n + 1]
<1>0. n \in Nat /\ Len(r) = n + 1
  OBVIOUS
<1> HIDE DEF n
<1>1. f \in Seq(E) /\ Len(f) = n /\ e \in E
  BY <1>0
<1>2. Append(f, e) \in Seq(E) /\ Len(Append(f, e)) = n + 1
  BY <1>0, <1>1
<1>3. \A i \in 1..(n + 1) : Append(f, e)[i] = r[i]
  BY <1>0, <1>1
<1> HIDE DEF f, e
<1>4. r = Append(f, e)
  BY <1>0, <1>2, <1>3, SameSeq
<1> QED BY <1>1, <1>4

AddsUp(m, v, w, E) ==
    /\ m \in [E -> Int] /\ v \in [E -> Int] /\ w \in [E -> Int]
    /\ \A e \in E : m[e] = v[e] + w[e]
\* A measure that is the sum of two weighs the sum of both.
LEMMA WeighAdds ==
    ASSUME NEW E, NEW m, NEW v, NEW w, AddsUp(m, v, w, E), NEW s \in Seq(E)
    PROVE  Weigh(m, s) = Weigh(v, s) + Weigh(w, s)
<1>0. /\ m \in [E -> Int] /\ v \in [E -> Int] /\ w \in [E -> Int]
      /\ \A e \in E : m[e] = v[e] + w[e]
  BY DEF AddsUp
<1> DEFINE Right(r) == Weigh(m, r) = Weigh(v, r) + Weigh(w, r)
           T == {n \in Nat : \A r \in Seq(E) : Len(r) = n => Right(r)}
<1>1. 0 \in T
  <2> SUFFICES ASSUME NEW r \in Seq(E), Len(r) = 0 PROVE Right(r)
    OBVIOUS
  <2>1. r = <<>>
    OBVIOUS
  <2>2. Weigh(m, <<>>) = 0 /\ Weigh(v, <<>>) = 0 /\ Weigh(w, <<>>) = 0
    BY WeighEmpty
  <2> QED BY <2>1, <2>2
<1>2. ASSUME NEW n \in Nat, n \in T PROVE n + 1 \in T
  <2> SUFFICES ASSUME NEW r \in Seq(E), Len(r) = n + 1 PROVE Right(r)
    OBVIOUS
  <2>0. r # <<>>
    OBVIOUS
  <2>9. PICK f \in Seq(E) : \E e \in E : r = Append(f, e)
    BY <2>0, SplitLast, Zenon
  <2>8. PICK e \in E : r = Append(f, e)
    BY <2>9
  <2>1. f \in Seq(E) /\ e \in E /\ Len(f) = n /\ r = Append(f, e)
    BY <2>8
  <2>2. Right(f)
    BY <1>2, <2>1
  <2>3. /\ Weigh(m, Append(f, e)) = Weigh(m, f) + m[e]
        /\ Weigh(v, Append(f, e)) = Weigh(v, f) + v[e]
        /\ Weigh(w, Append(f, e)) = Weigh(w, f) + w[e]
    BY <1>0, <2>1, WeighAppend
  <2>4. Weigh(v, f) \in Int /\ Weigh(w, f) \in Int /\ v[e] \in Int /\ w[e] \in Int /\ m[e] = v[e] + w[e]
    BY <1>0, <2>1, WeighType
  <2> QED BY <2>1, <2>2, <2>3, <2>4
<1>3. \A n \in Nat : n \in T
  <2> HIDE DEF T
  <2> QED BY <1>1, <1>2, Induction
<1> QED BY <1>3

\* What weighs something has an element that does.
LEMMA SomeWeight ==
    ASSUME NEW E, NEW m \in [E -> Int], NEW s \in Seq(E), Weigh(m, s) # 0
    PROVE  \E i \in 1..Len(s) : m[s[i]] # 0
<1> DEFINE Weightless(r) == \A i \in 1..Len(r) : m[r[i]] = 0
           T == {n \in Nat : \A r \in Seq(E) : Len(r) = n /\ Weightless(r) => Weigh(m, r) = 0}
<1>1. 0 \in T
  <2> SUFFICES ASSUME NEW r \in Seq(E), Len(r) = 0 PROVE Weigh(m, r) = 0
    OBVIOUS
  <2>1. r = <<>>
    OBVIOUS
  <2> QED BY <2>1, WeighEmpty
<1>2. ASSUME NEW n \in Nat, n \in T PROVE n + 1 \in T
  <2> SUFFICES ASSUME NEW r \in Seq(E), Len(r) = n + 1, Weightless(r) PROVE Weigh(m, r) = 0
    OBVIOUS
  <2>0. r # <<>>
    OBVIOUS
  <2>9. PICK f \in Seq(E) : \E e \in E : r = Append(f, e)
    BY <2>0, SplitLast, Zenon
  <2>8. PICK e \in E : r = Append(f, e)
    BY <2>9
  <2>1. f \in Seq(E) /\ e \in E /\ Len(f) = n /\ r = Append(f, e)
    BY <2>8
  <2>2. m[e] = 0 /\ Weightless(f)
    BY <2>1
  <2> HIDE DEF Weightless
  <2>3. Weigh(m, f) = 0
    BY <1>2, <2>1, <2>2
  <2>4. Weigh(m, Append(f, e)) = Weigh(m, f) + m[e]
    BY <2>1, WeighAppend
  <2> QED BY <2>1, <2>2, <2>3, <2>4
<1>3. \A n \in Nat : n \in T
  <2> HIDE DEF T
  <2> QED BY <1>1, <1>2, Induction
<1>4. Weightless(s) => Weigh(m, s) = 0
  BY <1>3
<1> QED BY <1>4

-----------------------------------------------------------------------------
(***************************************************************************)
(* Inputs and fees.                                                        *)
(***************************************************************************)
CoinValue == [c \in Coins |-> c.value]
CoinWeight == [c \in Coins |-> TX_INPUT_BASE_WEIGHT + c.witness]

\* Values and weights of coins are integers.
LEMMA CoinsWeigh == CoinValue \in [Coins -> Int] /\ CoinWeight \in [Coins -> Int]
  BY DEF CoinValue, CoinWeight, Coins, Amount, TX_INPUT_BASE_WEIGHT

\* The totals of the construction are weights of the sequence of coins.
LEMMA CoinTotals ==
    ASSUME NEW s \in Seq(Coins)
    PROVE  /\ ValueOf(s) = Weigh(CoinValue, s)
           /\ Total([i \in DOMAIN s |-> TX_INPUT_BASE_WEIGHT + s[i].witness]) = Weigh(CoinWeight, s)
           /\ Weigh(CoinValue, s) \in Int /\ Weigh(CoinWeight, s) \in Int
<1>1. \A i \in DOMAIN s : s[i] \in Coins
  OBVIOUS
<1>2. [i \in DOMAIN s |-> s[i].value] = [i \in DOMAIN s |-> CoinValue[s[i]]]
  BY <1>1 DEF CoinValue
<1>3. [i \in DOMAIN s |-> TX_INPUT_BASE_WEIGHT + s[i].witness] = [i \in DOMAIN s |-> CoinWeight[s[i]]]
  BY <1>1 DEF CoinWeight
<1>4. Weigh(CoinValue, s) \in Int /\ Weigh(CoinWeight, s) \in Int
  BY CoinsWeigh, WeighType
<1>5. ValueOf(s) = Weigh(CoinValue, s)
  BY <1>2 DEF ValueOf, Weigh
<1>6. Total([i \in DOMAIN s |-> TX_INPUT_BASE_WEIGHT + s[i].witness]) = Weigh(CoinWeight, s)
  BY <1>3 DEF Weigh
<1> QED BY <1>4, <1>5, <1>6

\* The inputs of the funding transaction are those the amounts were counted with.
LEMMA InputsAreCounted ==
    ASSUME NEW t, ValidTerms(t), NEW p \in Parties
    PROVE  /\ Inputs(t, p) \in Seq(Coins)
           /\ t[p].inputs \in Seq(Coins)
           /\ Weigh(CoinValue, Inputs(t, p)) = InputAmount(t, p)
<1> DEFINE coins == t[p].inputs
           Own == {coins[i] : i \in DOMAIN coins}
           Small == {c \in Own : c.witness <= P2WPKH_WITNESS_SIZE}
           Large == {c \in Own : c.dlc}
           val == [c \in Own |-> CoinValue[c]]
<1>1. coins \in Seq(Coins) /\ coins \in Seq(Own) /\ (\A e \in Own : e \in Coins)
  <2>1. coins \in Seq(Coins)
    BY DEF ValidTerms
  <2> HIDE DEF coins
  <2> QED BY <2>1
<1>2. InputAmount(t, p) = Weigh(CoinValue, coins)
  BY <1>1, CoinTotals DEF InputAmount
<1>3. CASE ~IsSpliced(t)
  BY <1>1, <1>2, <1>3 DEF Inputs
<1>4. CASE IsSpliced(t)
  <2> DEFINE Plain == Parts(coins, Small)
             Dlc == Parts(coins, Large)
  <2>1. \A e \in Own : e \in Large <=> e \notin Small
    <3>1. \A i \in DOMAIN coins : coins[i].dlc = (coins[i].witness > P2WPKH_WITNESS_SIZE)
      BY <1>4 DEF ValidTerms
    <3>2. ASSUME NEW i \in DOMAIN coins PROVE coins[i].witness \in Nat /\ coins[i].dlc \in BOOLEAN
      <4>1. coins[i] \in Coins
        BY <1>1
      <4> QED BY ONLY <4>1 DEF Coins
    <3>3. \A i \in DOMAIN coins : coins[i].dlc <=> ~(coins[i].witness <= P2WPKH_WITNESS_SIZE)
      <4>1. P2WPKH_WITNESS_SIZE \in Nat
        BY DEF P2WPKH_WITNESS_SIZE
      <4> HIDE DEF coins
      <4> QED BY ONLY <3>1, <3>2, <4>1
    <3>4. ASSUME NEW e \in Own PROVE e \in Large <=> e \notin Small
      <4>1. PICK i \in DOMAIN coins : e = coins[i]
        OBVIOUS
      <4>2. e.dlc <=> ~(e.witness <= P2WPKH_WITNESS_SIZE)
        BY <3>3, <4>1
      <4>3. (e \in Large <=> e.dlc) /\ (e \in Small <=> e.witness <= P2WPKH_WITNESS_SIZE)
        BY <3>4
      <4> QED BY ONLY <4>2, <4>3
    <3> HIDE DEF Own, Large, Small
    <3> QED BY ONLY <3>4
  <2>2. Inputs(t, p) = Keep(coins, Small) \o Keep(coins, Large)
    <3>1. \A i \in DOMAIN coins : coins[i] \in Own /\ (coins[i] \in Small <=> coins[i].witness <= P2WPKH_WITNESS_SIZE)
                                         /\ (coins[i] \in Large <=> coins[i].dlc)
      OBVIOUS
    <3> HIDE DEF Small, Large, Own
    <3>2. /\ Plain = [i \in DOMAIN coins |-> IF coins[i].witness <= P2WPKH_WITNESS_SIZE THEN <<coins[i]>> ELSE <<>>]
          /\ Dlc = [i \in DOMAIN coins |-> IF coins[i].dlc THEN <<coins[i]>> ELSE <<>>]
      BY <3>1 DEF Parts
    <3>3. Inputs(t, p) = FlattenSeq(Plain) \o FlattenSeq(Dlc)
      BY <1>4, <3>2, Zenon DEF Inputs, Retain
    <3> QED BY <3>3 DEF Keep
  <2>3. val \in [Own -> Int] /\ CoinValue \in [Coins -> Int]
    BY <1>1, CoinsWeigh
  <2>4. /\ Keep(coins, Small) \in Seq(Kept(Own, Small)) /\ Weigh(val, Keep(coins, Small)) = Weigh(Only(val, Own, Small), coins)
        /\ Keep(coins, Large) \in Seq(Kept(Own, Large)) /\ Weigh(val, Keep(coins, Large)) = Weigh(Only(val, Own, Large), coins)
    <3> HIDE DEF Own, Small, Large, val, coins
    <3>3. coins \in Seq(Own) /\ val \in [Own -> Int]
      BY <1>1, <2>3
    <3>1. Keep(coins, Small) \in Seq(Kept(Own, Small)) /\ Weigh(val, Keep(coins, Small)) = Weigh(Only(val, Own, Small), coins)
      BY <3>3, KeepWeighs
    <3>2. Keep(coins, Large) \in Seq(Kept(Own, Large)) /\ Weigh(val, Keep(coins, Large)) = Weigh(Only(val, Own, Large), coins)
      BY <3>3, KeepWeighs
    <3> QED BY <3>1, <3>2
  <2>5. \A S \in {Small, Large} : \A r \in Seq(Kept(Own, S)) : r \in Seq(Own) /\ r \in Seq(Coins)
    BY <1>1 DEF Kept
  <2>6. Weigh(val, coins) = Weigh(Only(val, Own, Small), coins) + Weigh(Only(val, Own, Large), coins)
    <3>1. Only(val, Own, Small) \in [Own -> Int] /\ Only(val, Own, Large) \in [Own -> Int]
      BY <2>3 DEF Only
    <3>2. AddsUp(val, Only(val, Own, Small), Only(val, Own, Large), Own)
      <4> SUFFICES ASSUME NEW e \in Own PROVE val[e] = Only(val, Own, Small)[e] + Only(val, Own, Large)[e]
        BY <2>3, <3>1 DEF AddsUp
      <4>1. val[e] \in Int /\ (e \in Large <=> e \notin Small)
        BY <2>1, <2>3
      <4>2. Only(val, Own, Small)[e] = (IF e \in Small THEN val[e] ELSE 0) /\ Only(val, Own, Large)[e] = (IF e \in Large THEN val[e] ELSE 0)
        BY DEF Only
      <4> HIDE DEF val, Small, Large, Own
      <4> QED BY <4>1, <4>2
    <3> HIDE DEF Own, Small, Large, val, coins
    <3>3. coins \in Seq(Own) /\ val \in [Own -> Int]
      BY <1>1, <2>3
    <3> DEFINE uu == Only(val, Own, Small)
               ww == Only(val, Own, Large)
    <3> HIDE DEF uu, ww
    <3>4. uu \in [Own -> Int] /\ ww \in [Own -> Int] /\ AddsUp(val, uu, ww, Own)
      BY <3>1, <3>2 DEF uu, ww
    <3>5. Weigh(val, coins) = Weigh(uu, coins) + Weigh(ww, coins)
      BY <3>3, <3>4, WeighAdds
    <3> QED BY <3>5 DEF uu, ww
  <2> HIDE DEF Small, Large
  <2>7. Weigh(val, Keep(coins, Small) \o Keep(coins, Large)) = Weigh(val, coins)
    <3> HIDE DEF Own, val, coins
    <3>1. Keep(coins, Small) \in Seq(Own) /\ Keep(coins, Large) \in Seq(Own)
      BY <2>4, <2>5
    <3>2. Weigh(val, Keep(coins, Small) \o Keep(coins, Large)) = Weigh(val, Keep(coins, Small)) + Weigh(val, Keep(coins, Large))
      BY <2>3, <3>1, WeighConcat
    <3> QED BY <2>4, <2>6, <3>2
  <2>8. \A r \in Seq(Own) : Weigh(val, r) = Weigh(CoinValue, r)
    <3> SUFFICES ASSUME NEW r \in Seq(Own) PROVE Weigh(val, r) = Weigh(CoinValue, r)
      OBVIOUS
    <3>1. [i \in DOMAIN r |-> val[r[i]]] = [i \in DOMAIN r |-> CoinValue[r[i]]]
      OBVIOUS
    <3> QED BY <3>1 DEF Weigh
  <2>9. Keep(coins, Small) \o Keep(coins, Large) \in Seq(Own) /\ Keep(coins, Small) \o Keep(coins, Large) \in Seq(Coins)
    <3> HIDE DEF Own, coins
    <3>1. Keep(coins, Small) \in Seq(Own) /\ Keep(coins, Large) \in Seq(Own) /\ Keep(coins, Small) \in Seq(Coins) /\ Keep(coins, Large) \in Seq(Coins)
      BY <2>4, <2>5
    <3> QED BY <3>1
  <2> QED BY <1>1, <1>2, <2>2, <2>7, <2>8, <2>9
<1> QED BY <1>3, <1>4

-----------------------------------------------------------------------------
(***************************************************************************)
(* Outputs.                                                                *)
(***************************************************************************)
Owners == {"fund", "buffer", "offer", "accept"}
Outs == [owner : Owners, value : Int, spk : Int]
Big == {o \in Outs : o.value >= DUST_LIMIT}

OutValue == [o \in Outs |-> o.value]
OutWeight == [o \in Outs |-> 4 * (9 + o.spk)]
OwnValue(p) == [o \in Outs |-> IF o.owner = p THEN o.value ELSE 0]
IsOfFund == [o \in Outs |-> IF o.owner = "fund" THEN 1 ELSE 0]

\* What an output adds to a measure, when it is not discarded.
IfKept(m, o) == IF o.value >= DUST_LIMIT THEN m[o] ELSE 0

\* The measures of outputs that are used below are integers.
LEMMA OutsWeigh ==
    /\ OutValue \in [Outs -> Int] /\ OutWeight \in [Outs -> Int] /\ IsOfFund \in [Outs -> Int]
    /\ \A p : OwnValue(p) \in [Outs -> Int]
  BY DEF OutValue, OutWeight, IsOfFund, OwnValue, Outs

\* The fields of an output.
LEMMA OutFields ==
    ASSUME NEW owner \in Owners, NEW value \in Int, NEW spk \in Int
    PROVE  /\ Out(owner, value, spk) \in Outs
           /\ Out(owner, value, spk).owner = owner
           /\ Out(owner, value, spk).value = value
           /\ Out(owner, value, spk).spk = spk
  BY DEF Out, Outs

\* discard_dust keeps the outputs that are not dust.
LEMMA DiscardKeepsBig ==
    ASSUME NEW s \in Seq(Outs)
    PROVE  DiscardDust(s) = Keep(s, Big)
<1>1. \A i \in DOMAIN s : s[i] \in Big <=> s[i].value >= DUST_LIMIT
  BY DEF Big
<1>2. Parts(s, Big) = [i \in DOMAIN s |-> IF s[i].value >= DUST_LIMIT THEN <<s[i]>> ELSE <<>>]
  BY <1>1 DEF Parts
<1> QED BY <1>2, Zenon DEF DiscardDust, Retain, Keep

IsMeasure(m, E) == m \in [E -> Int]

\* Measuring only the outputs that are not dust is a measure.
LEMMA BigOnly ==
    ASSUME NEW m, IsMeasure(m, Outs)
    PROVE  /\ IsMeasure(Only(m, Outs, Big), Outs)
           /\ \A o \in Outs : Only(m, Outs, Big)[o] = IfKept(m, o) /\ IfKept(m, o) \in Int
  BY DEF IsMeasure, Only, IfKept, Big

\* What is discarded no longer counts, and nothing else changes.
LEMMA DiscardWeighs ==
    ASSUME NEW m, IsMeasure(m, Outs), NEW s \in Seq(Outs)
    PROVE  /\ DiscardDust(s) \in Seq(Outs)
           /\ \A E : s \in Seq(E) => DiscardDust(s) \in Seq(E)
           /\ Weigh(m, DiscardDust(s)) = Weigh(Only(m, Outs, Big), s)
           /\ Weigh(m, DiscardDust(s)) \in Int
<1>1. DiscardDust(s) = Keep(s, Big)
  BY DiscardKeepsBig
<1>2. \A E : s \in Seq(E) => DiscardDust(s) \in Seq(E)
  <2> SUFFICES ASSUME NEW E, s \in Seq(E) PROVE DiscardDust(s) \in Seq(E)
    OBVIOUS
  <2>1. [e \in E |-> 0] \in [E -> Int]
    OBVIOUS
  <2>2. Keep(s, Big) \in Seq(Kept(E, Big))
    BY <2>1, KeepWeighs
  <2> QED BY <1>1, <2>2 DEF Kept
<1>3. Weigh(m, DiscardDust(s)) = Weigh(Only(m, Outs, Big), s)
  BY <1>1, KeepWeighs DEF IsMeasure
<1>4. DiscardDust(s) \in Seq(Outs)
  BY <1>2
<1>5. Weigh(m, DiscardDust(s)) \in Int
  BY <1>4, WeighType DEF IsMeasure
<1> QED BY <1>2, <1>3, <1>4, <1>5

\* Two outputs, ordered or not, without those that are dust.
LEMMA PairWeighs ==
    ASSUME NEW m, IsMeasure(m, Outs), NEW a \in Outs, NEW b \in Outs, NEW j \in Int, NEW k \in Int
    PROVE  /\ DiscardDust(<<a, b>>) \in Seq(Outs)
           /\ Weigh(m, DiscardDust(<<a, b>>)) = IfKept(m, a) + IfKept(m, b)
           /\ DiscardDust(OrderBySerialIds(<<a, b>>, <<j, k>>)) \in Seq(Outs)
           /\ Weigh(m, DiscardDust(OrderBySerialIds(<<a, b>>, <<j, k>>))) = IfKept(m, a) + IfKept(m, b)
<1> DEFINE s == <<a, b>>
           ids == <<j, k>>
           w == Only(m, Outs, Big)
<1>1. s \in Seq(Outs) /\ DOMAIN ids = DOMAIN s /\ \A i \in DOMAIN s : ids[i] \in Int
  OBVIOUS
<1>2. w \in [Outs -> Int] /\ w[a] = IfKept(m, a) /\ w[b] = IfKept(m, b)
  BY BigOnly DEF IsMeasure
<1> HIDE DEF w
<1>3. Weigh(w, s) = IfKept(m, a) + IfKept(m, b)
  <2>2. Weigh(w, <<a, b>>) = w[a] + w[b]
    BY <1>2, WeighTwo
  <2> QED BY <1>2, <2>2 DEF s
<1> HIDE DEF s, ids
<1>4. OrderBySerialIds(s, ids) \in Seq(Outs) /\ Weigh(w, OrderBySerialIds(s, ids)) = Weigh(w, s)
  BY <1>1, <1>2, OrderingWeighs
<1>5. /\ DiscardDust(s) \in Seq(Outs)
      /\ Weigh(m, DiscardDust(s)) = Weigh(w, s)
      /\ DiscardDust(OrderBySerialIds(s, ids)) \in Seq(Outs)
      /\ Weigh(m, DiscardDust(OrderBySerialIds(s, ids))) = Weigh(w, OrderBySerialIds(s, ids))
  BY <1>1, <1>4, DiscardWeighs DEF w
<1> QED BY <1>3, <1>4, <1>5 DEF s, ids

AnyOf(a, b, c) == {a, b, c}
\* Three outputs, ordered, without those that are dust.
LEMMA TripleWeighs ==
    ASSUME NEW m, IsMeasure(m, Outs), NEW a \in Outs, NEW b \in Outs, NEW c \in Outs,
           NEW i \in Int, NEW j \in Int, NEW k \in Int, NEW r,
           r = DiscardDust(OrderBySerialIds(<<a, b, c>>, <<i, j, k>>))
    PROVE  /\ r \in Seq(Outs) /\ r \in Seq(AnyOf(a, b, c))
           /\ Weigh(m, r) = IfKept(m, a) + IfKept(m, b) + IfKept(m, c)
<1> DEFINE s == <<a, b, c>>
           ids == <<i, j, k>>
           w == Only(m, Outs, Big)
           E == AnyOf(a, b, c)
<1>1. /\ s \in Seq(Outs) /\ s \in Seq(E) /\ DOMAIN ids = DOMAIN s
      /\ \A l \in DOMAIN s : ids[l] \in Int
  BY DEF AnyOf
<1>2. w \in [Outs -> Int] /\ w[a] = IfKept(m, a) /\ w[b] = IfKept(m, b) /\ w[c] = IfKept(m, c)
  BY BigOnly DEF IsMeasure
<1> HIDE DEF w
<1>3. Weigh(w, s) = IfKept(m, a) + IfKept(m, b) + IfKept(m, c)
  <2>2. Weigh(w, <<a, b, c>>) = w[a] + w[b] + w[c]
    <3>1. w \in [Outs -> Int]
      BY <1>2
    <3> QED BY <3>1, WeighThree
  <2> QED BY <1>2, <2>2 DEF s
<1>6. r = DiscardDust(OrderBySerialIds(s, ids))
  OBVIOUS
<1> HIDE DEF s, ids, E
<1>4. OrderBySerialIds(s, ids) \in Seq(Outs) /\ Weigh(w, OrderBySerialIds(s, ids)) = Weigh(w, s)
  BY <1>1, <1>2, OrderingWeighs
<1>5. OrderBySerialIds(s, ids) \in Seq(E)
  <2>1. [e \in E |-> 0] \in [E -> Int]
    OBVIOUS
  <2> QED BY <1>1, <2>1, OrderingWeighs
<1>7. r \in Seq(Outs) /\ r \in Seq(E) /\ Weigh(m, r) = Weigh(w, s)
  BY <1>4, <1>5, <1>6, DiscardWeighs DEF w
<1> QED BY <1>3, <1>7 DEF E

-----------------------------------------------------------------------------
(***************************************************************************)
(* Fees and sizes.                                                         *)
(***************************************************************************)
LEMMA MoreBytesPayMore ==
    ASSUME NEW r \in Nat, NEW x \in Int, NEW y \in Int, x >= y
    PROVE  x * r >= r * y
<1>1. (x - y) * r >= 0
  OBVIOUS
<1>2. (x - y) * r = x * r - r * y
  OBVIOUS
<1> QED BY <1>1, <1>2

\* The rate that one transaction pays, and two of them together.
LEMMA TwoRates ==
    ASSUME NEW a, NEW b, NEW r \in Nat, FeeOf(a) \in Int, FeeOf(b) \in Int,
           VirtualSize(a) \in Int, VirtualSize(b) \in Int
    PROVE  /\ PaysRate(<<>>, r)
           /\ PaysRate(<<a>>, r) <=> FeeOf(a) >= r * VirtualSize(a)
           /\ PaysRate(<<a, b>>, r) <=>
                FeeOf(a) + FeeOf(b) >= r * (VirtualSize(a) + VirtualSize(b))
<1> DEFINE Fees(txs) == [i \in DOMAIN txs |-> FeeOf(txs[i])]
           Sizes(txs) == [i \in DOMAIN txs |-> VirtualSize(txs[i])]
<1>1. Total(Fees(<<>>)) = 0 /\ Total(Sizes(<<>>)) = 0
  <2>1. DOMAIN Fees(<<>>) = 1..0 /\ DOMAIN Sizes(<<>>) = 1..0
    OBVIOUS
  <2> HIDE DEF Fees, Sizes
  <2>2. \A i \in 1..0 : FALSE
    OBVIOUS
  <2> QED BY <2>1, <2>2, ShortTotal
<1>2. Total(Fees(<<a>>)) = FeeOf(a) /\ Total(Sizes(<<a>>)) = VirtualSize(a)
  <2>1. /\ DOMAIN Fees(<<a>>) = 1..1 /\ Fees(<<a>>)[1] = FeeOf(a)
        /\ DOMAIN Sizes(<<a>>) = 1..1 /\ Sizes(<<a>>)[1] = VirtualSize(a)
    OBVIOUS
  <2> HIDE DEF Fees, Sizes
  <2>2. \A i \in 1..1 : Fees(<<a>>)[i] \in Int /\ Sizes(<<a>>)[i] \in Int
    BY <2>1
  <2> QED BY <2>1, <2>2, ShortTotal
<1>3. /\ Total(Fees(<<a, b>>)) = FeeOf(a) + FeeOf(b)
      /\ Total(Sizes(<<a, b>>)) = VirtualSize(a) + VirtualSize(b)
  <2>1. /\ DOMAIN Fees(<<a, b>>) = 1..2 /\ Fees(<<a, b>>)[1] = FeeOf(a) /\ Fees(<<a, b>>)[2] = FeeOf(b)
        /\ DOMAIN Sizes(<<a, b>>) = 1..2
        /\ Sizes(<<a, b>>)[1] = VirtualSize(a) /\ Sizes(<<a, b>>)[2] = VirtualSize(b)
    OBVIOUS
  <2> HIDE DEF Fees, Sizes
  <2>2. \A i \in 1..2 : Fees(<<a, b>>)[i] \in Int /\ Sizes(<<a, b>>)[i] \in Int
    BY <2>1
  <2> QED BY <2>1, <2>2, ShortTotal
<1>4. \A txs : PaysRate(txs, r) <=> Total(Fees(txs)) >= r * Total(Sizes(txs))
  BY DEF PaysRate
<1> HIDE DEF Fees, Sizes
<1> QED BY <1>1, <1>2, <1>3, <1>4

\* What a transaction with one input pays, and how large it is.
SpendsOne(tx, value, witness, outputs) ==
    /\ value \in Int /\ witness \in Int
    /\ \E kind, vout : tx = Tx(kind, <<Spend(vout, value, witness)>>, outputs)
PaysAsOne(tx, value, witness, outputs) ==
    /\ FeeOf(tx) = value - Weigh(OutValue, outputs) /\ FeeOf(tx) \in Int
    /\ VirtualSize(tx) = (42 + (TX_INPUT_BASE_WEIGHT + witness) + Weigh(OutWeight, outputs) + 3) \div 4
    /\ VirtualSize(tx) \in Int
    /\ Weigh(OutWeight, outputs) \in Int /\ Weigh(OutValue, outputs) \in Int
\* The fee and the size of a transaction with one input.
LEMMA SingleInput ==
    ASSUME NEW value, NEW witness, NEW outputs \in Seq(Outs), NEW tx,
           SpendsOne(tx, value, witness, outputs)
    PROVE  PaysAsOne(tx, value, witness, outputs)
<1>0. PICK kind, vout : tx = Tx(kind, <<Spend(vout, value, witness)>>, outputs)
  BY DEF SpendsOne
<1>9. value \in Int /\ witness \in Int
  BY DEF SpendsOne
<1> DEFINE input == Spend(vout, value, witness)
           values == [i \in DOMAIN <<input>> |-> <<input>>[i].value]
           weights == [i \in DOMAIN <<input>> |-> TX_INPUT_BASE_WEIGHT + <<input>>[i].witness]
<1>1. tx.inputs = <<input>> /\ tx.outputs = outputs
  BY <1>0 DEF Tx
<1>2. input.value = value /\ input.witness = witness
  BY DEF Spend
<1>3. Total(values) = value /\ Total(weights) = TX_INPUT_BASE_WEIGHT + witness
  <2>1. /\ DOMAIN values = 1..1 /\ values[1] = value
        /\ DOMAIN weights = 1..1 /\ weights[1] = TX_INPUT_BASE_WEIGHT + witness
    BY <1>2
  <2>2. \A i \in 1..1 : values[i] \in Int /\ weights[i] \in Int
    BY <1>9, <2>1 DEF TX_INPUT_BASE_WEIGHT
  <2> HIDE DEF values, weights
  <2> QED BY <2>1, <2>2, ShortTotal
<1>4. /\ [i \in DOMAIN outputs |-> outputs[i].value] = [i \in DOMAIN outputs |-> OutValue[outputs[i]]]
      /\ [i \in DOMAIN outputs |-> 4 * (9 + outputs[i].spk)] = [i \in DOMAIN outputs |-> OutWeight[outputs[i]]]
  <2>1. \A i \in DOMAIN outputs : outputs[i] \in Outs
    OBVIOUS
  <2> QED BY <2>1 DEF OutValue, OutWeight
<1>5. /\ Total([i \in DOMAIN outputs |-> outputs[i].value]) = Weigh(OutValue, outputs)
      /\ Total([i \in DOMAIN outputs |-> 4 * (9 + outputs[i].spk)]) = Weigh(OutWeight, outputs)
  BY <1>4 DEF Weigh
<1>6. Weigh(OutWeight, outputs) \in Int /\ Weigh(OutValue, outputs) \in Int
  BY OutsWeigh, WeighType
<1>7. FeeOf(tx) = Total(values) - Weigh(OutValue, outputs)
  BY <1>1, <1>5 DEF FeeOf, ValueOf
<1>8. VirtualSize(tx) = (42 + Total(weights) + Weigh(OutWeight, outputs) + 3) \div 4
  BY <1>1, <1>5 DEF VirtualSize
<1> HIDE DEF values, weights
<1> QED BY <1>3, <1>6, <1>7, <1>8, <1>9 DEF TX_INPUT_BASE_WEIGHT, PaysAsOne

-----------------------------------------------------------------------------
(***************************************************************************)
(* The funding transaction.                                                *)
(***************************************************************************)
LEMMA TermTypes ==
    ASSUME NEW t, ValidTerms(t), NEW p \in Parties
    PROVE  /\ t.rate \in Nat /\ t[p].collateral \in Nat
           /\ TotalCollateral(t) = t["offer"].collateral + t["accept"].collateral
           /\ t.offer = t["offer"] /\ t.accept = t["accept"]
           /\ t["offer"].collateral \in Nat /\ t["accept"].collateral \in Nat
           /\ TotalCollateral(t) \in Nat /\ TotalCollateral(t) >= 1000
           /\ t[p].changeSerial \in Int /\ t[p].payoutSerial \in Int /\ t.fundSerial \in Int
<1>1. t.offer = t["offer"] /\ t.accept = t["accept"]
  OBVIOUS
<1>2. "offer" \in Parties /\ "accept" \in Parties
  BY DEF Parties
<1>3. t["offer"].collateral \in Nat /\ t["accept"].collateral \in Nat
  BY <1>2 DEF ValidTerms, Amount
<1>4. t.rate \in Nat /\ t.fundSerial \in Nat /\ TotalCollateral(t) >= 1000
  BY DEF ValidTerms, DUST_LIMIT
<1>5. t[p].collateral \in Nat /\ t[p].changeSerial \in Nat /\ t[p].payoutSerial \in Nat
  BY DEF ValidTerms, Amount
<1>6. TotalCollateral(t) = t["offer"].collateral + t["accept"].collateral
  BY <1>1 DEF TotalCollateral
<1> QED BY <1>1, <1>3, <1>4, <1>5, <1>6

\* The amounts of the terms are integers; the change of a party that pays is no debt.
LEMMA FeeTypes ==
    ASSUME NEW t, ValidTerms(t), NEW p \in Parties
    PROVE  /\ InputAmount(t, p) \in Int /\ FundFee(t, p) \in Int /\ CetFee(t, p) \in Nat
           /\ ExtraFee(t) \in Nat /\ RequiredFunds(t, p) \in Int /\ Change(t, p) \in Int
           /\ Pays(t, p) => Change(t, p) \in Nat
<1>1. InputAmount(t, p) \in Int
  BY InputsAreCounted, CoinTotals DEF InputAmount
<1>2. FundFee(t, p) \in Int
  <2>1. Inputs(t, p) \in Seq(Coins)
    BY InputsAreCounted
  <2> DEFINE spent == Total([i \in DOMAIN Inputs(t, p) |-> TX_INPUT_BASE_WEIGHT + Inputs(t, p)[i].witness])
  <2>2. spent \in Int
    BY <2>1, CoinTotals
  <2>3. FundFee(t, p) = IF t[p].collateral = 0 THEN 0
                        ELSE WeightToFee(BaseShare(t, p, FUND_TX_BASE_WEIGHT) + spent + 4 * P2WPKH + 36, t.rate)
    BY DEF FundFee
  <2> HIDE DEF spent
  <2>4. BaseShare(t, p, FUND_TX_BASE_WEIGHT) \in Int
    BY DEF BaseShare, FUND_TX_BASE_WEIGHT
  <2>5. t.rate \in Nat
    BY TermTypes
  <2> HIDE DEF spent
  <2> QED BY <2>2, <2>3, <2>4, <2>5 DEF WeightToFee, P2WPKH
<1>3. CetFee(t, p) \in Nat /\ ExtraFee(t) \in Nat
  <2>1. t.rate \in Nat
    BY TermTypes
  <2>2. BaseShare(t, p, CET_BASE_WEIGHT) \in Nat
    BY DEF BaseShare, CET_BASE_WEIGHT
  <2> QED BY <2>1, <2>2 DEF CetFee, ExtraFee, WeightToFee, P2WPKH, BUFFER_TX_WEIGHT, CET_EXTRA_WEIGHT
<1>4. t[p].collateral \in Nat
  BY TermTypes
<1>5. RequiredFunds(t, p) \in Int
  BY <1>2, <1>3, <1>4 DEF RequiredFunds
<1> QED BY <1>1, <1>2, <1>3, <1>4, <1>5 DEF Change, Pays

Funded(t) == ValidTerms(t) /\ (\A p \in Parties : Pays(t, p)) /\ FundValueAsserted(t)

\* The assertion of create_fund_transaction_with_fees holds when both parties fund.
LEMMA BothPaying ==
    ASSUME NEW t, ValidTerms(t), \A p \in Parties : Pays(t, p), BothFund(t)
    PROVE  FundValueAsserted(t)
<1>1. "offer" \in Parties /\ "accept" \in Parties
  BY DEF Parties
<1>2. \A p \in Parties : /\ t[p].collateral # 0 /\ t[p].collateral \in Nat
                         /\ Change(t, p) = InputAmount(t, p) - RequiredFunds(t, p)
                         /\ RequiredFunds(t, p) = t[p].collateral + FundFee(t, p) + CetFee(t, p) + ExtraFee(t)
                         /\ InputAmount(t, p) \in Int /\ FundFee(t, p) \in Int /\ CetFee(t, p) \in Nat
                         /\ ExtraFee(t) \in Nat
  BY TermTypes, FeeTypes DEF BothFund, Change, RequiredFunds
<1>3. TotalCollateral(t) = t["offer"].collateral + t["accept"].collateral
  BY <1>1, TermTypes
<1> QED BY <1>1, <1>2, <1>3 DEF FundValueAsserted, FundOutputValue

\* The funding output is in the funding transaction, with the change of each party
\* that is not dust, whatever the order of the serial ids.
LEMMA FundOutputs ==
    ASSUME NEW t, Funded(t), NEW funding, funding = CreateFundingTransaction(t)
    PROVE  /\ funding.kind = "fund" /\ funding.outputs \in Seq(Outs)
           /\ FundVout(funding) \in 1..Len(funding.outputs)
           /\ funding.outputs[FundVout(funding)].owner = "fund"
           /\ FundOutput(funding).value = FundOutputValue(t)
           /\ \A p \in Parties : Weigh(OwnValue(p), funding.outputs) =
                                   IF Change(t, p) >= DUST_LIMIT THEN Change(t, p) ELSE 0
           /\ Weigh(OutValue, funding.outputs) <= FundOutputValue(t) + Change(t, "offer") + Change(t, "accept")
           /\ Weigh(OutWeight, funding.outputs) <= 420
<1> DEFINE a == Out("fund", FundOutputValue(t), P2WSH)
           b == Out("offer", Change(t, "offer"), P2WPKH)
           c == Out("accept", Change(t, "accept"), P2WPKH)
           r == funding.outputs
<1>1. /\ "offer" \in Parties /\ "accept" \in Parties /\ ValidTerms(t)
      /\ \A p \in Parties : p = "offer" \/ p = "accept"
  BY DEF Parties, Funded
<1>2. /\ FundOutputValue(t) \in Nat /\ FundOutputValue(t) >= 1000
      /\ Change(t, "offer") \in Nat /\ Change(t, "accept") \in Nat
  <2>1. TotalCollateral(t) \in Nat /\ TotalCollateral(t) >= 1000
    BY <1>1, TermTypes
  <2>2. \A p \in Parties : CetFee(t, p) \in Nat /\ ExtraFee(t) \in Nat /\ Change(t, p) \in Nat
    BY <1>1, FeeTypes DEF Funded
  <2>3. FundOutputValue(t) = TotalCollateral(t) + CetFee(t, "offer") + CetFee(t, "accept") + ExtraFee(t)
    BY DEF Funded, FundValueAsserted
  <2> QED BY <1>1, <2>1, <2>2, <2>3
<1>3. /\ a \in Outs /\ a.owner = "fund" /\ a.value = FundOutputValue(t) /\ a.spk = 34
      /\ b \in Outs /\ b.owner = "offer" /\ b.value = Change(t, "offer") /\ b.spk = 22
      /\ c \in Outs /\ c.owner = "accept" /\ c.value = Change(t, "accept") /\ c.spk = 22
  BY <1>2, OutFields DEF Owners, P2WSH, P2WPKH
<1>4. t.fundSerial \in Int /\ t.offer.changeSerial \in Int /\ t.accept.changeSerial \in Int
  BY <1>1, TermTypes
<1>5. /\ funding.kind = "fund"
      /\ r = DiscardDust(OrderBySerialIds(<<a, b, c>>,
                                          <<t.fundSerial, t.offer.changeSerial, t.accept.changeSerial>>))
  BY DEF CreateFundingTransaction, Tx
<1> HIDE DEF a, b, c, r
<1>6. r \in Seq(Outs) /\ r \in Seq(AnyOf(a, b, c))
  BY <1>3, <1>4, <1>5, OutsWeigh, TripleWeighs DEF IsMeasure
<1>7. ASSUME NEW m, IsMeasure(m, Outs)
      PROVE  Weigh(m, r) = IfKept(m, a) + IfKept(m, b) + IfKept(m, c)
  BY <1>3, <1>4, <1>5, <1>7, TripleWeighs
<1>8. /\ IfKept(OutValue, a) <= FundOutputValue(t)
      /\ IfKept(OutValue, b) <= Change(t, "offer") /\ IfKept(OutValue, c) <= Change(t, "accept")
      /\ IfKept(OutValue, a) \in Int /\ IfKept(OutValue, b) \in Int /\ IfKept(OutValue, c) \in Int
  BY <1>2, <1>3 DEF IfKept, OutValue
<1>9. Weigh(OutValue, r) <= FundOutputValue(t) + Change(t, "offer") + Change(t, "accept")
  <2>1. Weigh(OutValue, r) = IfKept(OutValue, a) + IfKept(OutValue, b) + IfKept(OutValue, c)
    BY <1>7, OutsWeigh DEF IsMeasure
  <2> QED BY <1>2, <1>8, <2>1
<1>10. Weigh(OutWeight, r) <= 420
  <2>1. Weigh(OutWeight, r) = IfKept(OutWeight, a) + IfKept(OutWeight, b) + IfKept(OutWeight, c)
    BY <1>7, OutsWeigh DEF IsMeasure
  <2>2. OutWeight[a] = 172 /\ OutWeight[b] = 124 /\ OutWeight[c] = 124
    BY <1>3 DEF OutWeight
  <2>3. /\ IfKept(OutWeight, a) \in Int /\ IfKept(OutWeight, b) \in Int /\ IfKept(OutWeight, c) \in Int
        /\ IfKept(OutWeight, a) <= 172 /\ IfKept(OutWeight, b) <= 124 /\ IfKept(OutWeight, c) <= 124
    BY <2>2 DEF IfKept
  <2> QED BY <2>1, <2>3
<1>11. \A p \in Parties : Weigh(OwnValue(p), r) = IF Change(t, p) >= DUST_LIMIT THEN Change(t, p) ELSE 0
  <2> SUFFICES ASSUME NEW p \in Parties
               PROVE  Weigh(OwnValue(p), r) = IF Change(t, p) >= DUST_LIMIT THEN Change(t, p) ELSE 0
    OBVIOUS
  <2>1. Weigh(OwnValue(p), r) = IfKept(OwnValue(p), a) + IfKept(OwnValue(p), b) + IfKept(OwnValue(p), c)
    BY <1>7, OutsWeigh DEF IsMeasure
  <2>2. /\ OwnValue(p)[a] = 0
        /\ OwnValue(p)[b] = IF p = "offer" THEN Change(t, "offer") ELSE 0
        /\ OwnValue(p)[c] = IF p = "accept" THEN Change(t, "accept") ELSE 0
    <3>1. p # "fund"
      BY <1>1
    <3> QED BY <1>3, <3>1 DEF OwnValue
  <2>3. /\ IfKept(OwnValue(p), a) = 0
        /\ IfKept(OwnValue(p), b) = IF Change(t, "offer") >= DUST_LIMIT /\ p = "offer" THEN Change(t, "offer") ELSE 0
        /\ IfKept(OwnValue(p), c) = IF Change(t, "accept") >= DUST_LIMIT /\ p = "accept" THEN Change(t, "accept") ELSE 0
    BY <1>3, <2>2 DEF IfKept
  <2>4. CASE p = "offer"
    BY <1>2, <2>1, <2>3, <2>4
  <2>5. CASE p = "accept"
    BY <1>2, <2>1, <2>3, <2>5
  <2> QED BY <1>1, <2>4, <2>5
<1>12. \E i \in 1..Len(r) : r[i].owner = "fund"
  <2>1. Weigh(IsOfFund, r) = IfKept(IsOfFund, a) + IfKept(IsOfFund, b) + IfKept(IsOfFund, c)
    BY <1>7, OutsWeigh DEF IsMeasure
  <2>2. IsOfFund[a] = 1 /\ IsOfFund[b] = 0 /\ IsOfFund[c] = 0
    BY <1>3 DEF IsOfFund
  <2>3. IfKept(IsOfFund, a) = 1 /\ IfKept(IsOfFund, b) = 0 /\ IfKept(IsOfFund, c) = 0
    BY <1>2, <1>3, <2>2 DEF IfKept, DUST_LIMIT
  <2>4. Weigh(IsOfFund, r) # 0
    BY <2>1, <2>3
  <2>5. PICK i \in 1..Len(r) : IsOfFund[r[i]] # 0
    BY <1>6, <2>4, OutsWeigh, SomeWeight
  <2>6. r[i] \in Outs
    BY <1>6
  <2> QED BY <2>5, <2>6 DEF IsOfFund
<1>13. FundVout(funding) \in 1..Len(r) /\ r[FundVout(funding)].owner = "fund"
  <2>1. DOMAIN r = 1..Len(r)
    BY <1>6
  <2>2. FundVout(funding) = CHOOSE i \in 1..Len(r) : r[i].owner = "fund"
    BY <2>1 DEF FundVout, r
  <2> QED BY <1>12, <2>2
<1>14. FundOutput(funding).value = FundOutputValue(t)
  <2>1. r[FundVout(funding)] \in {a, b, c}
    BY <1>6, <1>13 DEF AnyOf
  <2>2. r[FundVout(funding)] = a
    BY <1>3, <1>13, <2>1
  <2> QED BY <1>3, <2>2 DEF FundOutput, r
<1> QED BY <1>5, <1>6, <1>9, <1>10, <1>11, <1>13, <1>14 DEF r

\* The inputs of the funding transaction are those of both parties.
LEMMA FundInputs ==
    ASSUME NEW t, ValidTerms(t), NEW funding, funding = CreateFundingTransaction(t)
    PROVE  /\ ValueOf(funding.inputs) = InputAmount(t, "offer") + InputAmount(t, "accept")
           /\ Total([i \in DOMAIN funding.inputs |-> TX_INPUT_BASE_WEIGHT + funding.inputs[i].witness]) =
                Weigh(CoinWeight, Inputs(t, "offer")) + Weigh(CoinWeight, Inputs(t, "accept"))
<1> DEFINE all == Inputs(t, "offer") \o Inputs(t, "accept")
           ids == [i \in DOMAIN all |-> all[i].serial]
           ordered == OrderBySerialIds(all, ids)
           inputs == funding.inputs
<1>1. "offer" \in Parties /\ "accept" \in Parties
  BY DEF Parties
<1>2. /\ Inputs(t, "offer") \in Seq(Coins) /\ Inputs(t, "accept") \in Seq(Coins)
      /\ Weigh(CoinValue, Inputs(t, "offer")) = InputAmount(t, "offer")
      /\ Weigh(CoinValue, Inputs(t, "accept")) = InputAmount(t, "accept")
  BY <1>1, InputsAreCounted
<1>3. all \in Seq(Coins)
  BY <1>2
<1>4. DOMAIN ids = DOMAIN all /\ \A i \in DOMAIN all : ids[i] \in Int
  <2>1. \A i \in DOMAIN all : all[i] \in Coins
    BY <1>3
  <2> HIDE DEF all
  <2> QED BY <2>1 DEF Coins
<1>5. inputs = [i \in DOMAIN ordered |-> Spend(0, ordered[i].value, ordered[i].witness)]
  BY DEF CreateFundingTransaction, Tx
<1>6. /\ Weigh(CoinValue, all) = InputAmount(t, "offer") + InputAmount(t, "accept")
      /\ Weigh(CoinWeight, all) = Weigh(CoinWeight, Inputs(t, "offer")) + Weigh(CoinWeight, Inputs(t, "accept"))
  BY <1>2, CoinsWeigh, WeighConcat
<1> HIDE DEF all, ids, inputs
<1>7. /\ ordered \in Seq(Coins)
      /\ Weigh(CoinValue, ordered) = Weigh(CoinValue, all)
      /\ Weigh(CoinWeight, ordered) = Weigh(CoinWeight, all)
  BY <1>3, <1>4, CoinsWeigh, OrderingWeighs
<1> HIDE DEF ordered
<1>8. /\ DOMAIN inputs = DOMAIN ordered
      /\ \A i \in DOMAIN ordered : inputs[i].value = ordered[i].value /\ inputs[i].witness = ordered[i].witness
  BY <1>5 DEF Spend
<1>9. ValueOf(inputs) = ValueOf(ordered)
  <2>1. [i \in DOMAIN inputs |-> inputs[i].value] = [i \in DOMAIN ordered |-> ordered[i].value]
    BY <1>8
  <2> QED BY <2>1 DEF ValueOf
<1>10. [i \in DOMAIN inputs |-> TX_INPUT_BASE_WEIGHT + inputs[i].witness] =
         [i \in DOMAIN ordered |-> TX_INPUT_BASE_WEIGHT + ordered[i].witness]
  BY <1>8
<1>11. /\ ValueOf(ordered) = Weigh(CoinValue, ordered)
       /\ Total([i \in DOMAIN ordered |-> TX_INPUT_BASE_WEIGHT + ordered[i].witness]) = Weigh(CoinWeight, ordered)
  BY <1>7, CoinTotals
<1> QED BY <1>6, <1>7, <1>9, <1>10, <1>11 DEF inputs

\* Two parties that both fund share the base weight.
LEMMA BothShare ==
    ASSUME NEW t, ValidTerms(t), BothFund(t), NEW p \in Parties, NEW weight \in {FUND_TX_BASE_WEIGHT, CET_BASE_WEIGHT}
    PROVE  BaseShare(t, p, weight) = weight \div 2
<1>1. t["offer"].collateral > 0 /\ t["accept"].collateral > 0
  BY DEF BothFund, Parties
<1>2. t[p].collateral # TotalCollateral(t)
  BY <1>1, TermTypes DEF Parties
<1> QED BY <1>2 DEF BaseShare

\* The two shares of the fee cover the whole transaction, rounded up.
LEMMA FundPays ==
    ASSUME NEW t, Funded(t), BothFund(t), NEW funding, funding = CreateFundingTransaction(t)
    PROVE  /\ FeeOf(funding) \in Int /\ VirtualSize(funding) \in Int
           /\ FeeOf(funding) >= t.rate * VirtualSize(funding)
<1> DEFINE wo == Weigh(CoinWeight, Inputs(t, "offer"))
           wa == Weigh(CoinWeight, Inputs(t, "accept"))
           outs == Weigh(OutWeight, funding.outputs)
           vo == (107 + wo + 88 + 36 + 3) \div 4
           va == (107 + wa + 88 + 36 + 3) \div 4
           rate == t.rate
<1>1. "offer" \in Parties /\ "accept" \in Parties /\ ValidTerms(t) /\ rate \in Nat
  BY TermTypes DEF Parties, Funded
<1>2. wo \in Int /\ wa \in Int
  BY <1>1, InputsAreCounted, CoinTotals
<1>3. funding.outputs \in Seq(Outs) /\ outs <= 420
  BY FundOutputs
<1>4. outs \in Int /\ Weigh(OutValue, funding.outputs) \in Int
  BY <1>3, OutsWeigh, WeighType
<1>5. /\ ValueOf(funding.outputs) = Weigh(OutValue, funding.outputs)
      /\ Total([i \in DOMAIN funding.outputs |-> 4 * (9 + funding.outputs[i].spk)]) = outs
  <2> DEFINE r == funding.outputs
  <2>1. \A i \in DOMAIN r : r[i] \in Outs
    BY <1>3
  <2> HIDE DEF r
  <2>2. /\ [i \in DOMAIN r |-> r[i].value] = [i \in DOMAIN r |-> OutValue[r[i]]]
        /\ [i \in DOMAIN r |-> 4 * (9 + r[i].spk)] = [i \in DOMAIN r |-> OutWeight[r[i]]]
    BY <2>1 DEF OutValue, OutWeight
  <2>3. ValueOf(r) = Weigh(OutValue, r)
    BY <2>2 DEF ValueOf, Weigh
  <2>4. Total([i \in DOMAIN r |-> 4 * (9 + r[i].spk)]) = Weigh(OutWeight, r)
    BY <2>2 DEF Weigh
  <2> QED BY <2>3, <2>4 DEF r
<1>6. VirtualSize(funding) = (42 + (wo + wa) + outs + 3) \div 4
  BY <1>1, <1>5, FundInputs DEF VirtualSize
<1>7. FundFee(t, "offer") = vo * rate /\ FundFee(t, "accept") = va * rate
  <2>1. ASSUME NEW p \in Parties
        PROVE  FundFee(t, p) = ((107 + Weigh(CoinWeight, Inputs(t, p)) + 88 + 36 + 3) \div 4) * rate
    <3> DEFINE spent == Total([i \in DOMAIN Inputs(t, p) |-> TX_INPUT_BASE_WEIGHT + Inputs(t, p)[i].witness])
    <3>1. spent = Weigh(CoinWeight, Inputs(t, p)) /\ spent \in Int
      BY <1>1, InputsAreCounted, CoinTotals
    <3>2. t[p].collateral # 0
      BY DEF BothFund
    <3>3. FundFee(t, p) = WeightToFee(BaseShare(t, p, FUND_TX_BASE_WEIGHT) + spent + 4 * P2WPKH + 36, rate)
      BY <3>2 DEF FundFee
    <3> HIDE DEF spent
    <3>4. BaseShare(t, p, FUND_TX_BASE_WEIGHT) = 107
      BY <1>1, BothShare DEF FUND_TX_BASE_WEIGHT
    <3> QED BY <3>1, <3>3, <3>4 DEF WeightToFee, P2WPKH
  <2> QED BY <1>1, <2>1
<1> DEFINE co == Change(t, "offer")
           ca == Change(t, "accept")
           values == Weigh(OutValue, funding.outputs)
<1>8. FeeOf(funding) = InputAmount(t, "offer") + InputAmount(t, "accept") - values
  <2>1. ValueOf(funding.inputs) = InputAmount(t, "offer") + InputAmount(t, "accept")
    BY <1>1, FundInputs, Zenon
  <2>2. FeeOf(funding) = ValueOf(funding.inputs) - ValueOf(funding.outputs)
    BY Zenon DEF FeeOf
  <2>3. ValueOf(funding.outputs) = values
    BY <1>5
  <2>4. InputAmount(t, "offer") \in Int /\ InputAmount(t, "accept") \in Int /\ values \in Int
    BY <1>1, <1>4, FeeTypes
  <2> HIDE DEF values
  <2> QED BY <2>1, <2>2, <2>3, <2>4
<1>9. values <= FundOutputValue(t) + co + ca
  BY FundOutputs
<1>10. FundOutputValue(t) = InputAmount(t, "offer") + InputAmount(t, "accept") - co - ca
                             - FundFee(t, "offer") - FundFee(t, "accept") - ExtraFee(t)
  BY DEF FundOutputValue
<1>11. \A p \in Parties : /\ InputAmount(t, p) \in Int /\ FundFee(t, p) \in Int /\ Change(t, p) \in Int
                          /\ ExtraFee(t) \in Nat
  BY <1>1, FeeTypes
<1> HIDE DEF wo, wa, outs, co, ca, values, rate
<1>12. FeeOf(funding) \in Int /\ FeeOf(funding) >= FundFee(t, "offer") + FundFee(t, "accept")
  BY <1>1, <1>4, <1>8, <1>9, <1>10, <1>11 DEF values, co, ca
<1>13. vo \in Int /\ va \in Int /\ vo + va >= (42 + (wo + wa) + outs + 3) \div 4
  BY <1>2, <1>3, <1>4
<1> HIDE DEF vo, va
<1>14. VirtualSize(funding) \in Int /\ vo + va >= VirtualSize(funding)
  BY <1>2, <1>4, <1>6, <1>13
<1>15. (vo + va) * rate >= rate * VirtualSize(funding)
  BY <1>1, <1>13, <1>14, MoreBytesPayMore
<1>16. (vo + va) * rate = vo * rate + va * rate
  BY <1>1, <1>13
<1>17. rate * VirtualSize(funding) \in Int
  BY <1>1, <1>14
<1>18. FeeOf(funding) >= (vo + va) * rate
  BY <1>7, <1>12, <1>16
<1>19. (vo + va) * rate \in Int
  BY <1>1, <1>13
<1> DEFINE x == (vo + va) * rate
           y == rate * VirtualSize(funding)
<1> HIDE DEF x, y
<1>20. x \in Int /\ y \in Int /\ FeeOf(funding) \in Int /\ FeeOf(funding) >= x /\ x >= y
  BY <1>12, <1>15, <1>17, <1>18, <1>19 DEF x, y
<1>21. FeeOf(funding) >= y
  BY <1>20
<1> QED BY <1>12, <1>14, <1>21 DEF y, rate

-----------------------------------------------------------------------------
(***************************************************************************)
(* The transactions that follow.                                           *)
(***************************************************************************)
LEMMA OtherParty ==
    /\ Other("offer") = "accept" /\ Other("accept") = "offer"
    /\ "offer" \in Parties /\ "accept" \in Parties /\ "offer" # "accept"
    /\ \A p \in Parties : p = "offer" \/ p = "accept"
    /\ \A p \in Parties : p \in Owners /\ Other(p) \in Parties /\ Other(p) # p /\ Other(Other(p)) = p
  BY DEF Other, Parties, Owners

\* What the funding output holds besides the collateral.
LEMMA SetAside ==
    ASSUME NEW t, Funded(t)
    PROVE  /\ FundOutputValue(t) \in Nat /\ TotalCollateral(t) \in Nat /\ TotalCollateral(t) >= 1000
           /\ ExtraFee(t) \in Nat /\ t.rate \in Nat
           /\ FundOutputValue(t) >= TotalCollateral(t) + ExtraFee(t) + 147 * t.rate
           /\ BothFund(t) => FundOutputValue(t) = TotalCollateral(t) + ExtraFee(t) + 170 * t.rate
           /\ t.channel => ExtraFee(t) = 233 * t.rate
<1> DEFINE co == CetFee(t, "offer")
           ca == CetFee(t, "accept")
<1>1. ValidTerms(t) /\ FundOutputValue(t) = TotalCollateral(t) + co + ca + ExtraFee(t)
  BY DEF Funded, FundValueAsserted
<1>2. /\ TotalCollateral(t) \in Nat /\ TotalCollateral(t) >= 1000 /\ t.rate \in Nat
      /\ co \in Nat /\ ca \in Nat /\ ExtraFee(t) \in Nat
  BY <1>1, OtherParty, TermTypes, FeeTypes
<1>3. t.channel => ExtraFee(t) = 233 * t.rate
  BY <1>2 DEF ExtraFee, WeightToFee, BUFFER_TX_WEIGHT, CET_EXTRA_WEIGHT
<1>4. ASSUME BothFund(t) PROVE co = 85 * t.rate /\ ca = 85 * t.rate
  <2>1. ASSUME NEW p \in Parties PROVE CetFee(t, p) = 85 * t.rate
    <3>1. t[p].collateral # 0
      BY <1>4 DEF BothFund
    <3>2. BaseShare(t, p, CET_BASE_WEIGHT) = 250
      BY <1>1, <1>4, BothShare DEF CET_BASE_WEIGHT
    <3> QED BY <1>2, <3>1, <3>2 DEF CetFee, WeightToFee, P2WPKH
  <2> QED BY <2>1, OtherParty
<1>5. ASSUME NEW p \in Parties, t[p].collateral = TotalCollateral(t) PROVE CetFee(t, p) = 147 * t.rate
  <2>1. t[p].collateral # 0
    BY <1>2, <1>5
  <2>2. BaseShare(t, p, CET_BASE_WEIGHT) = 500
    BY <1>5 DEF BaseShare, CET_BASE_WEIGHT
  <2> QED BY <1>2, <2>1, <2>2 DEF CetFee, WeightToFee, P2WPKH
<1>6. BothFund(t) \/ \E p \in Parties : t[p].collateral = TotalCollateral(t)
  <2>1. /\ TotalCollateral(t) = t["offer"].collateral + t["accept"].collateral
        /\ t["offer"].collateral \in Nat /\ t["accept"].collateral \in Nat
    BY <1>1, OtherParty, TermTypes
  <2>2. CASE t["offer"].collateral = 0
    BY <2>1, <2>2, OtherParty
  <2>3. CASE t["accept"].collateral = 0
    BY <2>1, <2>3, OtherParty
  <2>4. CASE t["offer"].collateral # 0 /\ t["accept"].collateral # 0
    BY <2>1, <2>4, OtherParty DEF BothFund
  <2> QED BY <2>2, <2>3, <2>4
<1>7. co + ca >= 147 * t.rate
  <2>1. CASE BothFund(t)
    BY <1>2, <1>4, <2>1
  <2>2. CASE \E p \in Parties : t[p].collateral = TotalCollateral(t)
    <3>1. co = 147 * t.rate \/ ca = 147 * t.rate
      BY <1>5, <2>2, OtherParty
    <3> QED BY <1>2, <3>1
  <2> QED BY <1>6, <2>1, <2>2
<1> HIDE DEF co, ca
<1>8. FundOutputValue(t) \in Nat
  BY <1>1, <1>2
<1>9. FundOutputValue(t) >= TotalCollateral(t) + ExtraFee(t) + 147 * t.rate
  BY <1>1, <1>2, <1>7
<1>10. BothFund(t) => FundOutputValue(t) = TotalCollateral(t) + ExtraFee(t) + 170 * t.rate
  BY <1>1, <1>2, <1>4
<1> QED BY <1>2, <1>3, <1>8, <1>9, <1>10

\* The buffer transaction takes the extra fee, which pays for it.
LEMMA BufferIs ==
    ASSUME NEW t, Funded(t), NEW funding, funding = CreateFundingTransaction(t),
           NEW b, b = CreateBufferTransaction(t, funding)
    PROVE  /\ b.kind = "buffer" /\ b.inputs[1].vout = FundVout(funding)
           /\ b.outputs = <<Out("buffer", FundOutputValue(t) - ExtraFee(t), P2WSH)>>
           /\ b.outputs \in Seq(Outs)
           /\ FeeOf(b) = ExtraFee(t) /\ VirtualSize(b) = 150
<1> DEFINE o == Out("buffer", FundOutputValue(t) - ExtraFee(t), P2WSH)
<1>1. /\ FundOutput(funding).value = FundOutputValue(t) /\ FundOutputValue(t) \in Nat /\ ExtraFee(t) \in Nat
  BY FundOutputs, SetAside
<1>2. b = Tx("buffer", <<Spend(FundVout(funding), FundOutputValue(t), 221)>>, <<o>>)
  BY <1>1 DEF CreateBufferTransaction, SpendFund, MultisigWitness
<1>3. o \in Outs /\ o.value = FundOutputValue(t) - ExtraFee(t) /\ o.spk = 34
  BY <1>1, OutFields DEF Owners, P2WSH
<1> HIDE DEF o
<1>4. <<o>> \in Seq(Outs) /\ Weigh(OutValue, <<o>>) = o.value /\ Weigh(OutWeight, <<o>>) = 172
  <2>1. OutValue[o] = o.value /\ OutWeight[o] = 172
    BY <1>3 DEF OutValue, OutWeight
  <2> QED BY <1>3, <2>1, OutsWeigh, WeighOne
<1>5. /\ FeeOf(b) = FundOutputValue(t) - Weigh(OutValue, <<o>>)
      /\ VirtualSize(b) = (42 + (TX_INPUT_BASE_WEIGHT + 221) + Weigh(OutWeight, <<o>>) + 3) \div 4
  <2> DEFINE outs == <<o>>
  <2>1. SpendsOne(b, FundOutputValue(t), 221, outs) /\ outs \in Seq(Outs)
    BY <1>1, <1>2, <1>4 DEF SpendsOne
  <2> HIDE DEF outs
  <2>3. /\ FeeOf(b) = FundOutputValue(t) - Weigh(OutValue, outs)
        /\ VirtualSize(b) = (42 + (TX_INPUT_BASE_WEIGHT + 221) + Weigh(OutWeight, outs) + 3) \div 4
    <3>1. PaysAsOne(b, FundOutputValue(t), 221, outs)
      BY <2>1, SingleInput, Zenon
    <3> QED BY <3>1 DEF PaysAsOne
  <2> QED BY <2>3 DEF outs
<1>6. VirtualSize(b) = 150
  BY <1>4, <1>5 DEF TX_INPUT_BASE_WEIGHT
<1>7. FeeOf(b) = ExtraFee(t)
  BY <1>1, <1>3, <1>4, <1>5
<1>8. b.kind = "buffer" /\ b.inputs[1].vout = FundVout(funding) /\ b.outputs = <<o>>
  BY <1>2 DEF Tx, Spend
<1> QED BY <1>4, <1>6, <1>7, <1>8 DEF o

\* What each party has of two payouts, up to dust.
Shares(outputs, o, x, y, spk) ==
    /\ outputs \in Seq(Outs)
    /\ Weigh(OutValue, outputs) \in Int /\ Weigh(OutValue, outputs) <= x + y
    /\ Weigh(OutWeight, outputs) \in Int /\ Weigh(OutWeight, outputs) <= 8 * (9 + spk)
    /\ \A p \in Parties : LET share == IF p = o THEN x ELSE y
                          IN Weigh(OwnValue(p), outputs) = IF share >= DUST_LIMIT THEN share ELSE 0
\* Two payouts, the dust left out, in any order.
LEMMA PayoutsPaid ==
    ASSUME NEW t, ValidTerms(t), NEW o \in Parties, NEW x \in Nat, NEW y \in Nat, NEW spk \in {P2WSH, P2WPKH}, NEW outputs,
           \/ outputs = DiscardDust(<<Out(o, x, spk), Out(Other(o), y, spk)>>)
           \/ spk = P2WPKH /\ outputs = PayoutOutputs(t, o, x, y)
    PROVE  Shares(outputs, o, x, y, spk)
<1> DEFINE a == Out(o, x, spk)
           b == Out(Other(o), y, spk)
<1>1. o \in Owners /\ Other(o) \in Owners /\ Other(o) \in Parties /\ Other(o) # o /\ spk \in Int
  BY OtherParty DEF P2WSH, P2WPKH
<1>2. a \in Outs /\ a.owner = o /\ a.value = x /\ a.spk = spk /\ b \in Outs /\ b.owner = Other(o) /\ b.value = y /\ b.spk = spk
  BY <1>1, OutFields
<1>3. t[o].payoutSerial \in Int /\ t[Other(o)].payoutSerial \in Int
  BY <1>1, TermTypes
<1>4. \/ outputs = DiscardDust(<<a, b>>)
      \/ outputs = DiscardDust(OrderBySerialIds(<<a, b>>, <<t[o].payoutSerial, t[Other(o)].payoutSerial>>))
  BY DEF PayoutOutputs
<1> HIDE DEF a, b
<1>5. ASSUME NEW m, IsMeasure(m, Outs)
      PROVE  outputs \in Seq(Outs) /\ Weigh(m, outputs) = IfKept(m, a) + IfKept(m, b)
  BY <1>2, <1>3, <1>4, <1>5, PairWeighs
<1>6. /\ Weigh(OutValue, outputs) = IfKept(OutValue, a) + IfKept(OutValue, b)
      /\ Weigh(OutWeight, outputs) = IfKept(OutWeight, a) + IfKept(OutWeight, b)
      /\ outputs \in Seq(Outs)
  BY <1>5, OutsWeigh DEF IsMeasure
<1>7. /\ IfKept(OutValue, a) \in Int /\ IfKept(OutValue, b) \in Int
      /\ IfKept(OutValue, a) <= x /\ IfKept(OutValue, b) <= y
  BY <1>2 DEF IfKept, OutValue
<1>8. /\ IfKept(OutWeight, a) \in Int /\ IfKept(OutWeight, b) \in Int
      /\ IfKept(OutWeight, a) <= 4 * (9 + spk) /\ IfKept(OutWeight, b) <= 4 * (9 + spk)
  <2>1. OutWeight[a] = 4 * (9 + spk) /\ OutWeight[b] = 4 * (9 + spk) /\ spk \in {34, 22}
    BY <1>2 DEF OutWeight, P2WSH, P2WPKH
  <2> QED BY <2>1 DEF IfKept
<1>9. ASSUME NEW p \in Parties
      PROVE  LET share == IF p = o THEN x ELSE y
             IN Weigh(OwnValue(p), outputs) = IF share >= DUST_LIMIT THEN share ELSE 0
  <2>1. Weigh(OwnValue(p), outputs) = IfKept(OwnValue(p), a) + IfKept(OwnValue(p), b)
    BY <1>5, OutsWeigh DEF IsMeasure
  <2>2. OwnValue(p)[a] = (IF p = o THEN x ELSE 0) /\ OwnValue(p)[b] = (IF p = o THEN 0 ELSE y)
    <3>1. p = o \/ p = Other(o)
      BY OtherParty
    <3> QED BY <1>1, <1>2, <3>1 DEF OwnValue
  <2>3. /\ IfKept(OwnValue(p), a) = IF p = o /\ x >= DUST_LIMIT THEN x ELSE 0
        /\ IfKept(OwnValue(p), b) = IF p # o /\ y >= DUST_LIMIT THEN y ELSE 0
    BY <1>2, <2>2 DEF IfKept
  <2> QED BY <2>1, <2>3
<1> QED BY <1>1, <1>6, <1>7, <1>8, <1>9 DEF Shares

Together(a, b) == <<a>> \o <<b>> = <<a, b>>
Alone(a) == <<a>> \o <<>> = <<a>> /\ <<>> \o <<a>> = <<a>>
\* Concatenations of one element.
LEMMA ShortConcat == \A a, b : Together(a, b) /\ Alone(a)
<1> TAKE a, b
<1> DEFINE E == {a, b}
<1>1. Together(a, b)
  <2> DEFINE s == <<a>> \o <<b>>
             r == <<a, b>>
  <2>1. s \in Seq(E) /\ r \in Seq(E) /\ Len(s) = 2 /\ Len(r) = 2
    OBVIOUS
  <2>2. s[1] = r[1] /\ s[2] = r[2]
    OBVIOUS
  <2> HIDE DEF s, r, E
  <2>3. s = r
    BY <2>1, <2>2
  <2> QED BY <2>3 DEF s, r, Together
<1>2. Alone(a)
  BY DEF Alone
<1> QED BY <1>1, <1>2

\* The fee and the size of a transaction that pays two payouts.
LEMMA PayoutFee ==
    ASSUME NEW tx, NEW value, NEW witness, NEW outputs, NEW o, NEW x \in Nat, NEW y \in Nat,
           SpendsOne(tx, value, witness, outputs), Shares(outputs, o, x, y, P2WPKH)
    PROVE  /\ FeeOf(tx) \in Int /\ FeeOf(tx) >= value - (x + y) /\ VirtualSize(tx) \in Int
           /\ witness = 221 => VirtualSize(tx) <= 169
           /\ witness = 551 => VirtualSize(tx) <= 252
<1>1. outputs \in Seq(Outs)
  BY DEF Shares
<1>2. PaysAsOne(tx, value, witness, outputs)
  BY <1>1, SingleInput, Zenon
<1>3. Weigh(OutValue, outputs) \in Int /\ Weigh(OutValue, outputs) <= x + y
  BY DEF Shares
<1>4. Weigh(OutWeight, outputs) \in Int /\ Weigh(OutWeight, outputs) <= 248
  BY DEF Shares, P2WPKH
<1>5. value \in Int /\ witness \in Int
  BY DEF SpendsOne
<1>6. FeeOf(tx) \in Int /\ FeeOf(tx) >= value - (x + y)
  BY <1>2, <1>3, <1>5 DEF PaysAsOne
<1>7. VirtualSize(tx) = (42 + (164 + witness) + Weigh(OutWeight, outputs) + 3) \div 4 /\ VirtualSize(tx) \in Int
  BY <1>2 DEF PaysAsOne, TX_INPUT_BASE_WEIGHT
<1>8. witness = 221 => VirtualSize(tx) <= 169
  BY <1>4, <1>7
<1>9. witness = 551 => VirtualSize(tx) <= 252
  BY <1>4, <1>7
<1> QED BY <1>6, <1>7, <1>8, <1>9

\* The outputs of a settlement that leaves r of the fees to each.
SettleOutputs(o, x, y, r) ==
    (IF x >= DUST_LIMIT THEN <<Out(o, x + r, P2WSH)>> ELSE <<>>)
      \o (IF y >= DUST_LIMIT THEN <<Out(Other(o), y + r, P2WSH)>> ELSE <<>>)

SettleIs(s, funding, t, o, x, y, r) ==
    /\ s.kind = "settle" /\ s.inputs[1].vout = FundVout(funding)
    /\ s.outputs = SettleOutputs(o, x, y, r) /\ s.outputs \in Seq(Outs)
    /\ FeeOf(s) \in Int /\ VirtualSize(s) \in Nat /\ FeeOf(s) >= t.rate * VirtualSize(s)
    /\ r \in Nat

\* The fee of a settlement, what is left for each of its outputs, and the
\* outputs with it.
SettleFee(fee, kept, rate) ==
    fee = WeightToFee(SETTLE_INPUT_WEIGHT + Len(kept) * SETTLE_OUTPUT_WEIGHT, rate)
Remaining(r, value, x, y, fee, kept) == r = (value - x - y - fee) \div Len(kept)
Raised(outs, kept, r) == outs = [i \in DOMAIN kept |-> [kept[i] EXCEPT !.value = @ + r]]
LeavesEnough(value, x, y, rate) ==
    /\ value \in Nat /\ x \in Nat /\ y \in Nat /\ rate \in Nat
    /\ value >= x + y + 380 * rate
SettleFits(outs, r, value, fee, rate) ==
    /\ outs \in Seq(Outs) /\ r \in Nat /\ fee \in Int
    /\ Weigh(OutValue, outs) \in Int /\ Weigh(OutValue, outs) <= value - fee
    /\ \/ Weigh(OutWeight, outs) = 172 /\ fee = 150 * rate
       \/ Weigh(OutWeight, outs) = 344 /\ fee = 193 * rate

TwoOutputs(outs, o, x, y) == outs = <<Out(o, x, P2WSH), Out(Other(o), y, P2WSH)>>
OneOutput(outs, p, z) == outs = <<Out(p, z, P2WSH)>>

\* A settlement with two outputs pays its fee and raises each of them.
LEMMA SettleTwo ==
    ASSUME NEW value, NEW x, NEW y, NEW rate, LeavesEnough(value, x, y, rate),
           NEW o \in Parties, NEW kept, TwoOutputs(kept, o, x, y),
           NEW fee, SettleFee(fee, kept, rate), NEW r, Remaining(r, value, x, y, fee, kept),
           NEW outs, Raised(outs, kept, r)
    PROVE  /\ SettleFits(outs, r, value, fee, rate)
           /\ TwoOutputs(outs, o, x + r, y + r)
<1>1. o \in Owners /\ Other(o) \in Owners
  BY OtherParty
<1>2. value \in Nat /\ x \in Nat /\ y \in Nat /\ rate \in Nat /\ value >= x + y + 380 * rate
  BY DEF LeavesEnough
<1>3. Len(kept) = 2 /\ DOMAIN kept = 1..2
  BY DEF TwoOutputs
<1>4. fee = 193 * rate
  BY <1>2, <1>3 DEF SettleFee, WeightToFee, SETTLE_INPUT_WEIGHT, SETTLE_OUTPUT_WEIGHT
<1> DEFINE d == value - x - y - 193 * rate
<1>5. d \in Nat
  BY <1>2
<1>6. r = d \div 2
  BY <1>3, <1>4 DEF Remaining
<1>7. r \in Nat /\ 2 * r <= d
  <2> HIDE DEF d
  <2> QED BY <1>5, <1>6
<1> DEFINE a == Out(o, x + r, P2WSH)
           b == Out(Other(o), y + r, P2WSH)
<1>8. outs = <<a, b>>
  BY <1>3, <1>7 DEF Raised, Out, TwoOutputs
<1>9. a \in Outs /\ a.value = x + r /\ a.spk = 34 /\ b \in Outs /\ b.value = y + r /\ b.spk = 34
  BY <1>1, <1>2, <1>7, OutFields DEF P2WSH
<1> HIDE DEF a, b, d
<1>10. /\ Weigh(OutValue, <<a, b>>) = OutValue[a] + OutValue[b]
       /\ Weigh(OutWeight, <<a, b>>) = OutWeight[a] + OutWeight[b]
  BY <1>9, OutsWeigh, WeighTwo
<1>11. Weigh(OutValue, outs) = (x + r) + (y + r) /\ Weigh(OutWeight, outs) = 344
  BY <1>8, <1>9, <1>10 DEF OutValue, OutWeight
<1>12. Weigh(OutValue, outs) \in Int /\ Weigh(OutValue, outs) <= value - fee
  BY <1>2, <1>4, <1>7, <1>11 DEF d
<1>13. outs \in Seq(Outs)
  BY <1>8, <1>9
<1>14. fee \in Int
  BY <1>2, <1>4
<1>15. SettleFits(outs, r, value, fee, rate)
  BY <1>4, <1>7, <1>11, <1>12, <1>13, <1>14 DEF SettleFits
<1> QED BY <1>8, <1>15 DEF a, b, TwoOutputs

\* A settlement with one output pays its fee and raises it.
LEMMA SettleOne ==
    ASSUME NEW value, NEW x, NEW y, NEW rate, LeavesEnough(value, x, y, rate),
           NEW p \in Parties, NEW z \in {x, y}, NEW kept, OneOutput(kept, p, z),
           NEW fee, SettleFee(fee, kept, rate), NEW r, Remaining(r, value, x, y, fee, kept),
           NEW outs, Raised(outs, kept, r)
    PROVE  /\ SettleFits(outs, r, value, fee, rate)
           /\ OneOutput(outs, p, z + r)
<1>1. p \in Owners
  BY OtherParty
<1>2. /\ value \in Nat /\ x \in Nat /\ y \in Nat /\ rate \in Nat /\ value >= x + y + 380 * rate
      /\ z \in Nat /\ z <= x + y
  BY DEF LeavesEnough
<1>3. Len(kept) = 1 /\ DOMAIN kept = 1..1
  BY DEF OneOutput
<1>4. fee = 150 * rate
  BY <1>2, <1>3 DEF SettleFee, WeightToFee, SETTLE_INPUT_WEIGHT, SETTLE_OUTPUT_WEIGHT
<1> DEFINE d == value - x - y - 150 * rate
<1>5. d \in Nat
  BY <1>2
<1>6. r = d \div 1
  BY <1>3, <1>4 DEF Remaining
<1>7. r \in Nat /\ r = d
  <2> HIDE DEF d
  <2> QED BY <1>5, <1>6
<1> DEFINE a == Out(p, z + r, P2WSH)
<1>8. outs = <<a>>
  BY <1>3, <1>7 DEF Raised, Out, OneOutput
<1>9. a \in Outs /\ a.value = z + r /\ a.spk = 34
  BY <1>1, <1>2, <1>7, OutFields DEF P2WSH
<1> HIDE DEF a, d
<1>10. Weigh(OutValue, <<a>>) = OutValue[a] /\ Weigh(OutWeight, <<a>>) = OutWeight[a]
  BY <1>9, OutsWeigh, WeighOne
<1>11. Weigh(OutValue, outs) = z + r /\ Weigh(OutWeight, outs) = 172
  BY <1>8, <1>9, <1>10 DEF OutValue, OutWeight
<1>12. Weigh(OutValue, outs) \in Int /\ Weigh(OutValue, outs) <= value - fee
  BY <1>2, <1>4, <1>7, <1>11 DEF d
<1>13. outs \in Seq(Outs)
  BY <1>8, <1>9
<1>14. fee \in Int
  BY <1>2, <1>4
<1>15. SettleFits(outs, r, value, fee, rate)
  BY <1>4, <1>7, <1>11, <1>12, <1>13, <1>14 DEF SettleFits
<1> QED BY <1>8, <1>15 DEF a, OneOutput

\* create_settle_transaction divides what is left among the outputs, and its fee is
\* at least the agreed rate.
LEMMA SettlePays ==
    ASSUME NEW t, Funded(t), t.channel, NEW funding, funding = CreateFundingTransaction(t),
           NEW o \in Parties, NEW x \in Nat, NEW y \in Nat, x + y = TotalCollateral(t),
           ~SettleDividesByZero(x, y),
           NEW s, s = CreateSettleTransaction(t, o, x, y, funding)
    PROVE  \E r : SettleIs(s, funding, t, o, x, y, r)
<1> DEFINE a == Out(o, x, P2WSH)
           b == Out(Other(o), y, P2WSH)
           kept == DiscardDust(<<a, b>>)
           value == FundOutputValue(t)
           spend == Spend(FundVout(funding), value, 221)
<1>1. o \in Owners /\ Other(o) \in Owners /\ Other(o) \in Parties
  BY OtherParty
<1>2. /\ a \in Outs /\ a.owner = o /\ a.value = x /\ a.spk = 34
      /\ b \in Outs /\ b.owner = Other(o) /\ b.value = y /\ b.spk = 34
  BY <1>1, OutFields DEF P2WSH
<1>3. kept = (IF x >= DUST_LIMIT THEN <<a>> ELSE <<>>) \o (IF y >= DUST_LIMIT THEN <<b>> ELSE <<>>)
  <2>1. <<a, b>> \in Seq(Outs)
    BY <1>2
  <2>2. kept = Keep(<<a, b>>, Big)
    BY <2>1, DiscardKeepsBig
  <2>3. Keep(<<a, b>>, Big) = (IF a \in Big THEN <<a>> ELSE <<>>) \o (IF b \in Big THEN <<b>> ELSE <<>>)
    <3>1. KeepsOfTwo(a, b, Big)
      BY KeepShort, Zenon
    <3> QED BY <3>1 DEF KeepsOfTwo
  <2>4. (a \in Big <=> x >= DUST_LIMIT) /\ (b \in Big <=> y >= DUST_LIMIT)
    BY <1>2 DEF Big
  <2> HIDE DEF a, b
  <2> QED BY <2>2, <2>3, <2>4
<1>4. /\ value \in Nat /\ t.rate \in Nat /\ value >= x + y + 380 * t.rate
      /\ FundOutput(funding).value = value
  <2>1. FundOutput(funding).value = value
    BY FundOutputs
  <2>2. /\ value \in Nat /\ t.rate \in Nat /\ TotalCollateral(t) \in Nat /\ ExtraFee(t) = 233 * t.rate
        /\ value >= TotalCollateral(t) + ExtraFee(t) + 147 * t.rate
    BY SetAside
  <2> HIDE DEF value
  <2> QED BY <2>1, <2>2
<1> DEFINE fee == WeightToFee(SETTLE_INPUT_WEIGHT + Len(kept) * SETTLE_OUTPUT_WEIGHT, t.rate)
           r == (value - x - y - fee) \div Len(kept)
           outs == [i \in DOMAIN kept |-> [kept[i] EXCEPT !.value = @ + r]]
<1>5. s = Tx("settle", <<spend>>, outs)
  BY <1>4 DEF CreateSettleTransaction, SpendFund, MultisigWitness
<1>6. /\ LeavesEnough(value, x, y, t.rate) /\ SettleFee(fee, kept, t.rate)
      /\ Remaining(r, value, x, y, fee, kept) /\ Raised(outs, kept, r)
  BY <1>4, Zenon DEF LeavesEnough, SettleFee, Remaining, Raised
<1>7. s.kind = "settle" /\ s.inputs[1].vout = FundVout(funding) /\ s.outputs = outs /\ s.inputs = <<spend>>
  BY <1>5 DEF Tx, Spend
<1> HIDE DEF outs, fee, r, kept, value
<1>16. /\ x >= DUST_LIMIT /\ y >= DUST_LIMIT => kept = <<a, b>>
       /\ x >= DUST_LIMIT /\ ~(y >= DUST_LIMIT) => kept = <<a>>
       /\ ~(x >= DUST_LIMIT) /\ y >= DUST_LIMIT => kept = <<b>>
  <2> HIDE DEF a, b
  <2>1. Alone(a) /\ Alone(b) /\ Together(a, b)
    BY ShortConcat, Zenon
  <2> QED BY <1>3, <2>1 DEF Alone, Together
<1>17. LeavesEnough(value, x, y, t.rate)
  BY <1>6
<1>18. SettleFee(fee, kept, t.rate)
  BY <1>6
<1>19. Remaining(r, value, x, y, fee, kept)
  BY <1>6
<1>20. Raised(outs, kept, r)
  BY <1>6
<1>8. SettleFits(outs, r, value, fee, t.rate) /\ outs = SettleOutputs(o, x, y, r)
  <2>1. CASE x >= DUST_LIMIT /\ y >= DUST_LIMIT
    <3>1. TwoOutputs(kept, o, x, y)
      BY <1>16, <2>1, Zenon DEF TwoOutputs
    <3>2. SettleFits(outs, r, value, fee, t.rate) /\ TwoOutputs(outs, o, x + r, y + r)
      BY <1>17, <1>18, <1>19, <1>20, <3>1, SettleTwo, Zenon
    <3> DEFINE c == Out(o, x + r, P2WSH)
               d == Out(Other(o), y + r, P2WSH)
    <3>3. outs = <<c, d>> /\ SettleOutputs(o, x, y, r) = <<c>> \o <<d>>
      BY <2>1, <3>2, Zenon DEF SettleOutputs, TwoOutputs
    <3> HIDE DEF c, d
    <3>4. <<c>> \o <<d>> = <<c, d>>
      <4>1. Together(c, d)
        BY ShortConcat, Zenon
      <4> QED BY <4>1 DEF Together
    <3> QED BY <3>2, <3>3, <3>4
  <2>2. CASE x >= DUST_LIMIT /\ ~(y >= DUST_LIMIT)
    <3>1. OneOutput(kept, o, x) /\ x \in {x, y}
      BY <1>16, <2>2, Zenon DEF OneOutput
    <3>2. SettleFits(outs, r, value, fee, t.rate) /\ OneOutput(outs, o, x + r)
      BY <1>17, <1>18, <1>19, <1>20, <3>1, SettleOne, Zenon
    <3> DEFINE c == Out(o, x + r, P2WSH)
    <3>3. outs = <<c>> /\ SettleOutputs(o, x, y, r) = <<c>> \o <<>>
      BY <2>2, <3>2, Zenon DEF SettleOutputs, OneOutput
    <3> HIDE DEF c
    <3>4. <<c>> \o <<>> = <<c>>
      OBVIOUS
    <3> QED BY <3>2, <3>3, <3>4
  <2>3. CASE ~(x >= DUST_LIMIT) /\ y >= DUST_LIMIT
    <3>1. OneOutput(kept, Other(o), y) /\ y \in {x, y}
      BY <1>16, <2>3, Zenon DEF OneOutput
    <3>2. SettleFits(outs, r, value, fee, t.rate) /\ OneOutput(outs, Other(o), y + r)
      BY <1>1, <1>17, <1>18, <1>19, <1>20, <3>1, SettleOne, Zenon
    <3> DEFINE c == Out(Other(o), y + r, P2WSH)
    <3>3. outs = <<c>> /\ SettleOutputs(o, x, y, r) = <<>> \o <<c>>
      BY <2>3, <3>2, Zenon DEF SettleOutputs, OneOutput
    <3> HIDE DEF c
    <3>4. <<>> \o <<c>> = <<c>>
      OBVIOUS
    <3> QED BY <3>2, <3>3, <3>4
  <2>4. x >= DUST_LIMIT \/ y >= DUST_LIMIT
    BY DEF SettleDividesByZero, DUST_LIMIT
  <2> QED BY <2>1, <2>2, <2>3, <2>4
<1>9. /\ outs \in Seq(Outs) /\ r \in Nat /\ fee \in Int
      /\ Weigh(OutValue, outs) \in Int /\ Weigh(OutValue, outs) <= value - fee
      /\ \/ Weigh(OutWeight, outs) = 172 /\ fee = 150 * t.rate
         \/ Weigh(OutWeight, outs) = 344 /\ fee = 193 * t.rate
  BY <1>8 DEF SettleFits
<1>10. SpendsOne(s, value, 221, outs)
  <2>1. \E kind, vout : s = Tx(kind, <<Spend(vout, value, 221)>>, outs)
    BY <1>5, Zenon
  <2>2. value \in Int /\ 221 \in Int
    BY <1>4
  <2> QED BY <2>1, <2>2, Zenon DEF SpendsOne
<1>11. PaysAsOne(s, value, 221, outs)
  <2>1. outs \in Seq(Outs)
    BY <1>9
  <2> QED BY <1>10, <2>1, SingleInput, Zenon
<1>12. FeeOf(s) \in Int /\ FeeOf(s) >= fee
  BY <1>4, <1>9, <1>11 DEF PaysAsOne
<1>13. VirtualSize(s) = (42 + (164 + 221) + Weigh(OutWeight, outs) + 3) \div 4
  BY <1>11 DEF PaysAsOne, TX_INPUT_BASE_WEIGHT
<1>14. VirtualSize(s) \in Nat /\ FeeOf(s) >= t.rate * VirtualSize(s)
  <2>1. CASE Weigh(OutWeight, outs) = 172 /\ fee = 150 * t.rate
    <3>1. VirtualSize(s) = 150
      BY <1>13, <2>1
    <3> QED BY <1>4, <1>12, <2>1, <3>1
  <2>2. CASE Weigh(OutWeight, outs) = 344 /\ fee = 193 * t.rate
    <3>1. VirtualSize(s) = 193
      BY <1>13, <2>2
    <3> QED BY <1>4, <1>12, <2>2, <3>1
  <2> QED BY <1>9, <2>1, <2>2
<1>15. SettleIs(s, funding, t, o, x, y, r)
  BY <1>7, <1>8, <1>9, <1>12, <1>14 DEF SettleIs
<1> QED BY <1>15

-----------------------------------------------------------------------------
(***************************************************************************)
(* What a party has of the published transactions.                         *)
(***************************************************************************)
Unspent(c, i, k) == ~(i < Len(c) /\ c[i + 1].inputs[1].vout = k)
Holding(c, p, i) ==
    Total([k \in DOMAIN c[i].outputs |->
             IF c[i].outputs[k].owner = p /\ Unspent(c, i, k) THEN c[i].outputs[k].value ELSE 0])
Gained(c, p) == Total([i \in DOMAIN c |-> Holding(c, p, i)])

\* What a party has received, by the transactions that pay it.
LEMMA ReceivedIsGained == \A p : Received(p) = Gained(chain, p)
  BY Zenon DEF Received, Gained, Holding, Unspent

\* The next transaction spends nothing of the party, or all it has.
Spares(a, b, p) == \A k \in DOMAIN a.outputs : b.inputs[1].vout = k => a.outputs[k].owner # p
Takes(a, b, p) == \A k \in DOMAIN a.outputs : a.outputs[k].owner = p => b.inputs[1].vout = k

\* A transaction counts for a party but for the output that the next one spends.
LEMMA HoldingIs ==
    ASSUME NEW c, NEW p, NEW i \in Nat, NEW j \in Nat, j = i + 1, NEW a, a = c[i], a.outputs \in Seq(Outs), Len(c) \in Nat
    PROVE  /\ i = Len(c) \/ Spares(a, c[j], p) => Holding(c, p, i) = Weigh(OwnValue(p), a.outputs)
           /\ i < Len(c) /\ Takes(a, c[j], p) => Holding(c, p, i) = 0
<1> DEFINE outs == a.outputs
           kept(k) == IF c[i].outputs[k].owner = p /\ Unspent(c, i, k) THEN c[i].outputs[k].value ELSE 0
           own == OwnValue(p)
           v == [k \in DOMAIN outs |-> own[outs[k]]]
           none == [o \in Outs |-> 0]
           z == [k \in DOMAIN outs |-> none[outs[k]]]
           h == [k \in DOMAIN outs |-> kept(k)]
<1>1. Holding(c, p, i) = Total(h)
  BY Zenon DEF Holding
<1>2. ASSUME i = Len(c) \/ Spares(a, c[j], p)
      PROVE  h = v
  <2> SUFFICES ASSUME NEW k \in DOMAIN outs PROVE kept(k) = own[outs[k]]
    OBVIOUS
  <2>1. outs[k] \in Outs
    OBVIOUS
  <2>2. own[outs[k]] = IF outs[k].owner = p THEN outs[k].value ELSE 0
    BY <2>1 DEF OwnValue
  <2>3. outs[k].owner = p => Unspent(c, i, k)
    <3>1. CASE i = Len(c)
      BY <3>1 DEF Unspent
    <3>2. CASE Spares(a, c[j], p)
      BY <3>2 DEF Unspent, Spares
    <3> QED BY <1>2, <3>1, <3>2
  <2> QED BY <2>2, <2>3
<1>3. ASSUME i < Len(c) /\ Takes(a, c[j], p)
      PROVE  h = z
  <2> SUFFICES ASSUME NEW k \in DOMAIN outs PROVE kept(k) = none[outs[k]]
    OBVIOUS
  <2>1. none[outs[k]] = 0
    OBVIOUS
  <2>2. outs[k].owner = p => ~Unspent(c, i, k)
    BY <1>3 DEF Unspent, Takes
  <2> QED BY <2>1, <2>2
<1>4. Total(v) = Weigh(own, outs) /\ Total(z) = Weigh(none, outs)
  BY Zenon DEF Weigh
<1>5. Weigh(none, outs) = 0
  <2>1. none \in [Outs -> Int] /\ \A k \in 1..Len(outs) : none[outs[k]] = 0
    OBVIOUS
  <2> HIDE DEF none, outs
  <2> QED BY <2>1, SomeWeight DEF outs
<1> HIDE DEF h, v, z, own, outs, none
<1> QED BY <1>1, <1>2, <1>3, <1>4, <1>5 DEF own, outs

Own(p, tx) == Weigh(OwnValue(p), tx.outputs)

\* What a transaction pays a party is an integer.
LEMMA OwnIsInt ==
    ASSUME NEW p, NEW tx, tx.outputs \in Seq(Outs)
    PROVE  Own(p, tx) \in Int
  BY OutsWeigh, WeighType DEF Own

\* Two transactions, the second of which spends nothing of the party.
LEMMA GainOfTwo ==
    ASSUME NEW a, NEW b, a.outputs \in Seq(Outs), b.outputs \in Seq(Outs), NEW p, Spares(a, b, p),
           NEW c, c = <<a, b>>
    PROVE  Gained(c, p) = Own(p, a) + Own(p, b)
<1> DEFINE v == [i \in DOMAIN c |-> Holding(c, p, i)]
<1>1. c[1] = a /\ c[2] = b /\ Len(c) = 2
  OBVIOUS
<1>2. Holding(c, p, 1) = Own(p, a)
  <2>1. 2 = 1 + 1 /\ 1 \in Nat /\ 2 \in Nat /\ Len(c) \in Nat /\ 1 < Len(c) /\ Spares(a, c[2], p)
    BY <1>1
  <2> QED BY <1>1, <2>1, HoldingIs DEF Own
<1>3. Holding(c, p, 2) = Own(p, b)
  <2>1. 3 = 2 + 1 /\ 3 \in Nat /\ 2 \in Nat /\ Len(c) \in Nat /\ 2 = Len(c)
    BY <1>1
  <2> QED BY <1>1, <2>1, HoldingIs DEF Own
<1>4. DOMAIN v = 1..2 /\ v[1] = Holding(c, p, 1) /\ v[2] = Holding(c, p, 2)
  OBVIOUS
<1>5. Gained(c, p) = Total(v)
  BY Zenon DEF Gained
<1> HIDE DEF v
<1>6. \A i \in 1..2 : v[i] \in Int
  BY <1>2, <1>3, <1>4, OwnIsInt
<1> QED BY <1>2, <1>3, <1>4, <1>5, <1>6, ShortTotal

\* Three transactions: the third spends all or nothing the party has of the second.
LEMMA GainOfThree ==
    ASSUME NEW a, NEW b, NEW d, a.outputs \in Seq(Outs), b.outputs \in Seq(Outs), d.outputs \in Seq(Outs),
           NEW p, Spares(a, b, p), NEW c, c = <<a, b, d>>
    PROVE  /\ Spares(b, d, p) => Gained(c, p) = Own(p, a) + Own(p, b) + Own(p, d)
           /\ Takes(b, d, p) => Gained(c, p) = Own(p, a) + Own(p, d)
<1> DEFINE v == [i \in DOMAIN c |-> Holding(c, p, i)]
<1>1. c[1] = a /\ c[2] = b /\ c[3] = d /\ Len(c) = 3
  OBVIOUS
<1>2. Holding(c, p, 1) = Own(p, a)
  <2>1. 2 = 1 + 1 /\ 1 \in Nat /\ 2 \in Nat /\ Len(c) \in Nat /\ 1 < Len(c) /\ Spares(a, c[2], p)
    BY <1>1
  <2> QED BY <1>1, <2>1, HoldingIs DEF Own
<1>3. /\ Spares(b, d, p) => Holding(c, p, 2) = Own(p, b)
      /\ Takes(b, d, p) => Holding(c, p, 2) = 0
  <2>1. 3 = 2 + 1 /\ 2 < Len(c) /\ 2 \in Nat /\ 3 \in Nat /\ Len(c) \in Nat /\ c[3] = d /\ c[2].outputs \in Seq(Outs)
    BY <1>1
  <2>2. b = c[2]
    BY <1>1
  <2> DEFINE i == 2
             j == 3
  <2>3. /\ i \in Nat /\ j \in Nat /\ j = i + 1 /\ Len(c) \in Nat /\ b = c[i] /\ i < Len(c)
        /\ c[i].outputs \in Seq(Outs) /\ d = c[j]
    BY <2>1, <2>2
  <2> HIDE DEF i, j
  <2>4. /\ Spares(b, d, p) => Holding(c, p, i) = Weigh(OwnValue(p), b.outputs)
        /\ Takes(b, d, p) => Holding(c, p, i) = 0
    BY ONLY <2>3, HoldingIs
  <2> QED BY <2>4 DEF i, Own
<1>4. Holding(c, p, 3) = Own(p, d)
  <2>1. 4 = 3 + 1 /\ 4 \in Nat /\ 3 \in Nat /\ Len(c) \in Nat /\ 3 = Len(c)
    BY <1>1
  <2>2. d = c[3]
    BY <1>1
  <2>3. 3 = Len(c) \/ Spares(d, c[4], p)
    BY <1>1
  <2>4. Holding(c, p, 3) = Weigh(OwnValue(p), d.outputs)
    <3> DEFINE i == 3
               j == 4
    <3>1. i \in Nat /\ j \in Nat /\ j = i + 1 /\ Len(c) \in Nat /\ d = c[i] /\ i = Len(c)
      BY <2>1, <2>2
    <3> HIDE DEF i, j
    <3>2. Holding(c, p, i) = Weigh(OwnValue(p), d.outputs)
      BY <3>1, HoldingIs
    <3> QED BY <3>2 DEF i
  <2> QED BY <2>4 DEF Own
<1>5. DOMAIN v = 1..3 /\ v[1] = Holding(c, p, 1) /\ v[2] = Holding(c, p, 2) /\ v[3] = Holding(c, p, 3)
  OBVIOUS
<1>6. Gained(c, p) = Total(v)
  BY Zenon DEF Gained
<1> HIDE DEF v
<1>7. Spares(b, d, p) \/ Takes(b, d, p) => \A i \in 1..3 : v[i] \in Int
  BY <1>2, <1>3, <1>4, <1>5, OwnIsInt
<1>8. ASSUME Spares(b, d, p) PROVE Gained(c, p) = Own(p, a) + Own(p, b) + Own(p, d)
  BY <1>2, <1>3, <1>4, <1>5, <1>6, <1>7, <1>8, ShortTotal
<1>9. ASSUME Takes(b, d, p) PROVE Gained(c, p) = Own(p, a) + Own(p, d)
  <2>1. Total(v) = v[1] + v[2] + v[3] /\ v[1] \in Int /\ v[3] \in Int
    BY <1>5, <1>7, <1>9, ShortTotal
  <2> QED BY <1>2, <1>3, <1>4, <1>5, <1>6, <1>9, <2>1
<1> QED BY <1>8, <1>9

-----------------------------------------------------------------------------
(***************************************************************************)
(* The two properties of a list of published transactions.                 *)
(***************************************************************************)
FundOf(t) == CreateFundingTransaction(t)
KeptChange(t, p) == IF Change(t, p) >= DUST_LIMIT THEN Change(t, p) ELSE 0

Paid(c, t) ==
    c # <<>> /\ BothFund(t) =>
      /\ PaysRate(<<c[1]>>, t.rate)
      /\ c[Len(c)].kind # "punish" => PaysRate(Tail(c), t.rate)
      /\ c[Len(c)].kind = "punish" => PaysRate(<<c[Len(c)]>>, PunishRate)
Fair(c, t, d) ==
    /\ \A p \in Parties : Gained(c, p) > KeptChange(t, p) + d[p] - DUST_LIMIT
    /\ c[Len(c)].kind = "punish" =>
         LET cheater == Other(c[Len(c)].outputs[1].owner)
         IN Gained(c, cheater) = KeptChange(t, cheater)

\* RateIsPaid, of a list of transactions.
LEMMA RateIsPaidIs == RateIsPaid <=> Paid(chain, terms)
  BY DEF RateIsPaid, Paid
\* EachGetsItsDue, of a list of transactions.
LEMMA EachGetsItsDueIs == EachGetsItsDue <=> (stage = "Closed" => Fair(chain, terms, due))
<1>1. \A p : Received(p) = Gained(chain, p) /\ ChangeKept(p) = KeptChange(terms, p)
  BY ReceivedIsGained DEF ChangeKept, KeptChange
<1> QED BY <1>1 DEF EachGetsItsDue, Fair

\* A transaction that spends the funding output leaves the change.
LEMMA FundIsSpared ==
    ASSUME NEW t, Funded(t), NEW x, x.inputs[1].vout = FundVout(FundOf(t)), NEW p \in Parties
    PROVE  /\ Spares(FundOf(t), x, p) /\ Own(p, FundOf(t)) = KeptChange(t, p) /\ KeptChange(t, p) \in Int
           /\ FundOf(t).outputs \in Seq(Outs)
<1> DEFINE funding == FundOf(t)
<1>1. /\ funding.outputs \in Seq(Outs) /\ FundVout(funding) \in 1..Len(funding.outputs)
      /\ funding.outputs[FundVout(funding)].owner = "fund"
      /\ Weigh(OwnValue(p), funding.outputs) = IF Change(t, p) >= DUST_LIMIT THEN Change(t, p) ELSE 0
  BY FundOutputs DEF FundOf
<1>2. Spares(funding, x, p)
  BY <1>1, OtherParty DEF Spares
<1>3. Own(p, funding) = KeptChange(t, p)
  BY <1>1 DEF Own, KeptChange
<1> HIDE DEF funding
<1>4. KeptChange(t, p) \in Int
  BY <1>1, <1>3, OwnIsInt
<1> QED BY <1>1, <1>2, <1>3, <1>4 DEF funding

\* The funding transaction pays the rate.
LEMMA FundIsPaid ==
    ASSUME NEW t, Funded(t), BothFund(t)
    PROVE  PaysRate(<<FundOf(t)>>, t.rate)
<1> DEFINE funding == FundOf(t)
<1>1. FeeOf(funding) \in Int /\ VirtualSize(funding) \in Int /\ FeeOf(funding) >= t.rate * VirtualSize(funding)
  BY FundPays DEF FundOf
<1>2. t.rate \in Nat
  BY SetAside
<1> HIDE DEF funding
<1> QED BY <1>1, <1>2, TwoRates DEF funding

\* What the last transaction gives to each party.
Rewards(x, d) ==
    /\ x.outputs \in Seq(Outs) /\ x.kind # "punish"
    /\ \A p \in Parties : d[p] \in Int /\ Own(p, x) > d[p] - DUST_LIMIT

\* The funding transaction and one that rewards the parties are fair.
LEMMA FairOfTwo ==
    ASSUME NEW t, Funded(t), NEW x, x.inputs[1].vout = FundVout(FundOf(t)), NEW d, Rewards(x, d),
           NEW c, c = <<FundOf(t), x>>
    PROVE  Fair(c, t, d)
<1>1. c[Len(c)] = x
  OBVIOUS
<1>2. x.outputs \in Seq(Outs) /\ x.kind # "punish"
  BY DEF Rewards
<1>3. ASSUME NEW p \in Parties PROVE Gained(c, p) > KeptChange(t, p) + d[p] - DUST_LIMIT
  <2> DEFINE funding == FundOf(t)
  <2>1. Spares(funding, x, p) /\ Own(p, funding) = KeptChange(t, p) /\ KeptChange(t, p) \in Int /\ funding.outputs \in Seq(Outs)
    BY FundIsSpared
  <2>2. Gained(c, p) = Own(p, funding) + Own(p, x)
    <3>1. c = <<funding, x>>
      OBVIOUS
    <3> HIDE DEF funding
    <3> QED BY <1>2, <2>1, <3>1, GainOfTwo
  <2>3. d[p] \in Int /\ Own(p, x) > d[p] - DUST_LIMIT
    BY DEF Rewards
  <2>4. Own(p, x) \in Int
    BY <1>2, OwnIsInt
  <2> QED BY <2>1, <2>2, <2>3, <2>4 DEF DUST_LIMIT
<1> QED BY <1>1, <1>2, <1>3 DEF Fair

Buffer(t) == CreateBufferTransaction(t, FundOf(t))

\* The buffer transaction leaves the change, and pays no party.
LEMMA BufferIsSpared ==
    ASSUME NEW t, Funded(t), NEW x, NEW p \in Parties
    PROVE  /\ Spares(FundOf(t), Buffer(t), p) /\ Own(p, FundOf(t)) = KeptChange(t, p) /\ KeptChange(t, p) \in Int
           /\ FundOf(t).outputs \in Seq(Outs) /\ Buffer(t).outputs \in Seq(Outs)
           /\ Spares(Buffer(t), x, p) /\ Takes(Buffer(t), x, p) /\ Own(p, Buffer(t)) = 0
<1> DEFINE b == Buffer(t)
           o == Out("buffer", FundOutputValue(t) - ExtraFee(t), P2WSH)
<1>1. b.inputs[1].vout = FundVout(FundOf(t)) /\ b.outputs = <<o>> /\ b.outputs \in Seq(Outs)
  BY BufferIs DEF FundOf, Buffer
<1>2. o.owner = "buffer" /\ o \in Outs
  <2>1. FundOutputValue(t) - ExtraFee(t) \in Int
    BY SetAside
  <2> QED BY <2>1, OutFields DEF Owners, P2WSH
<1> HIDE DEF o
<1>3. /\ Spares(FundOf(t), b, p) /\ Own(p, FundOf(t)) = KeptChange(t, p) /\ KeptChange(t, p) \in Int
      /\ FundOf(t).outputs \in Seq(Outs)
  BY <1>1, FundIsSpared
<1>4. Spares(b, x, p) /\ Takes(b, x, p)
  <2>1. \A k \in DOMAIN b.outputs : b.outputs[k].owner # p
    BY <1>1, <1>2, OtherParty
  <2> QED BY <2>1 DEF Spares, Takes
<1>5. Own(p, b) = 0
  <2>1. OwnValue(p)[o] = 0
    BY <1>2, OtherParty DEF OwnValue
  <2>2. Weigh(OwnValue(p), <<o>>) = OwnValue(p)[o]
    BY <1>2, OutsWeigh, WeighOne
  <2> QED BY <1>1, <2>1, <2>2 DEF Own
<1> QED BY <1>1, <1>3, <1>4, <1>5

\* So are the funding transaction, the buffer and one that rewards the parties.
LEMMA FairOfThree ==
    ASSUME NEW t, Funded(t), NEW x, NEW d, Rewards(x, d), NEW c, c = <<FundOf(t), Buffer(t), x>>
    PROVE  Fair(c, t, d)
<1>1. c[Len(c)] = x
  OBVIOUS
<1>2. x.outputs \in Seq(Outs) /\ x.kind # "punish"
  BY DEF Rewards
<1>3. ASSUME NEW p \in Parties PROVE Gained(c, p) > KeptChange(t, p) + d[p] - DUST_LIMIT
  <2> DEFINE funding == FundOf(t)
             b == Buffer(t)
  <2>1. /\ Spares(funding, b, p) /\ Own(p, funding) = KeptChange(t, p) /\ KeptChange(t, p) \in Int
        /\ funding.outputs \in Seq(Outs) /\ b.outputs \in Seq(Outs) /\ Spares(b, x, p) /\ Own(p, b) = 0
    BY BufferIsSpared
  <2>2. Gained(c, p) = Own(p, funding) + Own(p, b) + Own(p, x)
    <3>1. c = <<funding, b, x>>
      OBVIOUS
    <3> HIDE DEF funding, b
    <3> QED BY <1>2, <2>1, <3>1, GainOfThree
  <2>3. d[p] \in Int /\ Own(p, x) > d[p] - DUST_LIMIT
    BY DEF Rewards
  <2>4. Own(p, x) \in Int
    BY <1>2, OwnIsInt
  <2> QED BY <2>1, <2>2, <2>3, <2>4 DEF DUST_LIMIT
<1> QED BY <1>1, <1>2, <1>3 DEF Fair

-----------------------------------------------------------------------------
(***************************************************************************)
(* The payouts of a contract.                                              *)
(***************************************************************************)
PaysOut(x, value, witness, o, a, b) ==
    /\ x.kind # "punish" /\ SpendsOne(x, value, witness, x.outputs)
    /\ o \in Parties /\ a \in Nat /\ b \in Nat /\ Shares(x.outputs, o, a, b, P2WPKH)

Owes(d, o, a, b) == \A p \in Parties : d[p] = IF p = o THEN a ELSE b

\* Payouts reward the parties with what they are owed.
LEMMA PayoutRewards ==
    ASSUME NEW x, NEW value, NEW witness, NEW o, NEW a, NEW b, PaysOut(x, value, witness, o, a, b), NEW d,
           Owes(d, o, a, b)
    PROVE  Rewards(x, d)
<1>1. /\ x.kind # "punish" /\ o \in Parties /\ a \in Nat /\ b \in Nat /\ x.outputs \in Seq(Outs)
      /\ \A p \in Parties : LET share == IF p = o THEN a ELSE b
                            IN Weigh(OwnValue(p), x.outputs) = IF share >= DUST_LIMIT THEN share ELSE 0
  BY DEF PaysOut, Shares
<1>2. ASSUME NEW p \in Parties PROVE d[p] \in Int /\ Own(p, x) > d[p] - DUST_LIMIT
  BY <1>1 DEF Own, DUST_LIMIT, Owes
<1> QED BY <1>1, <1>2 DEF Rewards

\* Payouts of the whole collateral pay the rate, with the buffer if there is one.
LEMMA PayoutIsPaid ==
    ASSUME NEW t, Funded(t), NEW x, NEW o, NEW a, NEW b, a + b = TotalCollateral(t)
    PROVE  /\ PaysOut(x, FundOutputValue(t), 221, o, a, b) => Paid(<<FundOf(t), x>>, t)
           /\ t.channel /\ PaysOut(x, FundOutputValue(t) - ExtraFee(t), 551, o, a, b)
                => Paid(<<FundOf(t), Buffer(t), x>>, t)
<1> DEFINE rate == t.rate
           V == FundOutputValue(t)
           B == Buffer(t)
<1>1. /\ V \in Nat /\ TotalCollateral(t) \in Nat /\ ExtraFee(t) \in Nat /\ rate \in Nat
      /\ BothFund(t) => V = TotalCollateral(t) + ExtraFee(t) + 170 * rate
      /\ t.channel => ExtraFee(t) = 233 * rate
  BY SetAside
<1>2. FeeOf(B) = ExtraFee(t) /\ VirtualSize(B) = 150
  BY BufferIs DEF FundOf, Buffer
<1> HIDE DEF V, B, rate
<1>3. ASSUME PaysOut(x, V, 221, o, a, b) PROVE Paid(<<FundOf(t), x>>, t)
  <2>1. a \in Nat /\ b \in Nat /\ x.kind # "punish" /\ SpendsOne(x, V, 221, x.outputs) /\ Shares(x.outputs, o, a, b, P2WPKH)
    BY <1>3 DEF PaysOut
  <2>2. /\ FeeOf(x) \in Int /\ FeeOf(x) >= V - (a + b) /\ VirtualSize(x) \in Int /\ VirtualSize(x) <= 169
    BY <2>1, PayoutFee
  <2>3. BothFund(t) => PaysRate(<<x>>, rate)
    <3> SUFFICES ASSUME BothFund(t) PROVE PaysRate(<<x>>, rate)
      OBVIOUS
    <3>1. V - (a + b) >= 169 * rate
      BY <1>1
    <3>2. 169 * rate >= rate * VirtualSize(x)
      BY <1>1, <2>2, MoreBytesPayMore
    <3>3. FeeOf(x) >= rate * VirtualSize(x)
      <4> DEFINE m == rate * VirtualSize(x)
                 n == 169 * rate
      <4>1. m \in Int /\ n \in Int /\ V - (a + b) \in Int
        BY <1>1, <2>1, <2>2
      <4>2. FeeOf(x) >= V - (a + b) /\ V - (a + b) >= n /\ n >= m
        BY <2>2, <3>1, <3>2
      <4> HIDE DEF m, n
      <4>3. FeeOf(x) >= m
        BY <2>2, <4>1, <4>2
      <4> QED BY <4>3 DEF m
    <3> QED BY <1>1, <2>2, <3>3, TwoRates
  <2>4. BothFund(t) => PaysRate(<<FundOf(t)>>, rate)
    BY FundIsPaid DEF rate
  <2> DEFINE F == FundOf(t)
             c == <<F, x>>
  <2> HIDE DEF F
  <2>5. c[1] = F /\ c[Len(c)] = x /\ Tail(c) = <<x>>
    <3>1. Len(Tail(c)) = 1 /\ Tail(c)[1] = x /\ Tail(c) \in Seq({x})
      OBVIOUS
    <3> QED BY <3>1
  <2> HIDE DEF c
  <2>6. Paid(c, t)
    BY <2>1, <2>3, <2>4, <2>5 DEF Paid, rate, F
  <2> QED BY <2>6 DEF c, F
<1>4. ASSUME t.channel, PaysOut(x, V - ExtraFee(t), 551, o, a, b) PROVE Paid(<<FundOf(t), B, x>>, t)
  <2>1. /\ a \in Nat /\ b \in Nat /\ x.kind # "punish" /\ SpendsOne(x, V - ExtraFee(t), 551, x.outputs)
        /\ Shares(x.outputs, o, a, b, P2WPKH)
    BY <1>4 DEF PaysOut
  <2>2. /\ FeeOf(x) \in Int /\ FeeOf(x) >= (V - ExtraFee(t)) - (a + b) /\ VirtualSize(x) \in Int /\ VirtualSize(x) <= 252
    <3> DEFINE W == V - ExtraFee(t)
    <3>1. SpendsOne(x, W, 551, x.outputs)
      BY <2>1
    <3> HIDE DEF W
    <3>2. /\ FeeOf(x) \in Int /\ FeeOf(x) >= W - (a + b) /\ VirtualSize(x) \in Int /\ VirtualSize(x) <= 252
      BY <2>1, <3>1, PayoutFee
    <3> QED BY <3>2 DEF W
  <2>3. BothFund(t) => PaysRate(<<B, x>>, rate)
    <3> SUFFICES ASSUME BothFund(t) PROVE PaysRate(<<B, x>>, rate)
      OBVIOUS
    <3> DEFINE size == VirtualSize(B) + VirtualSize(x)
               n == 402 * rate
               m == rate * size
    <3>1. size \in Int /\ size <= 402
      BY <1>2, <2>2
    <3>2. n >= m
      <4> HIDE DEF size
      <4> QED BY <1>1, <3>1, MoreBytesPayMore
    <3>3. FeeOf(B) + FeeOf(x) >= n
      BY <1>1, <1>2, <1>4, <2>1, <2>2
    <3>4. m \in Int /\ n \in Int /\ FeeOf(B) + FeeOf(x) \in Int
      BY <1>1, <1>2, <2>2, <3>1
    <3>5. FeeOf(B) + FeeOf(x) >= m
      <4> DEFINE f == FeeOf(B) + FeeOf(x)
      <4>1. f >= n /\ n >= m /\ f \in Int /\ n \in Int /\ m \in Int
        BY <3>2, <3>3, <3>4
      <4> HIDE DEF f, n, m
      <4> QED BY <4>1 DEF f
    <3>6. FeeOf(B) \in Int /\ VirtualSize(B) \in Int
      BY <1>1, <1>2
    <3> QED BY <1>1, <2>2, <3>5, <3>6, TwoRates
  <2>4. BothFund(t) => PaysRate(<<FundOf(t)>>, rate)
    BY FundIsPaid DEF rate
  <2> DEFINE F == FundOf(t)
             c == <<F, B, x>>
  <2> HIDE DEF F
  <2>5. c[1] = F /\ c[Len(c)] = x /\ Tail(c) = <<B, x>>
    <3>1. Len(Tail(c)) = 2 /\ Tail(c)[1] = B /\ Tail(c)[2] = x /\ Tail(c) \in Seq({B, x})
      OBVIOUS
    <3> QED BY <3>1
  <2> HIDE DEF c
  <2>6. Paid(c, t)
    BY <2>1, <2>3, <2>4, <2>5 DEF Paid, rate, F
  <2> QED BY <2>6 DEF c, F
<1> QED BY <1>3, <1>4 DEF V, B

\* A CET pays out the payouts of its outcome.
LEMMA CetPaysOut ==
    ASSUME NEW t, Funded(t), NEW o \in Parties, NEW payout \in Payouts, NEW vout, NEW value \in Int, NEW witness \in Int,
           NEW spend, spend = Spend(vout, value, witness)
    PROVE  /\ PaysOut(CreateCet(t, o, payout, spend), value, witness, o, payout.offer, payout.accept)
           /\ CreateCet(t, o, payout, spend).inputs[1].vout = vout
<1> DEFINE x == CreateCet(t, o, payout, spend)
           outputs == PayoutOutputs(t, o, payout.offer, payout.accept)
<1>1. x = Tx("cet", <<spend>>, outputs)
  BY DEF CreateCet
<1>2. x.kind = "cet" /\ x.outputs = outputs /\ x.inputs = <<spend>>
  BY <1>1 DEF Tx
<1>3. payout.offer \in Nat /\ payout.accept \in Nat
  BY DEF Payouts, Amount
<1>4. Shares(outputs, o, payout.offer, payout.accept, P2WPKH)
  <2> DEFINE a == payout.offer
             b == payout.accept
  <2>1. ValidTerms(t) /\ P2WPKH \in {P2WSH, P2WPKH}
    BY DEF Funded
  <2>2. outputs = PayoutOutputs(t, o, a, b) /\ a \in Nat /\ b \in Nat
    BY <1>3
  <2> HIDE DEF outputs, a, b
  <2>3. Shares(outputs, o, a, b, P2WPKH)
    BY <2>1, <2>2, PayoutsPaid
  <2> QED BY <2>3 DEF a, b
<1>5. SpendsOne(x, value, witness, x.outputs)
  <2>1. x = Tx("cet", <<Spend(vout, value, witness)>>, x.outputs)
    BY <1>1, <1>2
  <2> QED BY <2>1, Zenon DEF SpendsOne
<1> HIDE DEF x, outputs
<1>6. x.inputs[1].vout = vout
  BY <1>2 DEF Spend
<1>7. PaysOut(x, value, witness, o, payout.offer, payout.accept)
  BY <1>2, <1>3, <1>4, <1>5 DEF PaysOut
<1> QED BY <1>6, <1>7 DEF x

\* A collaborative close pays out the proposed amounts.
LEMMA ClosePaysOut ==
    ASSUME NEW t, Funded(t), NEW o \in Parties, NEW a \in Nat, NEW b \in Nat,
           NEW x, x = CreateCollaborativeCloseTransaction(t, o, a, b, FundOf(t))
    PROVE  PaysOut(x, FundOutputValue(t), 221, o, a, b) /\ x.inputs[1].vout = FundVout(FundOf(t))
<1> DEFINE outputs == PayoutOutputs(t, o, a, b)
           value == FundOutputValue(t)
           vout == FundVout(FundOf(t))
           spend == Spend(vout, value, 221)
<1>1. value \in Nat /\ FundOutput(FundOf(t)).value = value
  BY FundOutputs, SetAside DEF FundOf
<1>2. x = Tx("close", <<spend>>, outputs)
  BY <1>1 DEF CreateCollaborativeCloseTransaction, SpendFund, MultisigWitness
<1>3. x.kind = "close" /\ x.outputs = outputs /\ x.inputs = <<spend>>
  BY <1>2 DEF Tx
<1>4. Shares(outputs, o, a, b, P2WPKH)
  <2>1. ValidTerms(t) /\ P2WPKH \in {P2WSH, P2WPKH}
    BY DEF Funded
  <2> HIDE DEF outputs
  <2>2. outputs = PayoutOutputs(t, o, a, b)
    BY DEF outputs
  <2> QED BY <2>1, <2>2, PayoutsPaid
<1>5. SpendsOne(x, value, 221, x.outputs)
  <2>1. x = Tx("close", <<Spend(vout, value, 221)>>, x.outputs)
    BY <1>2, <1>3
  <2>2. value \in Int /\ 221 \in Int
    BY <1>1
  <2> HIDE DEF vout, value
  <2> QED BY <2>1, <2>2, Zenon DEF SpendsOne
<1> HIDE DEF outputs, value, vout
<1>6. x.inputs[1].vout = vout
  BY <1>3 DEF Spend
<1>7. PaysOut(x, value, 221, o, a, b)
  BY <1>3, <1>4, <1>5 DEF PaysOut
<1> QED BY <1>6, <1>7 DEF vout, value

\* A refund pays out the collaterals, or everything to the accepting party.
LEMMA RefundPaysOut ==
    ASSUME NEW t, Funded(t), NEW o \in Parties, NEW flag \in BOOLEAN, NEW vout, NEW value \in Int, NEW witness \in Int,
           NEW spend, spend = Spend(vout, value, witness), NEW x, x = CreateRefundTransaction(t, o, flag, spend),
           NEW a, a = (IF flag THEN 0 ELSE t[o].collateral),
           NEW b, b = (IF flag THEN TotalCollateral(t) ELSE t[Other(o)].collateral)
    PROVE  PaysOut(x, value, witness, o, a, b) /\ x.inputs[1].vout = vout /\ a + b = TotalCollateral(t)
<1> DEFINE outputs == DiscardDust(<<Out(o, a, P2WPKH), Out(Other(o), b, P2WPKH)>>)
<1>1. x = Tx("refund", <<spend>>, outputs)
  BY Zenon DEF CreateRefundTransaction
<1>2. x.kind = "refund" /\ x.outputs = outputs /\ x.inputs = <<spend>>
  BY <1>1 DEF Tx
<1>3. a \in Nat /\ b \in Nat /\ a + b = TotalCollateral(t)
  <2>1. /\ t["offer"].collateral \in Nat /\ t["accept"].collateral \in Nat
        /\ TotalCollateral(t) = t["offer"].collateral + t["accept"].collateral
    BY OtherParty, TermTypes DEF Funded
  <2>2. \/ o = "offer" /\ Other(o) = "accept"
        \/ o = "accept" /\ Other(o) = "offer"
    BY OtherParty
  <2> QED BY <2>1, <2>2
<1>4. Shares(outputs, o, a, b, P2WPKH)
  <2>1. ValidTerms(t) /\ P2WPKH \in {P2WSH, P2WPKH}
    BY DEF Funded
  <2> HIDE DEF outputs
  <2>2. outputs = DiscardDust(<<Out(o, a, P2WPKH), Out(Other(o), b, P2WPKH)>>)
    BY DEF outputs
  <2> QED BY <1>3, <2>1, <2>2, PayoutsPaid
<1>5. SpendsOne(x, value, witness, x.outputs)
  <2>1. x = Tx("refund", <<Spend(vout, value, witness)>>, x.outputs)
    BY <1>1, <1>2
  <2> QED BY <2>1, Zenon DEF SpendsOne
<1> HIDE DEF outputs
<1>6. x.inputs[1].vout = vout
  BY <1>2 DEF Spend
<1> QED BY <1>2, <1>3, <1>4, <1>5, <1>6 DEF PaysOut

\* The transactions held for a contract between two parties.
HoldsFor(h, t, o, payouts, flag) ==
    /\ h = DlcTransactionsFor(t, o, payouts, FundOf(t), flag)
    /\ o \in Parties /\ flag \in BOOLEAN /\ payouts \in Seq(Payouts) /\ HasProperOutcomes(t, payouts)

\* The transactions that lead to the transaction that pays out.
Path(t, x) == IF t.channel THEN <<FundOf(t), Buffer(t), x>> ELSE <<FundOf(t), x>>

LeadsOut(t, x, o, a, b) ==
    /\ a + b = TotalCollateral(t)
    /\ ~t.channel => /\ PaysOut(x, FundOutputValue(t), 221, o, a, b)
                     /\ x.inputs[1].vout = FundVout(FundOf(t))
    /\ t.channel => PaysOut(x, FundOutputValue(t) - ExtraFee(t), 551, o, a, b)

\* A path that ends with payouts is paid for and fair.
LEMMA PathEnds ==
    ASSUME NEW t, Funded(t), NEW x, NEW o, NEW a, NEW b, LeadsOut(t, x, o, a, b), NEW d, Owes(d, o, a, b)
    PROVE  Paid(Path(t, x), t) /\ Fair(Path(t, x), t, d)
<1> DEFINE V == FundOutputValue(t)
           W == FundOutputValue(t) - ExtraFee(t)
<1>1. CASE t.channel
  <2>1. PaysOut(x, W, 551, o, a, b) /\ a + b = TotalCollateral(t)
    BY <1>1 DEF LeadsOut
  <2>2. Paid(<<FundOf(t), Buffer(t), x>>, t)
    BY <1>1, <2>1, PayoutIsPaid
  <2> HIDE DEF W
  <2>3. Rewards(x, d)
    BY <2>1, PayoutRewards, Zenon
  <2> DEFINE c == <<FundOf(t), Buffer(t), x>>
  <2>4. Fair(c, t, d)
    <3>1. c = <<FundOf(t), Buffer(t), x>>
      OBVIOUS
    <3> HIDE DEF c
    <3> QED BY <2>3, <3>1, FairOfThree
  <2> QED BY <1>1, <2>2, <2>4 DEF Path
<1>2. CASE ~t.channel
  <2>1. PaysOut(x, V, 221, o, a, b) /\ x.inputs[1].vout = FundVout(FundOf(t)) /\ a + b = TotalCollateral(t)
    BY <1>2 DEF LeadsOut
  <2>2. Paid(<<FundOf(t), x>>, t)
    BY <2>1, PayoutIsPaid
  <2> HIDE DEF V
  <2>3. Rewards(x, d)
    BY <2>1, PayoutRewards, Zenon
  <2> DEFINE c == <<FundOf(t), x>>
  <2>4. Fair(c, t, d)
    <3>1. c = <<FundOf(t), x>>
      OBVIOUS
    <3> HIDE DEF c
    <3> QED BY <2>1, <2>3, <3>1, FairOfTwo
  <2> QED BY <1>2, <2>2, <2>4 DEF Path
<1> QED BY <1>1, <1>2

\* What a refund gives to the party that offered the contract, and to the other.
RefundOf(t, o, flag) == IF flag THEN 0 ELSE t[o].collateral
RefundOfOther(t, o, flag) == IF flag THEN TotalCollateral(t) ELSE t[Other(o)].collateral

\* Everything that the parties hold for a contract leads to a fair end.
LEMMA HeldPaysOut ==
    ASSUME NEW t, Funded(t), NEW h, NEW o, NEW payouts, NEW flag, HoldsFor(h, t, o, payouts, flag)
    PROVE  /\ t.channel \in BOOLEAN /\ h.offerer = o /\ h.payouts = payouts /\ DOMAIN h.cets = DOMAIN payouts
           /\ h.first = IF t.channel THEN <<Buffer(t)>> ELSE <<>>
           /\ \A x : <<FundOf(t)>> \o Append(h.first, x) = Path(t, x)
           /\ \A i \in DOMAIN payouts : \A d :
                Owes(d, o, payouts[i].offer, payouts[i].accept) =>
                   Paid(Path(t, h.cets[i]), t) /\ Fair(Path(t, h.cets[i]), t, d)
           /\ \A d :
                Owes(d, o, RefundOf(t, o, flag), RefundOfOther(t, o, flag)) =>
                   Paid(Path(t, h.refund), t) /\ Fair(Path(t, h.refund), t, d)
<1> DEFINE funding == FundOf(t)
           V == FundOutputValue(t)
           W == FundOutputValue(t) - ExtraFee(t)
           B == Buffer(t)
           vout == IF t.channel THEN 1 ELSE FundVout(funding)
           value == IF t.channel THEN W ELSE V
           witness == IF t.channel THEN 551 ELSE 221
           spend == Spend(vout, value, witness)
<1>1. /\ o \in Parties /\ flag \in BOOLEAN /\ payouts \in Seq(Payouts) /\ t.channel \in BOOLEAN
      /\ HasProperOutcomes(t, payouts) /\ h = DlcTransactionsFor(t, o, payouts, funding, flag)
  BY DEF HoldsFor, Funded, ValidTerms
<1>2. V \in Nat /\ W \in Int /\ FundOutput(funding).value = V
  BY FundOutputs, SetAside DEF FundOf
<1>3. B.outputs[1].value = W
  <2>1. B.outputs = <<Out("buffer", W, P2WSH)>>
    BY BufferIs DEF FundOf, Buffer
  <2> HIDE DEF B, W
  <2> QED BY <2>1 DEF Out
<1>4. /\ h.offerer = o /\ h.payouts = payouts
      /\ h.first = (IF t.channel THEN <<B>> ELSE <<>>)
      /\ h.cets = [i \in DOMAIN payouts |-> CreateCet(t, o, payouts[i], spend)]
      /\ h.refund = CreateRefundTransaction(t, o, flag, spend)
  <2>1. spend = IF t.channel THEN Spend(1, CreateBufferTransaction(t, funding).outputs[1].value, BufferWitness)
                ELSE SpendFund(funding)
    <3>1. 221 + 330 = 551
      OBVIOUS
    <3>2. CreateBufferTransaction(t, funding) = B
      BY DEF Buffer
    <3>3. CASE t.channel
      BY <1>3, <3>1, <3>2, <3>3 DEF BufferWitness, MultisigWitness, CET_EXTRA_WEIGHT
    <3>4. CASE ~t.channel
      BY <1>2, <3>4 DEF SpendFund, MultisigWitness
    <3> QED BY <3>3, <3>4
  <2> HIDE DEF spend
  <2> QED BY <1>1, <2>1 DEF DlcTransactionsFor, Buffer
<1>5. spend = Spend(vout, value, witness) /\ value \in Int /\ witness \in Int
  BY <1>2
<1>6. ~t.channel => vout = FundVout(funding) /\ value = V /\ witness = 221
  OBVIOUS
<1>7. t.channel => value = W /\ witness = 551
  OBVIOUS
<1> HIDE DEF spend, vout, value, witness, V, B, W, funding
<1>8. ASSUME NEW i \in DOMAIN payouts, NEW d, Owes(d, o, payouts[i].offer, payouts[i].accept)
      PROVE  Paid(Path(t, h.cets[i]), t) /\ Fair(Path(t, h.cets[i]), t, d)
  <2> DEFINE payout == payouts[i]
             x == CreateCet(t, o, payout, spend)
             a == payout.offer
             b == payout.accept
  <2>1. payout \in Payouts
    BY <1>1
  <2>2. h.cets[i] = x
    BY <1>4
  <2>3. a + b = TotalCollateral(t)
    BY <1>1 DEF HasProperOutcomes
  <2> HIDE DEF payout
  <2>4. PaysOut(x, value, witness, o, a, b) /\ x.inputs[1].vout = vout
    BY <1>1, <1>5, <2>1, CetPaysOut
  <2>5. Owes(d, o, a, b)
    BY <1>8 DEF payout
  <2> HIDE DEF x, a, b
  <2>6. ~t.channel => PaysOut(x, V, 221, o, a, b) /\ x.inputs[1].vout = FundVout(funding)
    BY <1>6, <2>4
  <2>7. t.channel => PaysOut(x, W, 551, o, a, b)
    BY <1>7, <2>4
  <2>8. Paid(Path(t, x), t) /\ Fair(Path(t, x), t, d)
    <3>1. LeadsOut(t, x, o, a, b)
      BY <2>3, <2>6, <2>7 DEF LeadsOut, V, W, funding
    <3> QED BY <2>5, <3>1, PathEnds, Zenon
  <2> QED BY <2>2, <2>8
<1>9. ASSUME NEW d, Owes(d, o, RefundOf(t, o, flag), RefundOfOther(t, o, flag))
      PROVE  Paid(Path(t, h.refund), t) /\ Fair(Path(t, h.refund), t, d)
  <2> DEFINE x == CreateRefundTransaction(t, o, flag, spend)
             a == IF flag THEN 0 ELSE t[o].collateral
             b == IF flag THEN TotalCollateral(t) ELSE t[Other(o)].collateral
  <2>1. h.refund = x
    BY <1>4
  <2>2. x = CreateRefundTransaction(t, o, flag, spend) /\ a = (IF flag THEN 0 ELSE t[o].collateral)
        /\ b = (IF flag THEN TotalCollateral(t) ELSE t[Other(o)].collateral)
    OBVIOUS
  <2>3. Owes(d, o, a, b)
    BY <1>9, Zenon DEF RefundOf, RefundOfOther
  <2> HIDE DEF x, a, b
  <2>4. PaysOut(x, value, witness, o, a, b) /\ x.inputs[1].vout = vout /\ a + b = TotalCollateral(t)
    BY <1>1, <1>5, <2>2, RefundPaysOut
  <2>6. ~t.channel => PaysOut(x, V, 221, o, a, b) /\ x.inputs[1].vout = FundVout(funding)
    BY <1>6, <2>4
  <2>7. t.channel => PaysOut(x, W, 551, o, a, b)
    BY <1>7, <2>4
  <2>8. Paid(Path(t, x), t) /\ Fair(Path(t, x), t, d)
    <3>1. LeadsOut(t, x, o, a, b)
      BY <2>4, <2>6, <2>7 DEF LeadsOut, V, W, funding
    <3> QED BY <2>3, <3>1, PathEnds, Zenon
  <2> QED BY <2>1, <2>8
<1>10. \A x : <<FundOf(t)>> \o Append(h.first, x) = Path(t, x)
  <2> TAKE x
  <2>1. CASE t.channel
    <3> DEFINE s == <<funding>> \o Append(<<B>>, x)
               r == <<funding, B, x>>
    <3>1. s \in Seq({funding, B, x}) /\ r \in Seq({funding, B, x}) /\ Len(s) = 3 /\ Len(r) = 3
      OBVIOUS
    <3>2. s[1] = r[1] /\ s[2] = r[2] /\ s[3] = r[3]
      OBVIOUS
    <3> HIDE DEF s, r
    <3>3. s = r
      BY <3>1, <3>2
    <3> QED BY <1>4, <2>1, <3>3 DEF s, r, Path, funding, B
  <2>2. CASE ~t.channel
    <3> DEFINE s == <<funding>> \o Append(<<>>, x)
               r == <<funding, x>>
    <3>1. s \in Seq({funding, x}) /\ r \in Seq({funding, x}) /\ Len(s) = 2 /\ Len(r) = 2
      OBVIOUS
    <3>2. s[1] = r[1] /\ s[2] = r[2]
      OBVIOUS
    <3> HIDE DEF s, r
    <3>3. s = r
      BY <3>1, <3>2
    <3> QED BY <1>4, <2>2, <3>3 DEF s, r, Path, funding
  <2> QED BY <2>1, <2>2
<1> QED BY <1>1, <1>4, <1>8, <1>9, <1>10 DEF B

-----------------------------------------------------------------------------
(***************************************************************************)
(* Settlements.                                                            *)
(***************************************************************************)
\* A settlement that gives x to the party that offers it and y to the other.
Settles(s, t, o, x, y, r) ==
    /\ o \in Parties /\ x \in Nat /\ y \in Nat /\ x + y = TotalCollateral(t)
    /\ ~SettleDividesByZero(x, y)
    /\ SettleIs(s, FundOf(t), t, o, x, y, r)

SettleShape(s, o, x, y, r) ==
    /\ x \in Nat /\ y \in Nat /\ r \in Nat /\ o \in Parties
    /\ \/ x >= DUST_LIMIT /\ y >= DUST_LIMIT /\ TwoOutputs(s.outputs, o, x + r, y + r)
       \/ x >= DUST_LIMIT /\ y < DUST_LIMIT /\ OneOutput(s.outputs, o, x + r)
       \/ x < DUST_LIMIT /\ y >= DUST_LIMIT /\ OneOutput(s.outputs, Other(o), y + r)

\* A settlement has an output for each share that is not dust.
LEMMA SettleHasShape ==
    ASSUME NEW s, NEW t, NEW o, NEW x, NEW y, NEW r, Settles(s, t, o, x, y, r)
    PROVE  SettleShape(s, o, x, y, r)
<1>1. /\ o \in Parties /\ x \in Nat /\ y \in Nat /\ ~SettleDividesByZero(x, y) /\ r \in Nat
      /\ s.outputs = SettleOutputs(o, x, y, r)
  BY DEF Settles, SettleIs
<1> DEFINE a == Out(o, x + r, P2WSH)
           b == Out(Other(o), y + r, P2WSH)
<1>2. s.outputs = (IF x >= DUST_LIMIT THEN <<a>> ELSE <<>>) \o (IF y >= DUST_LIMIT THEN <<b>> ELSE <<>>)
  BY <1>1 DEF SettleOutputs
<1>3. /\ TwoOutputs(s.outputs, o, x + r, y + r) <=> s.outputs = <<a, b>>
      /\ OneOutput(s.outputs, o, x + r) <=> s.outputs = <<a>>
      /\ OneOutput(s.outputs, Other(o), y + r) <=> s.outputs = <<b>>
  BY Zenon DEF TwoOutputs, OneOutput
<1> HIDE DEF a, b
<1>4. Alone(a) /\ Alone(b) /\ Together(a, b)
  BY ShortConcat, Zenon
<1>5. /\ x >= DUST_LIMIT /\ y >= DUST_LIMIT => s.outputs = <<a, b>>
      /\ x >= DUST_LIMIT /\ y < DUST_LIMIT => s.outputs = <<a>>
      /\ x < DUST_LIMIT /\ y >= DUST_LIMIT => s.outputs = <<b>>
  <2>1. DUST_LIMIT = 1000
    BY DEF DUST_LIMIT
  <2>2. ASSUME x >= DUST_LIMIT, y >= DUST_LIMIT PROVE s.outputs = <<a, b>>
    BY <1>2, <1>4, <2>2 DEF Together
  <2>3. ASSUME x >= DUST_LIMIT, y < DUST_LIMIT PROVE s.outputs = <<a>>
    <3>1. ~(y >= DUST_LIMIT)
      BY <1>1, <2>1, <2>3
    <3> QED BY <1>2, <1>4, <2>3, <3>1 DEF Alone
  <2>4. ASSUME x < DUST_LIMIT, y >= DUST_LIMIT PROVE s.outputs = <<b>>
    <3>1. ~(x >= DUST_LIMIT)
      BY <1>1, <2>1, <2>4
    <3> QED BY <1>2, <1>4, <2>4, <3>1 DEF Alone
  <2> QED BY <2>2, <2>3, <2>4
<1> QED BY <1>1, <1>3, <1>5 DEF SettleShape, SettleDividesByZero, DUST_LIMIT

\* It gives each party its share, raised by what was left of the fees.
LEMMA SettleOwn ==
    ASSUME NEW s, NEW o, NEW x, NEW y, NEW r, SettleShape(s, o, x, y, r), NEW p \in Parties
    PROVE  LET share == IF p = o THEN x ELSE y
           IN Own(p, s) = IF share >= DUST_LIMIT THEN share + r ELSE 0
<1> DEFINE a == Out(o, x + r, P2WSH)
           b == Out(Other(o), y + r, P2WSH)
           own == OwnValue(p)
<1>1. /\ o \in Owners /\ Other(o) \in Owners /\ Other(o) # o
      /\ p = o \/ p = Other(o)
  BY OtherParty DEF SettleShape
<1>2. x \in Nat /\ y \in Nat /\ r \in Nat
  BY DEF SettleShape
<1>3. /\ a \in Outs /\ a.owner = o /\ a.value = x + r
      /\ b \in Outs /\ b.owner = Other(o) /\ b.value = y + r
  BY <1>1, <1>2, OutFields DEF P2WSH
<1>4. /\ own[a] = (IF p = o THEN x + r ELSE 0)
      /\ own[b] = (IF p = o THEN 0 ELSE y + r)
  BY <1>1, <1>3 DEF OwnValue
<1>5. \/ x >= DUST_LIMIT /\ y >= DUST_LIMIT /\ s.outputs = <<a, b>>
      \/ x >= DUST_LIMIT /\ ~(y >= DUST_LIMIT) /\ s.outputs = <<a>>
      \/ ~(x >= DUST_LIMIT) /\ y >= DUST_LIMIT /\ s.outputs = <<b>>
  BY <1>2 DEF SettleShape, TwoOutputs, OneOutput, DUST_LIMIT
<1> HIDE DEF a, b
<1>6. /\ Weigh(own, <<a, b>>) = own[a] + own[b]
      /\ Weigh(own, <<a>>) = own[a] /\ Weigh(own, <<b>>) = own[b]
  BY <1>3, OutsWeigh, WeighOne, WeighTwo
<1>7. Own(p, s) = Weigh(own, s.outputs)
  BY DEF Own
<1> HIDE DEF own
<1> QED BY <1>1, <1>2, <1>4, <1>5, <1>6, <1>7

\* A published settlement is fair.
LEMMA SettleEnds ==
    ASSUME NEW s, NEW t, Funded(t), NEW o, NEW x, NEW y, NEW r, Settles(s, t, o, x, y, r), NEW d, Owes(d, o, x, y)
    PROVE  Fair(<<FundOf(t), s>>, t, d)
<1>1. /\ s.kind = "settle" /\ s.outputs \in Seq(Outs) /\ s.inputs[1].vout = FundVout(FundOf(t))
      /\ x \in Nat /\ y \in Nat /\ r \in Nat
  BY DEF Settles, SettleIs
<1>2. ASSUME NEW p \in Parties PROVE d[p] \in Int /\ Own(p, s) > d[p] - DUST_LIMIT
  <2>1. SettleShape(s, o, x, y, r)
    BY SettleHasShape
  <2>2. LET share == IF p = o THEN x ELSE y
        IN Own(p, s) = IF share >= DUST_LIMIT THEN share + r ELSE 0
    BY <2>1, SettleOwn
  <2>3. d[p] = IF p = o THEN x ELSE y
    BY DEF Owes
  <2> QED BY <1>1, <2>2, <2>3 DEF DUST_LIMIT
<1>3. Rewards(s, d)
  BY <1>1, <1>2 DEF Rewards
<1> DEFINE c == <<FundOf(t), s>>
<1>4. c = <<FundOf(t), s>>
  OBVIOUS
<1> HIDE DEF c
<1>5. Fair(c, t, d)
  BY <1>1, <1>3, <1>4, FairOfTwo
<1> QED BY <1>5 DEF c

-----------------------------------------------------------------------------
(***************************************************************************)
(* The states that a channel revokes.                                      *)
(***************************************************************************)
SettleAmounts(t) == {a \in SettlePayouts[t] : /\ a <= TotalCollateral(t)
                                              /\ ~SettleDividesByZero(TotalCollateral(t) - a, a)}
SettleOf(t, o, a) == CreateSettleTransaction(t, o, TotalCollateral(t) - a, a, FundOf(t))
Entry(tx, o) == [tx |-> tx, offerer |-> o]
Entries(t) ==
    {Entry(Buffer(t), o) : o \in Parties}
      \cup UNION {{Entry(SettleOf(t, o, a), o) : a \in SettleAmounts(t)} : o \in Parties}

\* What is known of the terms of a channel that was opened.
OpenChannel(t) == t \in Terms /\ Funded(t) /\ t.channel

\* Any settlement of a channel has that form.
LEMMA SettleOfSettles ==
    ASSUME NEW t, OpenChannel(t), NEW o \in Parties, NEW a \in SettleAmounts(t)
    PROVE  \E r : Settles(SettleOf(t, o, a), t, o, TotalCollateral(t) - a, a, r)
<1> DEFINE x == TotalCollateral(t) - a
           s == SettleOf(t, o, a)
<1>1. TotalCollateral(t) \in Nat /\ a \in Nat
  BY SetAside, AmountsAssumption DEF OpenChannel, SettleAmounts, Amount
<1>2. x \in Nat /\ x + a = TotalCollateral(t) /\ ~SettleDividesByZero(x, a)
  BY <1>1 DEF SettleAmounts
<1>3. s = CreateSettleTransaction(t, o, x, a, FundOf(t))
  BY DEF SettleOf
<1> HIDE DEF x, s
<1>4. \E r : SettleIs(s, FundOf(t), t, o, x, a, r)
  BY <1>1, <1>2, <1>3, SettlePays DEF OpenChannel, FundOf
<1>5. PICK r : Settles(s, t, o, x, a, r)
  BY <1>1, <1>2, <1>4 DEF Settles
<1> QED BY <1>5 DEF x, s

\* An entry is a buffer transaction or a settlement.
SettleEntry(e, t, x, y, r) == Settles(e.tx, t, e.offerer, x, y, r) /\ y \in SettlePayouts[t]
\* A revoked transaction is one of the two.
LEMMA EntryIs ==
    ASSUME NEW t, OpenChannel(t), NEW e \in Entries(t)
    PROVE  /\ e.offerer \in Parties
           /\ e.tx = Buffer(t) \/ \E x, y, r : SettleEntry(e, t, x, y, r)
<1>1. CASE e \in {Entry(Buffer(t), o) : o \in Parties}
  <2>1. PICK o \in Parties : e = Entry(Buffer(t), o)
    BY <1>1
  <2>2. e.tx = Buffer(t) /\ e.offerer = o
    BY <2>1 DEF Entry
  <2> QED BY <2>2
<1>2. CASE e \in UNION {{Entry(SettleOf(t, o, a), o) : a \in SettleAmounts(t)} : o \in Parties}
  <2>1. PICK o \in Parties : e \in {Entry(SettleOf(t, o, a), o) : a \in SettleAmounts(t)}
    BY <1>2
  <2>2. PICK a \in SettleAmounts(t) : e = Entry(SettleOf(t, o, a), o)
    BY <2>1
  <2>3. e.tx = SettleOf(t, o, a) /\ e.offerer = o
    BY <2>2 DEF Entry
  <2>4. PICK r : Settles(SettleOf(t, o, a), t, o, TotalCollateral(t) - a, a, r)
    BY SettleOfSettles
  <2>5. a \in SettlePayouts[t]
    BY DEF SettleAmounts
  <2> DEFINE x == TotalCollateral(t) - a
  <2>6. SettleEntry(e, t, x, a, r)
    BY <2>3, <2>4, <2>5 DEF SettleEntry
  <2> HIDE DEF x
  <2> QED BY <2>3, <2>6
<1> QED BY <1>1, <1>2 DEF Entries

\* It spends the funding output and pays the rate.
LEMMA EntryFacts ==
    ASSUME NEW t, OpenChannel(t), NEW e \in Entries(t)
    PROVE  /\ e.tx.kind \in {"buffer", "settle"} /\ e.tx.outputs \in Seq(Outs)
           /\ e.tx.inputs[1].vout = FundVout(FundOf(t))
           /\ FeeOf(e.tx) \in Int /\ VirtualSize(e.tx) \in Int
           /\ FeeOf(e.tx) >= t.rate * VirtualSize(e.tx)
<1>1. CASE e.tx = Buffer(t)
  <2>1. /\ ExtraFee(t) = 233 * t.rate /\ t.rate \in Nat
    BY SetAside DEF OpenChannel
  <2>2. /\ e.tx.kind = "buffer" /\ e.tx.inputs[1].vout = FundVout(FundOf(t)) /\ e.tx.outputs \in Seq(Outs)
        /\ FeeOf(e.tx) = ExtraFee(t) /\ VirtualSize(e.tx) = 150
    BY <1>1, BufferIs DEF OpenChannel, Buffer, FundOf
  <2> QED BY <2>1, <2>2
<1>2. CASE \E x, y, r : SettleEntry(e, t, x, y, r)
  BY <1>2 DEF SettleEntry, Settles, SettleIs
<1> QED BY <1>1, <1>2, EntryIs

\* Its publication is paid for.
LEMMA EntryPaid ==
    ASSUME NEW t, OpenChannel(t), NEW e \in Entries(t)
    PROVE  Paid(<<FundOf(t), e.tx>>, t)
<1> DEFINE F == FundOf(t)
           x == e.tx
           c == <<F, x>>
           rate == t.rate
<1>1. x.kind # "punish" /\ FeeOf(x) \in Int /\ VirtualSize(x) \in Int /\ FeeOf(x) >= rate * VirtualSize(x)
  BY EntryFacts
<1>2. BothFund(t) => PaysRate(<<F>>, rate)
  BY FundIsPaid DEF OpenChannel
<1>3. rate \in Nat
  BY SetAside DEF OpenChannel
<1> HIDE DEF F, x, rate
<1>4. PaysRate(<<x>>, rate)
  BY <1>1, <1>3, TwoRates
<1>5. c[1] = F /\ c[Len(c)] = x /\ Tail(c) = <<x>>
  <2>1. Len(Tail(c)) = 1 /\ Tail(c)[1] = x /\ Tail(c) \in Seq({x})
    OBVIOUS
  <2> QED BY <2>1
<1> HIDE DEF c
<1>6. Paid(c, t)
  BY <1>1, <1>2, <1>4, <1>5 DEF Paid, rate
<1> QED BY <1>6 DEF c, F, x

-----------------------------------------------------------------------------
(***************************************************************************)
(* The punishment of a revoked state.                                      *)
(***************************************************************************)
LEMMA PunishIs ==
    ASSUME NEW e, NEW q \in Parties, e.tx.kind \in {"buffer", "settle"}, e.tx.outputs \in Seq(Outs),
           NEW v, v = PunishedOutput(e, q), v \in DOMAIN e.tx.outputs,
           NEW x, x = CreatePunishTransaction(e, q)
    PROVE  /\ x.kind = "punish" /\ x.inputs[1].vout = v /\ x.outputs \in Seq(Outs) /\ x.outputs[1].owner = q
           /\ PunishFee(e) \in Nat /\ e.tx.outputs[v].value \in Int
           /\ Own(q, x) = e.tx.outputs[v].value - PunishFee(e) /\ Own(Other(q), x) = 0
           /\ PaysRate(<<x>>, PunishRate)
<1> DEFINE value == e.tx.outputs[v].value
           fee == PunishFee(e)
           witness == PunishWitness(e.tx.kind)
           o == Out(q, value - fee, P2WPKH)
           spend == Spend(v, value, witness)
           outputs == <<o>>
<1>1. value \in Int
  <2>1. e.tx.outputs[v] \in Outs
    OBVIOUS
  <2> QED BY <2>1 DEF Outs
<1>2. PunishRate \in Nat
  BY AmountsAssumption
<1>4. \/ e.tx.kind = "buffer" /\ fee = 220 * PunishRate /\ witness = 547
      \/ e.tx.kind = "settle" /\ fee = 174 * PunishRate /\ witness = 365
  <2>1. CASE e.tx.kind = "buffer"
    BY <1>2, <2>1 DEF PunishFee, PunishFeeOf, WeightToFee, PUNISH_BUFFER_INPUT_WEIGHT, P2WPKH, PunishWitness
  <2>2. CASE e.tx.kind = "settle"
    BY <1>2, <2>2 DEF PunishFee, PunishFeeOf, WeightToFee, PUNISH_SETTLE_INPUT_WEIGHT, P2WPKH, PunishWitness
  <2> QED BY <2>1, <2>2
<1>5. fee \in Nat /\ witness \in Int
  <2> HIDE DEF fee, witness
  <2> QED BY <1>2, <1>4
<1>6. x = Tx("punish", <<spend>>, outputs)
  BY DEF CreatePunishTransaction
<1> HIDE DEF value, fee, witness
<1>7. o \in Outs /\ o.owner = q /\ o.value = value - fee /\ o.spk = 22
  BY <1>1, <1>5, OtherParty, OutFields DEF P2WPKH
<1> HIDE DEF o
<1>8. x.kind = "punish" /\ x.inputs = <<spend>> /\ x.outputs = outputs
  BY <1>6 DEF Tx
<1>9. outputs \in Seq(Outs) /\ outputs[1] = o /\ spend.vout = v
  BY <1>7 DEF Spend
<1>10. /\ Weigh(OwnValue(q), outputs) = OwnValue(q)[o]
       /\ Weigh(OwnValue(Other(q)), outputs) = OwnValue(Other(q))[o]
       /\ Weigh(OutValue, outputs) = OutValue[o] /\ Weigh(OutWeight, outputs) = OutWeight[o]
  <2>1. ASSUME NEW m \in [Outs -> Int] PROVE Weigh(m, <<o>>) = m[o]
    BY <1>7, WeighOne
  <2> QED BY <2>1, OutsWeigh
<1>11. OwnValue(q)[o] = value - fee /\ OwnValue(Other(q))[o] = 0 /\ OutValue[o] = value - fee /\ OutWeight[o] = 124
  BY <1>7, OtherParty DEF OwnValue, OutValue, OutWeight
<1>12. SpendsOne(x, value, witness, outputs)
  <2>1. x = Tx("punish", <<Spend(v, value, witness)>>, outputs)
    BY <1>6
  <2> QED BY <1>1, <1>5, <2>1, Zenon DEF SpendsOne
<1> HIDE DEF outputs
<1>13. PaysAsOne(x, value, witness, outputs)
  BY <1>9, <1>12, SingleInput, Zenon
<1>14. /\ FeeOf(x) = value - (value - fee) /\ FeeOf(x) \in Int /\ VirtualSize(x) \in Int
       /\ VirtualSize(x) = (42 + (164 + witness) + 124 + 3) \div 4
  BY <1>10, <1>11, <1>13 DEF PaysAsOne, TX_INPUT_BASE_WEIGHT
<1>15. FeeOf(x) = fee
  BY <1>1, <1>5, <1>14
<1>16. FeeOf(x) >= PunishRate * VirtualSize(x)
  <2>1. CASE fee = 220 * PunishRate /\ witness = 547
    <3>1. VirtualSize(x) = 220
      BY <1>14, <2>1
    <3> QED BY <1>2, <1>15, <2>1, <3>1
  <2>2. CASE fee = 174 * PunishRate /\ witness = 365
    <3>1. VirtualSize(x) = 174
      BY <1>14, <2>2
    <3> QED BY <1>2, <1>15, <2>2, <3>1
  <2> QED BY <1>4, <2>1, <2>2
<1>17. PaysRate(<<x>>, PunishRate)
  BY <1>2, <1>14, <1>16, TwoRates
<1>18. x.outputs \in Seq(Outs) /\ x.outputs[1].owner = q /\ x.inputs[1].vout = v
  BY <1>7, <1>8, <1>9
<1>19. Own(q, x) = value - fee /\ Own(Other(q), x) = 0
  BY <1>8, <1>10, <1>11 DEF Own
<1> QED BY <1>1, <1>5, <1>8, <1>17, <1>18, <1>19 DEF value, fee

\* The punisher takes the cheater's output, or the only one there is, which is
\* worth the whole collateral but dust.
PunishTakes(tx, x, q, value, total) ==
    /\ Takes(tx, x, Other(q))
    /\ \/ Spares(tx, x, q) /\ Own(q, tx) + value > total - DUST_LIMIT /\ Own(q, tx) \in Int
       \/ Takes(tx, x, q) /\ value > total - DUST_LIMIT

\* PunishedOutput is an output the cheater has, and leaves it with none.
LEMMA PunishTakesAll ==
    ASSUME NEW t, OpenChannel(t), NEW e \in Entries(t), NEW q \in Parties,
           NEW v, v = PunishedOutput(e, q), v \in DOMAIN e.tx.outputs, NEW x, x.inputs[1].vout = v
    PROVE  PunishTakes(e.tx, x, q, e.tx.outputs[v].value, TotalCollateral(t))
<1> DEFINE tx == e.tx
           total == TotalCollateral(t)
<1>1. CASE tx = Buffer(t)
  <2> DEFINE value == FundOutputValue(t) - ExtraFee(t)
             o == Out("buffer", value, P2WSH)
  <2>1. value \in Int /\ value >= total /\ total \in Nat
    BY SetAside DEF OpenChannel
  <2>2. tx.kind = "buffer" /\ tx.outputs = <<o>>
    BY <1>1, BufferIs DEF OpenChannel, Buffer, FundOf
  <2>3. v = 1
    BY <2>2 DEF PunishedOutput
  <2>4. o.value = value
    BY <2>1 DEF Out
  <2>5. Takes(tx, x, q) /\ Takes(tx, x, Other(q))
    BY <1>1, BufferIsSpared, OtherParty DEF OpenChannel
  <2> HIDE DEF o, value
  <2>6. tx.outputs[v].value > total - DUST_LIMIT
    BY <2>1, <2>2, <2>3, <2>4 DEF DUST_LIMIT
  <2> QED BY <2>5, <2>6 DEF PunishTakes
<1>2. CASE \E a, b, r : SettleEntry(e, t, a, b, r)
  <2> DEFINE o == e.offerer
  <2>1. PICK a, b, r : Settles(tx, t, o, a, b, r)
    BY <1>2 DEF SettleEntry
  <2>2. SettleShape(tx, o, a, b, r)
    BY <2>1, SettleHasShape
  <2>3. /\ tx.kind = "settle" /\ o \in Parties /\ a \in Nat /\ b \in Nat /\ r \in Nat
        /\ a + b = total
    BY <2>1 DEF Settles, SettleIs
  <2>4. v = IF o = q THEN 2 ELSE 1
    BY <2>3 DEF PunishedOutput
  <2>5. Own(q, tx) = LET share == IF q = o THEN a ELSE b IN IF share >= DUST_LIMIT THEN share + r ELSE 0
    BY <2>2, SettleOwn
  <2>6. /\ Other(o) # o /\ Other(q) # q 
        /\ q = o => Other(q) = Other(o)
        /\ q # o => q = Other(o) /\ Other(q) = o
    BY <2>3, OtherParty
  <2> DEFINE c == Out(o, a + r, P2WSH)
             d == Out(Other(o), b + r, P2WSH)
  <2>7. c.owner = o /\ c.value = a + r /\ d.owner = Other(o) /\ d.value = b + r
    BY DEF Out
  <2>8. \/ a >= DUST_LIMIT /\ b >= DUST_LIMIT /\ tx.outputs = <<c, d>>
        \/ a >= DUST_LIMIT /\ b < DUST_LIMIT /\ tx.outputs = <<c>>
        \/ a < DUST_LIMIT /\ b >= DUST_LIMIT /\ tx.outputs = <<d>>
    BY <2>2 DEF SettleShape, TwoOutputs, OneOutput
  <2> HIDE DEF c, d, o, total, tx
  <2>9. CASE a >= DUST_LIMIT /\ b >= DUST_LIMIT /\ tx.outputs = <<c, d>>
    <3>1. DOMAIN tx.outputs = 1..2 /\ tx.outputs[1] = c /\ tx.outputs[2] = d
      BY <2>9
    <3>2. CASE q = o
      <4>1. Takes(tx, x, Other(q)) /\ Spares(tx, x, q)
        BY <2>4, <2>6, <2>7, <3>1, <3>2 DEF Takes, Spares
      <4>2. Own(q, tx) = a + r /\ tx.outputs[v].value = b + r
        BY <2>4, <2>5, <2>7, <2>9, <3>1, <3>2
      <4>3. (a + r) + (b + r) > total - DUST_LIMIT /\ a + r \in Int
        BY <2>3 DEF DUST_LIMIT
      <4> QED BY <4>1, <4>2, <4>3 DEF PunishTakes, tx, total
    <3>3. CASE q # o
      <4>1. Takes(tx, x, Other(q)) /\ Spares(tx, x, q)
        BY <2>4, <2>6, <2>7, <3>1, <3>3 DEF Takes, Spares
      <4>2. Own(q, tx) = b + r /\ tx.outputs[v].value = a + r
        BY <2>4, <2>5, <2>7, <2>9, <3>1, <3>3
      <4>3. (b + r) + (a + r) > total - DUST_LIMIT /\ b + r \in Int
        BY <2>3 DEF DUST_LIMIT
      <4> QED BY <4>1, <4>2, <4>3 DEF PunishTakes, tx, total
    <3> QED BY <3>2, <3>3
  <2>10. CASE a >= DUST_LIMIT /\ b < DUST_LIMIT /\ tx.outputs = <<c>>
    <3>1. DOMAIN tx.outputs = 1..1 /\ tx.outputs[1] = c
      BY <2>10
    <3>2. q # o /\ v = 1
      BY <2>4, <3>1 DEF tx
    <3>3. Takes(tx, x, Other(q)) /\ Takes(tx, x, q)
      BY <3>1, <3>2 DEF Takes
    <3>4. tx.outputs[v].value > total - DUST_LIMIT
      BY <2>3, <2>7, <2>10, <3>1, <3>2 DEF DUST_LIMIT
    <3> QED BY <3>3, <3>4 DEF PunishTakes, tx, total
  <2>11. CASE a < DUST_LIMIT /\ b >= DUST_LIMIT /\ tx.outputs = <<d>>
    <3>1. DOMAIN tx.outputs = 1..1 /\ tx.outputs[1] = d
      BY <2>11
    <3>2. q # o /\ v = 1
      BY <2>4, <3>1 DEF tx
    <3>3. Takes(tx, x, Other(q)) /\ Takes(tx, x, q)
      BY <3>1, <3>2 DEF Takes
    <3>4. tx.outputs[v].value > total - DUST_LIMIT
      BY <2>3, <2>7, <2>11, <3>1, <3>2 DEF DUST_LIMIT
    <3> QED BY <3>3, <3>4 DEF PunishTakes, tx, total
  <2> QED BY <2>8, <2>9, <2>10, <2>11
<1> QED BY <1>1, <1>2, EntryIs

\* A punishment pays its own rate, and leaves the cheater with its change.
LEMMA PunishEnds ==
    ASSUME NEW t, OpenChannel(t), NEW e \in Entries(t), NEW q \in Parties, ~PunishPanics(e, q),
           NEW x, x = CreatePunishTransaction(e, q),
           NEW d, d = [p \in Parties |-> IF p = q THEN TotalCollateral(t) - PunishFee(e) ELSE 0],
           NEW c, c = <<FundOf(t), e.tx, x>>
    PROVE  Paid(c, t) /\ Fair(c, t, d)
<1> DEFINE v == PunishedOutput(e, q)
           value == e.tx.outputs[v].value
           F == FundOf(t)
           total == TotalCollateral(t)
           fee == PunishFee(e)
           cheater == Other(q)
<1>1. v \in DOMAIN e.tx.outputs
  BY DEF PunishPanics
<1>2. e.tx.kind \in {"buffer", "settle"} /\ e.tx.outputs \in Seq(Outs) /\ e.tx.inputs[1].vout = FundVout(F)
  BY EntryFacts
<1>3. /\ x.kind = "punish" /\ x.inputs[1].vout = v /\ x.outputs \in Seq(Outs) /\ x.outputs[1].owner = q
      /\ fee \in Nat /\ value \in Int /\ Own(q, x) = value - fee /\ Own(cheater, x) = 0
      /\ PaysRate(<<x>>, PunishRate)
  <2> HIDE DEF v
  <2>1. v = PunishedOutput(e, q)
    BY DEF v
  <2> QED BY <1>1, <1>2, <2>1, PunishIs
<1>4. PunishTakes(e.tx, x, q, value, total)
  <2> HIDE DEF v
  <2>1. v = PunishedOutput(e, q)
    BY DEF v
  <2> QED BY <1>1, <1>3, <2>1, PunishTakesAll
<1>5. cheater \in Parties /\ cheater # q /\ \A p \in Parties : p = q \/ p = cheater
  BY OtherParty
<1>6. c = <<F, e.tx, x>> /\ F = FundOf(t)
  OBVIOUS
<1>7. \A p \in Parties : /\ Spares(F, e.tx, p) /\ Own(p, F) = KeptChange(t, p) /\ KeptChange(t, p) \in Int
                         /\ F.outputs \in Seq(Outs)
  BY <1>2, FundIsSpared DEF OpenChannel
<1>8. BothFund(t) => PaysRate(<<F>>, t.rate)
  BY FundIsPaid DEF OpenChannel
<1>9. d[q] = total - fee /\ d[cheater] = 0 /\ total \in Nat
  BY <1>5, SetAside DEF OpenChannel
<1> HIDE DEF v, value, F, total, fee, cheater
<1>10. c[1] = F /\ c[Len(c)] = x
  BY <1>6
<1>11. Paid(c, t)
  BY <1>3, <1>8, <1>10 DEF Paid
<1>12. Gained(c, cheater) = KeptChange(t, cheater)
  <2>1. Takes(e.tx, x, cheater)
    BY <1>4 DEF PunishTakes, cheater
  <2>2. Gained(c, cheater) = Own(cheater, F) + Own(cheater, x)
    BY <1>2, <1>3, <1>5, <1>6, <1>7, <2>1, GainOfThree
  <2> QED BY <1>3, <1>5, <1>7, <2>2
<1>13. Gained(c, q) > KeptChange(t, q) + d[q] - DUST_LIMIT
  <2>1. CASE Spares(e.tx, x, q) /\ Own(q, e.tx) + value > total - DUST_LIMIT /\ Own(q, e.tx) \in Int
    <3>1. Gained(c, q) = Own(q, F) + Own(q, e.tx) + Own(q, x)
      BY <1>2, <1>3, <1>6, <1>7, <2>1, GainOfThree
    <3> QED BY <1>3, <1>7, <1>9, <2>1, <3>1 DEF DUST_LIMIT
  <2>2. CASE Takes(e.tx, x, q) /\ value > total - DUST_LIMIT
    <3>1. Gained(c, q) = Own(q, F) + Own(q, x)
      BY <1>2, <1>3, <1>6, <1>7, <2>2, GainOfThree
    <3> QED BY <1>3, <1>7, <1>9, <2>2, <3>1 DEF DUST_LIMIT
  <2> QED BY <1>4, <2>1, <2>2 DEF PunishTakes
<1>14. Gained(c, cheater) > KeptChange(t, cheater) + d[cheater] - DUST_LIMIT
  BY <1>5, <1>7, <1>9, <1>12 DEF DUST_LIMIT
<1>15. Other(c[Len(c)].outputs[1].owner) = cheater
  BY <1>3, <1>10 DEF cheater
<1> QED BY <1>5, <1>11, <1>12, <1>13, <1>14, <1>15 DEF Fair

\* With sound terms every revoked state can be punished by either party.
LEMMA SoundIsPunishable ==
    ASSUME NEW t, OpenChannel(t), SoundTerms(t), NEW e \in Entries(t), NEW q \in Parties
    PROVE  ~PunishPanics(e, q)
<1> DEFINE tx == e.tx
           total == TotalCollateral(t)
           v == PunishedOutput(e, q)
<1>1. CASE tx = Buffer(t)
  <2> DEFINE value == FundOutputValue(t) - ExtraFee(t)
             o == Out("buffer", value, P2WSH)
  <2>1. value \in Int /\ value >= total /\ total \in Nat
    BY SetAside DEF OpenChannel
  <2>2. tx.kind = "buffer" /\ tx.outputs = <<o>>
    BY <1>1, BufferIs DEF OpenChannel, Buffer, FundOf
  <2>3. v = 1
    BY <2>2 DEF PunishedOutput
  <2>4. o.value = value
    BY <2>1 DEF Out
  <2>5. total >= PunishFeeOf("buffer") /\ PunishFee(e) = PunishFeeOf("buffer")
    BY <2>2 DEF SoundTerms, Punishable, PunishFee
  <2>6. PunishFeeOf("buffer") \in Int
    BY AmountsAssumption DEF PunishFeeOf, WeightToFee, PUNISH_BUFFER_INPUT_WEIGHT, P2WPKH
  <2> HIDE DEF o, value, total
  <2>7. v \in DOMAIN tx.outputs /\ tx.outputs[v].value = value
    BY <2>2, <2>3, <2>4
  <2>8. ~(value < PunishFee(e))
    BY <2>1, <2>5, <2>6
  <2> QED BY <2>7, <2>8 DEF PunishPanics
<1>2. CASE \E a, b, r : SettleEntry(e, t, a, b, r)
  <2> DEFINE o == e.offerer
  <2>1. PICK a, b, r : Settles(tx, t, o, a, b, r) /\ b \in SettlePayouts[t]
    BY <1>2 DEF SettleEntry
  <2>2. SettleShape(tx, o, a, b, r)
    BY <2>1, SettleHasShape
  <2>3. /\ tx.kind = "settle" /\ o \in Parties /\ a \in Nat /\ b \in Nat /\ r \in Nat
        /\ a + b = total
    BY <2>1 DEF Settles, SettleIs
  <2>4. v \in 1..2
    BY <2>3 DEF PunishedOutput
  <2>5. b <= total /\ a = total - b
    BY <2>3
  <2>6. /\ a >= DUST_LIMIT /\ b >= DUST_LIMIT
        /\ a >= PunishFeeOf("settle") /\ b >= PunishFeeOf("settle")
    <3>1. \A share \in {b, total - b} : share >= DUST_LIMIT /\ Punishable(share, "settle")
      BY <2>1, <2>5 DEF SoundTerms
    <3> HIDE DEF total
    <3> QED BY <2>5, <3>1 DEF Punishable
  <2>7. PunishFeeOf("settle") \in Int /\ PunishFee(e) = PunishFeeOf("settle")
    BY <2>3, AmountsAssumption DEF PunishFee, PunishFeeOf, WeightToFee, PUNISH_SETTLE_INPUT_WEIGHT, P2WPKH
  <2> DEFINE c == Out(o, a + r, P2WSH)
             d == Out(Other(o), b + r, P2WSH)
  <2>8. c.value = a + r /\ d.value = b + r
    BY DEF Out
  <2>9. tx.outputs = <<c, d>>
    BY <2>3, <2>2, <2>6 DEF SettleShape, TwoOutputs, DUST_LIMIT
  <2> HIDE DEF c, d
  <2>10. v \in DOMAIN tx.outputs /\ tx.outputs[v].value \in {a + r, b + r}
    BY <2>4, <2>8, <2>9
  <2>11. ~(a + r < PunishFee(e)) /\ ~(b + r < PunishFee(e))
    BY <2>3, <2>6, <2>7
  <2> QED BY <2>10, <2>11 DEF PunishPanics
<1> QED BY <1>1, <1>2, EntryIs

-----------------------------------------------------------------------------
(***************************************************************************)
(* The inductive invariant.                                                *)
(***************************************************************************)
IsOpen(t, h, past, c) ==
    /\ Funded(t) /\ c = <<FundOf(t)>> /\ past \in Seq(Entries(t)) /\ (past # <<>> => t.channel)
    /\ \E o, payouts : /\ HoldsFor(h, t, o, payouts, t.toAccepter /\ past = <<>>)
                       /\ past = <<>> => o = "offer"
IsSettled(t, h, past, s, c) ==
    /\ Funded(t) /\ c = <<FundOf(t)>> /\ past \in Seq(Entries(t)) /\ t.channel
    /\ \E o \in Parties : \E a \in SettleAmounts(t) :
         /\ h.offerer = o /\ h.first = <<SettleOf(t, o, a)>>
         /\ Owes(s, o, TotalCollateral(t) - a, a)
IsCheated(t, h, c) ==
    /\ Funded(t) /\ t.channel
    /\ \E e \in Entries(t) : h.offerer = e.offerer /\ h.first = <<e.tx>> /\ c = <<FundOf(t), e.tx>>

AmountsInv ==
    /\ terms \in Terms
    /\ stage = "Offered" => chain = <<>> /\ revoked = <<>>
    /\ stage = "Open" => IsOpen(terms, held, revoked, chain)
    /\ stage = "Settled" => IsSettled(terms, held, revoked, stake, chain)
    /\ stage = "Cheated" => IsCheated(terms, held, chain)
    /\ stage = "Closed" => Fair(chain, terms, due)
    /\ stage = "Panicked" => ~SoundTerms(terms)
    /\ Paid(chain, terms)

\* The terms are those of an offer that was validated.
LEMMA TermsAreValid ==
    ASSUME terms \in Terms
    PROVE  /\ ValidTerms(terms) /\ SettlePayouts[terms] \subseteq Nat
           /\ RenewPayouts[terms] \subseteq Seq(Payouts)
           /\ TotalCollateral(terms) \in Nat
<1>1. ValidTerms(terms) /\ SettlePayouts[terms] \subseteq Nat /\ RenewPayouts[terms] \subseteq Seq(Payouts)
  BY AmountsAssumption DEF Amount
<1>2. TotalCollateral(terms) \in Nat
  BY <1>1, OtherParty, TermTypes
<1> QED BY <1>1, <1>2

\* The invariant holds at first.
LEMMA InitInv == AmountsInit => AmountsInv
<1> SUFFICES ASSUME AmountsInit PROVE AmountsInv
  OBVIOUS
<1>1. Paid(chain, terms)
  BY DEF AmountsInit, Paid
<1> QED BY <1>1 DEF AmountsInit, AmountsInv

\* A refused offer, or the failed assertion, publishes nothing.
LEMMA StaysOffered ==
    ASSUME AmountsInv, RefuseOffer \/ PanicOnFunding
    PROVE  AmountsInv'
<1>1. terms' = terms /\ chain' = chain /\ stage = "Offered"
  BY DEF RefuseOffer, PanicOnFunding
<1>2. CASE RefuseOffer
  BY <1>1, <1>2 DEF RefuseOffer, AmountsInv
<1>3. CASE PanicOnFunding
  <2>1. ~SoundTerms(terms)
    <3>1. ValidTerms(terms)
      BY TermsAreValid DEF AmountsInv
    <3>2. ~BothFund(terms)
      BY <1>3, <3>1, BothPaying DEF PanicOnFunding
    <3> QED BY <3>2 DEF SoundTerms
  <2> QED BY <1>1, <1>3, <2>1 DEF PanicOnFunding, AmountsInv
<1> QED BY <1>2, <1>3

\* Fund keeps the invariant: both parties hold the transactions of the offer.
LEMMA FundInv ==
    ASSUME AmountsInv, Fund
    PROVE  AmountsInv'
<1>1. /\ terms \in Terms /\ revoked = <<>>
      /\ terms' = terms /\ chain' = <<FundOf(terms)>> /\ stage' = "Open" /\ revoked' = revoked
      /\ held' = DlcTransactionsFor(terms, "offer", terms.payouts, FundOf(terms), terms.toAccepter)
      /\ \A p \in Parties : Pays(terms, p)
      /\ HasProperOutcomes(terms, terms.payouts) /\ FundValueAsserted(terms)
  BY DEF AmountsInv, Fund, FundOf, Acceptable
<1>2. ValidTerms(terms) /\ terms.toAccepter \in BOOLEAN /\ terms.payouts \in Seq(Payouts)
  BY <1>1, TermsAreValid DEF ValidTerms
<1>3. Funded(terms)
  BY <1>1, <1>2 DEF Funded
<1>4. (terms.toAccepter /\ revoked = <<>>) = terms.toAccepter
  BY <1>1, <1>2
<1>5. HoldsFor(held', terms, "offer", terms.payouts, terms.toAccepter)
  BY <1>1, <1>2, OtherParty DEF HoldsFor
<1>6. IsOpen(terms, held', revoked, chain')
  BY <1>1, <1>3, <1>4, <1>5 DEF IsOpen
<1>7. Paid(chain', terms)
  <2> DEFINE F == FundOf(terms)
             c == <<F>>
  <2>1. BothFund(terms) => PaysRate(<<F>>, terms.rate)
    BY <1>3, FundIsPaid
  <2>2. F.kind = "fund"
    BY <1>3, FundOutputs DEF FundOf
  <2>3. terms.rate \in Nat
    BY <1>3, SetAside
  <2>4. BothFund(terms) => PaysRate(<<>>, terms.rate)
    <3> SUFFICES ASSUME BothFund(terms) PROVE PaysRate(<<>>, terms.rate)
      OBVIOUS
    <3>1. FeeOf(F) \in Int /\ VirtualSize(F) \in Int
      BY <1>3, FundPays DEF FundOf
    <3> HIDE DEF F
    <3> QED BY <2>3, <3>1, TwoRates
  <2> HIDE DEF F
  <2>5. c[1] = F /\ c[Len(c)] = F /\ Tail(c) = <<>>
    OBVIOUS
  <2> HIDE DEF c
  <2>6. Paid(c, terms)
    BY <2>1, <2>2, <2>4, <2>5 DEF Paid
  <2> QED BY <1>1, <2>6 DEF c, F
<1> QED BY <1>1, <1>6, <1>7 DEF AmountsInv

\* The transaction that a state of an open channel leaves to be revoked.
LEMMA OpenRevokes ==
    ASSUME NEW t, t \in Terms, t.channel, NEW h, NEW past, NEW s, NEW c,
           IsOpen(t, h, past, c) \/ IsSettled(t, h, past, s, c)
    PROVE  /\ Entry(h.first[1], h.offerer) \in Entries(t) /\ past \in Seq(Entries(t))
           /\ Append(past, Entry(h.first[1], h.offerer)) \in Seq(Entries(t))
           /\ Append(past, Entry(h.first[1], h.offerer)) # <<>>
           /\ OpenChannel(t) /\ c = <<FundOf(t)>> /\ c[1] = FundOf(t)
<1>1. OpenChannel(t) /\ past \in Seq(Entries(t)) /\ c = <<FundOf(t)>>
  BY DEF IsOpen, IsSettled, OpenChannel
<1>2. Entry(h.first[1], h.offerer) \in Entries(t)
  <2>1. CASE IsOpen(t, h, past, c)
    <3>1. PICK o, payouts : HoldsFor(h, t, o, payouts, t.toAccepter /\ past = <<>>)
      BY <2>1 DEF IsOpen
    <3> DEFINE flag == t.toAccepter /\ past = <<>>
    <3>2. HoldsFor(h, t, o, payouts, flag)
      BY <3>1
    <3> HIDE DEF flag
    <3>3. o \in Parties
      BY <3>2 DEF HoldsFor
    <3>4. h.offerer = o /\ h.first = <<Buffer(t)>>
      BY <1>1, <3>2, HeldPaysOut DEF OpenChannel
    <3>5. h.first[1] = Buffer(t)
      BY <3>4
    <3> QED BY <3>3, <3>4, <3>5 DEF Entries
  <2>2. CASE IsSettled(t, h, past, s, c)
    <3>1. PICK o \in Parties : \E a \in SettleAmounts(t) : h.offerer = o /\ h.first = <<SettleOf(t, o, a)>>
      BY <2>2 DEF IsSettled
    <3>2. PICK a \in SettleAmounts(t) : h.offerer = o /\ h.first = <<SettleOf(t, o, a)>>
      BY <3>1
    <3>3. h.first[1] = SettleOf(t, o, a)
      BY <3>2
    <3> QED BY <3>2, <3>3 DEF Entries
  <2> QED BY <2>1, <2>2
<1> DEFINE E == Entries(t)
           e == Entry(h.first[1], h.offerer)
<1>3. Append(past, e) \in Seq(E) /\ Append(past, e) # <<>>
  <2>1. past \in Seq(E) /\ e \in E
    BY <1>1, <1>2
  <2> HIDE DEF E, e
  <2>2. Append(past, e) \in Seq(E) /\ Len(Append(past, e)) = Len(past) + 1 /\ Len(past) \in Nat
    BY <2>1
  <2>3. Append(past, e) # <<>>
    BY <2>2
  <2> QED BY <2>2, <2>3
<1>4. c[1] = FundOf(t)
  BY <1>1
<1> QED BY <1>1, <1>2, <1>3, <1>4

\* A settlement keeps the invariant, and revokes the state before it.
LEMMA SettleInv ==
    ASSUME AmountsInv, NEW o \in Parties, NEW a \in SettlePayouts[terms], Settle(o, a)
    PROVE  AmountsInv'
<1> DEFINE e == Entry(held.first[1], held.offerer)
           x == TotalCollateral(terms) - a
<1>1. /\ terms \in Terms /\ terms.channel /\ IsOpen(terms, held, revoked, chain)
      /\ terms' = terms /\ chain' = chain /\ stage' = "Settled" /\ revoked' = Append(revoked, e)
      /\ a <= TotalCollateral(terms) /\ ~SettleDividesByZero(x, a)
      /\ held' = [NoContract EXCEPT !.offerer = o, !.first =
                    << CreateSettleTransaction(terms, o, x, a, chain[1]) >>]
      /\ stake' = [p \in Parties |-> IF p = o THEN x ELSE a]
  BY DEF AmountsInv, Settle, Updatable, Entry
<1>2. Append(revoked, e) \in Seq(Entries(terms)) /\ OpenChannel(terms) /\ chain = <<FundOf(terms)>> /\ chain[1] = FundOf(terms)
  BY <1>1, OpenRevokes
<1>3. a \in SettleAmounts(terms)
  BY <1>1 DEF SettleAmounts
<1>4. held'.offerer = o /\ held'.first = <<SettleOf(terms, o, a)>>
  BY <1>1, <1>2 DEF NoContract, SettleOf
<1>5. Owes(stake', o, x, a)
  BY <1>1 DEF Owes
<1> HIDE DEF e
<1>6. IsSettled(terms, held', revoked', stake', chain')
  BY <1>1, <1>2, <1>3, <1>4, <1>5 DEF IsSettled, OpenChannel
<1> QED BY <1>1, <1>6 DEF AmountsInv

\* The division by zero of a settlement needs two shares that are dust.
LEMMA PanicOnSettlingInv ==
    ASSUME AmountsInv, NEW a \in SettlePayouts[terms], PanicOnSettling(a)
    PROVE  AmountsInv'
<1> DEFINE total == TotalCollateral(terms)
<1>1. /\ terms' = terms /\ chain' = chain /\ stage' = "Panicked"
      /\ a <= total /\ SettleDividesByZero(total - a, a)
  BY DEF PanicOnSettling
<1>2. ~SoundTerms(terms)
  <2>1. total \in Nat /\ a \in Nat
    BY TermsAreValid DEF AmountsInv
  <2>2. SoundTerms(terms) => a >= DUST_LIMIT
    BY <1>1 DEF SoundTerms
  <2> QED BY <1>1, <2>1, <2>2 DEF SettleDividesByZero, DUST_LIMIT
<1> QED BY <1>1, <1>2 DEF AmountsInv

\* A renewal keeps the invariant, and revokes the state before it.
LEMMA RenewInv ==
    ASSUME AmountsInv, NEW o \in Parties, NEW payouts \in RenewPayouts[terms], Renew(o, payouts)
    PROVE  AmountsInv'
<1> DEFINE e == Entry(held.first[1], held.offerer)
<1>1. /\ terms \in Terms /\ terms.channel
      /\ IsOpen(terms, held, revoked, chain) \/ IsSettled(terms, held, revoked, stake, chain)
      /\ terms' = terms /\ chain' = chain /\ stage' = "Open" /\ revoked' = Append(revoked, e)
      /\ held' = DlcTransactionsFor(terms, o, payouts, chain[1], FALSE)
      /\ HasProperOutcomes(terms, payouts)
  BY DEF AmountsInv, Renew, Updatable, Entry
<1>2. /\ Append(revoked, e) \in Seq(Entries(terms)) /\ Append(revoked, e) # <<>>
      /\ OpenChannel(terms) /\ chain = <<FundOf(terms)>> /\ chain[1] = FundOf(terms)
  BY <1>1, OpenRevokes
<1>3. payouts \in Seq(Payouts)
  BY <1>1, TermsAreValid
<1>4. HoldsFor(held', terms, o, payouts, FALSE)
  BY <1>1, <1>2, <1>3 DEF HoldsFor
<1> HIDE DEF e
<1>5. (terms.toAccepter /\ revoked' = <<>>) = FALSE
  BY <1>1, <1>2
<1>6. IsOpen(terms, held', revoked', chain')
  BY <1>1, <1>2, <1>4, <1>5 DEF IsOpen, OpenChannel
<1> QED BY <1>1, <1>6 DEF AmountsInv

\* A fair end keeps the invariant.
LEMMA CloseInv ==
    ASSUME AmountsInv, NEW txs, NEW owed, Close(txs, owed),
           Paid(chain \o txs, terms), Fair(chain \o txs, terms, owed)
    PROVE  AmountsInv'
  BY DEF AmountsInv, Close

\* Executing a CET is a fair end.
LEMMA ExecuteCetInv ==
    ASSUME AmountsInv, NEW i, ExecuteCet(i)
    PROVE  AmountsInv'
<1> DEFINE t == terms
           h == held
           x == held.cets[i]
           flag == terms.toAccepter /\ revoked = <<>>
           owed == Owed(held.offerer, held.payouts[i].offer, held.payouts[i].accept)
<1>1. /\ IsOpen(t, h, revoked, chain) /\ i \in DOMAIN h.cets
      /\ Close(Append(h.first, x), owed)
  BY DEF AmountsInv, ExecuteCet
<1>2. Funded(t) /\ chain = <<FundOf(t)>>
  BY <1>1 DEF IsOpen
<1>3. PICK o, payouts : HoldsFor(h, t, o, payouts, flag)
  BY <1>1 DEF IsOpen
<1> HIDE DEF flag
<1>4. /\ h.offerer = o /\ h.payouts = payouts /\ DOMAIN h.cets = DOMAIN payouts
      /\ \A y : <<FundOf(t)>> \o Append(h.first, y) = Path(t, y)
      /\ \A k \in DOMAIN payouts : \A d :
            Owes(d, o, payouts[k].offer, payouts[k].accept) =>
               Paid(Path(t, h.cets[k]), t) /\ Fair(Path(t, h.cets[k]), t, d)
  BY <1>2, <1>3, HeldPaysOut
<1>5. Owes(owed, o, payouts[i].offer, payouts[i].accept)
  BY <1>4 DEF Owed, Owes
<1>6. Paid(Path(t, x), t) /\ Fair(Path(t, x), t, owed)
  BY <1>1, <1>4, <1>5
<1>7. chain \o Append(h.first, x) = Path(t, x)
  BY <1>2, <1>4
<1> HIDE DEF x, owed
<1> QED BY <1>1, <1>6, <1>7, CloseInv

\* A refund is a fair end.
LEMMA RefundInv ==
    ASSUME AmountsInv, Refund
    PROVE  AmountsInv'
<1> DEFINE t == terms
           h == held
           x == held.refund
           flag == terms.toAccepter /\ revoked = <<>>
           owed == IF flag THEN Owed("offer", 0, TotalCollateral(terms))
                   ELSE [p \in Parties |-> terms[p].collateral]
<1>1. IsOpen(t, h, revoked, chain) /\ Close(Append(h.first, x), owed)
  BY DEF AmountsInv, Refund
<1>2. Funded(t) /\ chain = <<FundOf(t)>>
  BY <1>1 DEF IsOpen
<1>3. PICK o, payouts : HoldsFor(h, t, o, payouts, flag) /\ (revoked = <<>> => o = "offer")
  BY <1>1 DEF IsOpen
<1>4. flag => o = "offer"
  BY <1>3
<1>5. o \in Parties
  BY <1>3 DEF HoldsFor
<1> DEFINE a == RefundOf(t, o, flag)
           b == RefundOfOther(t, o, flag)
<1>6. Owes(owed, o, a, b)
  <2>1. CASE flag
    BY <1>4, <2>1 DEF Owed, Owes, RefundOf, RefundOfOther
  <2>2. CASE ~flag
    <3>1. \A p \in Parties : p = o \/ p = Other(o)
      BY <1>5, OtherParty
    <3> HIDE DEF flag
    <3> QED BY <2>2, <3>1 DEF Owes, RefundOf, RefundOfOther
  <2> QED BY <2>1, <2>2
<1> HIDE DEF flag
<1>7. /\ \A y : <<FundOf(t)>> \o Append(h.first, y) = Path(t, y)
      /\ \A d : Owes(d, o, a, b) => Paid(Path(t, x), t) /\ Fair(Path(t, x), t, d)
  BY <1>2, <1>3, HeldPaysOut
<1> HIDE DEF a, b, owed
<1>8. Paid(Path(t, x), t) /\ Fair(Path(t, x), t, owed)
  BY <1>6, <1>7
<1>9. chain \o Append(h.first, x) = Path(t, x)
  BY <1>2, <1>7
<1> HIDE DEF x
<1> QED BY <1>1, <1>8, <1>9, CloseInv

\* A collaborative close is a fair end, whoever proposes it.
LEMMA CloseTogetherInv ==
    ASSUME AmountsInv, NEW proposer \in Parties, NEW a \in SettlePayouts[terms], CloseTogether(proposer, a)
    PROVE  AmountsInv'
<1> DEFINE t == terms
           o == IF terms.channel THEN proposer ELSE "offer"
           rest == TotalCollateral(terms) - a
           x == CreateCollaborativeCloseTransaction(terms, o, rest, a, chain[1])
           owed == Owed(o, rest, a)
<1>1. /\ IsOpen(t, held, revoked, chain) \/ IsSettled(t, held, revoked, stake, chain)
      /\ a <= TotalCollateral(t) /\ Close(<<x>>, owed)
  BY Zenon DEF AmountsInv, CloseTogether
<1>2. Funded(t) /\ chain = <<FundOf(t)>>
  BY <1>1 DEF IsOpen, IsSettled
<1>3. a \in Nat /\ rest \in Nat /\ rest + a = TotalCollateral(t)
  <2>1. a \in Nat /\ TotalCollateral(t) \in Nat
    BY TermsAreValid DEF AmountsInv
  <2> QED BY <1>1, <2>1
<1>4. o \in Parties
  BY OtherParty
<1>5. x = CreateCollaborativeCloseTransaction(t, o, rest, a, FundOf(t))
  BY <1>2
<1>6. Owes(owed, o, rest, a)
  BY DEF Owes, Owed
<1> HIDE DEF o, rest, x, owed
<1>7. PaysOut(x, FundOutputValue(t), 221, o, rest, a) /\ x.inputs[1].vout = FundVout(FundOf(t))
  BY <1>2, <1>3, <1>4, <1>5, ClosePaysOut
<1>8. Paid(<<FundOf(t), x>>, t)
  BY <1>2, <1>3, <1>7, PayoutIsPaid
<1>9. Rewards(x, owed)
  BY <1>6, <1>7, PayoutRewards, Zenon
<1> DEFINE c == <<FundOf(t), x>>
<1>10. Fair(c, t, owed)
  <2>1. c = <<FundOf(t), x>>
    OBVIOUS
  <2> HIDE DEF c
  <2> QED BY <1>2, <1>7, <1>9, <2>1, FairOfTwo
<1>11. chain \o <<x>> = c
  <2>1. Together(FundOf(t), x)
    BY ShortConcat, Zenon
  <2> QED BY <1>2, <2>1 DEF Together
<1> QED BY <1>1, <1>8, <1>10, <1>11, CloseInv

\* Publishing the settlement is a fair end.
LEMMA PublishSettleInv ==
    ASSUME AmountsInv, PublishSettle
    PROVE  AmountsInv'
<1> DEFINE t == terms
<1>1. t \in Terms /\ IsSettled(t, held, revoked, stake, chain) /\ Close(held.first, stake)
  BY DEF AmountsInv, PublishSettle
<1>2. Funded(t) /\ chain = <<FundOf(t)>> /\ OpenChannel(t)
  BY <1>1 DEF IsSettled, OpenChannel
<1>3. PICK o \in Parties : \E a \in SettleAmounts(t) :
         /\ held.first = <<SettleOf(t, o, a)>> /\ Owes(stake, o, TotalCollateral(t) - a, a)
  BY <1>1 DEF IsSettled
<1>4. PICK a \in SettleAmounts(t) :
         /\ held.first = <<SettleOf(t, o, a)>> /\ Owes(stake, o, TotalCollateral(t) - a, a)
  BY <1>3
<1> DEFINE x == TotalCollateral(t) - a
           s == SettleOf(t, o, a)
<1>5. PICK r : Settles(s, t, o, x, a, r)
  BY <1>2, SettleOfSettles
<1>6. Owes(stake, o, x, a) /\ held.first = <<s>>
  BY <1>4
<1>7. Paid(<<FundOf(t), s>>, t)
  <2> DEFINE e == Entry(s, o)
  <2>1. e \in Entries(t) /\ e.tx = s
    BY DEF Entries, Entry
  <2> HIDE DEF e, s
  <2> QED BY <1>2, <2>1, EntryPaid
<1> HIDE DEF x, s
<1>8. Fair(<<FundOf(t), s>>, t, stake)
  BY <1>2, <1>5, <1>6, SettleEnds
<1>9. chain \o held.first = <<FundOf(t), s>>
  <2>1. Together(FundOf(t), s)
    BY ShortConcat, Zenon
  <2> QED BY <1>2, <1>6, <2>1 DEF Together
<1> QED BY <1>1, <1>7, <1>8, <1>9, CloseInv

\* Appending to one or two elements.
LEMMA AppendShort ==
    ASSUME NEW a, NEW b, NEW d, NEW c
    PROVE  /\ c = <<a>> => Append(c, b) = <<a, b>>
           /\ c = <<a, b>> => Append(c, d) = <<a, b, d>>
<1> DEFINE E == {a, b, d}
           s == Append(<<a>>, b)
           r == <<a, b>>
           s2 == Append(<<a, b>>, d)
           r2 == <<a, b, d>>
<1>1. s \in Seq(E) /\ r \in Seq(E) /\ Len(s) = 2 /\ Len(r) = 2 /\ s[1] = r[1] /\ s[2] = r[2]
  OBVIOUS
<1>2. /\ s2 \in Seq(E) /\ r2 \in Seq(E) /\ Len(s2) = 3 /\ Len(r2) = 3
      /\ s2[1] = r2[1] /\ s2[2] = r2[2] /\ s2[3] = r2[3]
  OBVIOUS
<1> HIDE DEF s, r, s2, r2, E
<1>3. s = r /\ s2 = r2
  BY <1>1, <1>2
<1> QED BY <1>3 DEF s, r, s2, r2

\* The publication of a revoked state is paid for.
LEMMA CheatInv ==
    ASSUME AmountsInv, NEW k, Cheat(k)
    PROVE  AmountsInv'
<1> DEFINE t == terms
           e == revoked[k]
<1>1. /\ IsOpen(t, held, revoked, chain) \/ IsSettled(t, held, revoked, stake, chain)
      /\ t \in Terms /\ k \in DOMAIN revoked
      /\ terms' = terms /\ stage' = "Cheated" /\ chain' = Append(chain, e.tx)
      /\ held' = [NoContract EXCEPT !.offerer = e.offerer, !.first = <<e.tx>>]
  BY DEF AmountsInv, Cheat
<1>2. Funded(t) /\ chain = <<FundOf(t)>> /\ revoked \in Seq(Entries(t))
  BY <1>1 DEF IsOpen, IsSettled
<1>3. t.channel
  <2>1. revoked # <<>>
    BY <1>1, <1>2
  <2> QED BY <1>1, <2>1 DEF IsOpen, IsSettled
<1>4. e \in Entries(t)
  BY <1>1, <1>2
<1>5. OpenChannel(t)
  BY <1>1, <1>2, <1>3 DEF OpenChannel
<1>6. held'.offerer = e.offerer /\ held'.first = <<e.tx>>
  BY <1>1 DEF NoContract
<1> HIDE DEF e
<1> DEFINE c == <<FundOf(t), e.tx>>
<1>7. chain' = c
  BY <1>1, <1>2, AppendShort
<1>8. Paid(c, t)
  BY <1>4, <1>5, EntryPaid
<1>9. IsCheated(t, held', chain')
  BY <1>2, <1>3, <1>4, <1>6, <1>7 DEF IsCheated
<1> HIDE DEF c
<1> QED BY <1>1, <1>7, <1>8, <1>9 DEF AmountsInv

\* What was published is a state the channel had revoked.
LEMMA CheatedState ==
    ASSUME AmountsInv, stage = "Cheated"
    PROVE  OpenChannel(terms) /\ Published \in Entries(terms) /\ chain = <<FundOf(terms), Published.tx>>
<1>1. terms \in Terms /\ IsCheated(terms, held, chain)
  BY DEF AmountsInv
<1>2. OpenChannel(terms)
  BY <1>1 DEF IsCheated, OpenChannel
<1>3. PICK e \in Entries(terms) : /\ held.offerer = e.offerer /\ held.first = <<e.tx>>
                                  /\ chain = <<FundOf(terms), e.tx>>
  BY <1>1 DEF IsCheated
<1>4. Published = e
  <2>1. \E tx, o : e = Entry(tx, o)
    BY DEF Entries
  <2>2. e = [tx |-> e.tx, offerer |-> e.offerer]
    BY <2>1 DEF Entry
  <2>3. held.first[1] = e.tx
    BY <1>3
  <2> QED BY <1>3, <2>2, <2>3 DEF Published
<1> QED BY <1>2, <1>3, <1>4

\* Punishing it is a fair end.
LEMMA PunishInv ==
    ASSUME AmountsInv, NEW q \in Parties, Punish(q)
    PROVE  AmountsInv'
<1> DEFINE t == terms
           e == Published
           x == CreatePunishTransaction(Published, q)
           d == [p \in Parties |-> IF p = q THEN TotalCollateral(terms) - PunishFee(Published) ELSE 0]
<1>1. /\ stage = "Cheated" /\ ~PunishPanics(e, q) /\ chain' = Append(chain, x) /\ due' = d
      /\ stage' = "Closed" /\ terms' = terms
  BY DEF Punish
<1>2. OpenChannel(t) /\ e \in Entries(t) /\ chain = <<FundOf(t), e.tx>>
  BY <1>1, CheatedState
<1>3. /\ x = CreatePunishTransaction(e, q)
      /\ d = [p \in Parties |-> IF p = q THEN TotalCollateral(t) - PunishFee(e) ELSE 0]
  OBVIOUS
<1> HIDE DEF e, x, d
<1> DEFINE c == <<FundOf(t), e.tx, x>>
<1>4. chain' = c
  BY <1>1, <1>2, AppendShort
<1>5. c = <<FundOf(t), e.tx, x>>
  OBVIOUS
<1> HIDE DEF c
<1>6. Paid(c, t) /\ Fair(c, t, d)
  BY <1>1, <1>2, <1>3, <1>5, PunishEnds
<1> QED BY <1>1, <1>4, <1>6 DEF AmountsInv

\* With sound terms no punishment panics.
LEMMA PanicOnPunishingInv ==
    ASSUME AmountsInv, NEW q \in Parties, PanicOnPunishing(q)
    PROVE  AmountsInv'
<1>1. /\ stage = "Cheated" /\ PunishPanics(Published, q) /\ chain' = chain /\ stage' = "Panicked" /\ terms' = terms
  BY DEF PanicOnPunishing
<1>2. ~SoundTerms(terms)
  BY <1>1, CheatedState, SoundIsPunishable
<1> QED BY <1>1, <1>2 DEF AmountsInv

\* Every action keeps the invariant.
LEMMA NextInv ==
    ASSUME AmountsInv, [AmountsNext]_amounts
    PROVE  AmountsInv'
<1>1. CASE UNCHANGED amounts
  BY <1>1 DEF amounts, AmountsInv
<1>2. CASE AmountsNext
  BY <1>2, StaysOffered, FundInv, RefundInv, PublishSettleInv, PanicOnSettlingInv, SettleInv, CloseTogetherInv,
     RenewInv, ExecuteCetInv, CheatInv, PunishInv, PanicOnPunishingInv DEF AmountsNext
<1> QED BY <1>1, <1>2

\* What the parties hold, what they have revoked and what is published is at every
\* stage what the construction of dlc/src made of the terms, of the payouts and of
\* the shares of a settlement that were agreed.
THEOREM AmountsInvHolds == AmountsSpec => []AmountsInv
  BY InitInv, NextInv, PTL DEF AmountsSpec

\* RateIsPaid, for any terms and amounts: between two parties that both fund, every
\* end of a contract pays the agreed rate, by weight_to_fee, the weight constants
\* and the remaining fee of create_settle_transaction, and a punishment pays its own.
THEOREM RateIsAlwaysPaid == AmountsSpec => []RateIsPaid
<1>1. AmountsInv => RateIsPaid
  BY RateIsPaidIs DEF AmountsInv
<1> QED BY <1>1, AmountsInvHolds, PTL

\* EachGetsItsDue, for any terms and amounts: whether the contract ends by a CET, the
\* refund, a collaborative close or a settlement, after any renewals, each party has
\* its change and what it is owed but dust; a party that published a revoked state
\* is left with its change once process_watched_txs has punished it.
THEOREM EveryoneGetsItsDue == AmountsSpec => []EachGetsItsDue
<1>1. AmountsInv => EachGetsItsDue
  BY EachGetsItsDueIs DEF AmountsInv
<1> QED BY <1>1, AmountsInvHolds, PTL

\* SoundTermsNeverPanic, for any terms and amounts: with collateral on both sides and
\* shares that are not dust and pay for a punishment, neither the assertions of
\* create_fund_transaction_with_fees, nor the division of create_settle_transaction,
\* nor the subtraction of create_punish_transaction can fail.
THEOREM SoundTermsAreSafe == AmountsSpec => []SoundTermsNeverPanic
<1>1. AmountsInv => SoundTermsNeverPanic
  BY DEF AmountsInv, SoundTermsNeverPanic
<1> QED BY <1>1, AmountsInvHolds, PTL

=============================================================================
