--------------------------- MODULE ContractSigning ---------------------------
(***************************************************************************)
(* How two parties sign a contract and how it settles                      *)
(* (ddk-manager/src/contract_updater.rs, contract/contract_info.rs,        *)
(* enum_descriptor.rs, numerical_descriptor.rs, contract/utils.rs, and     *)
(* get_closable_contract_info of manager.rs).                              *)
(*                                                                         *)
(* A contract has one leg per event it may settle on ("disjoint" when it   *)
(* has several).  A leg has oracles, a threshold and one payout per        *)
(* outcome; of an outcome and a combination of threshold oracles each      *)
(* party gives the other an adaptor signature, which the attestations of   *)
(* those oracles for that outcome turn into a signature.  The signatures   *)
(* travel and are stored as one list, addressed by position.               *)
(*                                                                         *)
(* A transaction is what it pays: two CETs with one payout are the same    *)
(* transaction.  Signatures are records of what they sign; a range of      *)
(* numbers with one payout stands for one outcome of a numerical leg, as   *)
(* if the oracles' digits below it were cut off.                           *)
(***************************************************************************)
EXTENDS CombinationIterator

CONSTANTS
    Contracts,      \* the contracts that may be offered: sequences of legs
    FundingInputs,  \* inputs of the funding transaction: [owner, dlc]
    None

Parties == {"offer", "accept"}
Other(p) == CHOOSE q \in Parties : q # p

VARIABLES
    contract,   \* the legs, the same at both parties once offered
    order,      \* the inputs of the funding transaction in order of serial id
    stage,      \* "offered", "accepted", "signed", "confirmed" or "failed"
    held,       \* adaptor signatures each party holds of the other
    altered,    \* a message was not what the code of its sender makes of it
    witness,    \* witnesses of the funding transaction the acceptor puts together
    matured,    \* per leg: the oracles whose event has matured
    attested,   \* per leg and oracle: the outcome attested, or None
    last        \* per party: what its last check for attestations led to

vars == <<contract, order, stage, held, altered, witness, matured, attested, last>>

Leg(k) == contract[k]
Oracles(k) == 0..(Leg(k).oracles - 1)
Outcomes(k) == DOMAIN Leg(k).payouts

-----------------------------------------------------------------------------
(* Descriptors: the signatures of a leg in the order both parties use.     *)

(* EnumDescriptor::get_payouts, NumericalDescriptor::get_payouts, and the  *)
(* CETs made of them: one for each outcome.                                *)
Cets(k) == Leg(k).payouts

(* Mutant: the CETs are collected from the last to the first.              *)
AllCetsReversed == Reverse(FlattenSeq([k \in DOMAIN contract |-> Cets(k)]))

(* The CETs of all the legs, as DlcTransactions keeps them.                *)
AllCets == FlattenSeq([k \in DOMAIN contract |-> Cets(k)])

(* iter_outcomes (and generate of the trie): all combinations of the first *)
(* outcome, then all of the second, ...                                    *)
IterOutcomes(k) ==
    LET combinations == Combinations(Leg(k).oracles, Leg(k).threshold)
        n == Len(combinations)
    IN  [i \in 1..(Len(Leg(k).payouts) * n) |->
            [outcome |-> ((i - 1) \div n) + 1,
             oracles |-> ToSet(combinations[((i - 1) % n) + 1])]]

(* The adaptor point of an outcome and the oracles that must attest it.    *)
AdaptorPoint(k, e) == [leg |-> k, outcome |-> e.outcome, oracles |-> e.oracles]

AdaptorSig(p, cet, point) == [by |-> p, cet |-> cet, point |-> point]

(* get_adaptor_signatures of a leg over a list of CETs, which its outcomes *)
(* index from the first.                                                   *)
AdaptorSignatures(p, k, cets) ==
    LET entries == IterOutcomes(k)
    IN  [i \in DOMAIN entries |->
            AdaptorSig(p, cets[entries[i].outcome], AdaptorPoint(k, entries[i]))]

(* Where the signatures of a leg start in the list of all legs.            *)
AdaptorSigStart(k) ==
    Len(FlattenSeq([l \in 1..(k - 1) |-> IterOutcomes(l)]))

(* verify_adaptor_info: every signature of the leg, one after the other.   *)
(* It panics at the end of a list that is too short; what is behind the    *)
(* last signature it needs is not looked at.                               *)
VerifyAdaptorInfo(p, k, cets, sigs) ==
    LET expected == AdaptorSignatures(p, k, cets)
        start == AdaptorSigStart(k)
    IN  \A i \in DOMAIN expected :
            start + i \in DOMAIN sigs /\ sigs[start + i] = expected[i]

-----------------------------------------------------------------------------
(* The three messages.                                                     *)

(* A peer may change one signature of the list it sends to one over        *)
(* another transaction, leave out the last one, or add one.                *)
Sent(sigs) ==
    {sigs, SubSeq(sigs, 1, Len(sigs) - 1), Append(sigs, None)}
        \cup {[sigs EXCEPT ![i].cet = None] : i \in DOMAIN sigs}

(* The offerer may also leave out its signature of an input.               *)
SentFundingSignatures(w) ==
    {w} \cup {[w EXCEPT ![i] = {}] : i \in {j \in DOMAIN w : order[j].owner = "offer"}}

(* offer_contract fixes the legs; the serial ids that order the inputs of  *)
(* the funding transaction are drawn at random by both.                    *)
Init ==
    /\ contract \in Contracts
    /\ order \in SetToSeqs(FundingInputs)
    /\ stage = "offered"
    /\ held = [p \in Parties |-> <<>>]
    /\ altered = FALSE
    /\ witness = [i \in DOMAIN order |-> {}]
    /\ matured = [k \in DOMAIN contract |-> {}]
    /\ attested = [k \in DOMAIN contract |-> [o \in Oracles(k) |-> None]]
    /\ last = [p \in Parties |-> None]

(* accept_contract, accept_contract_internal: the acceptor signs the CETs  *)
(* of each leg by themselves.                                              *)
AcceptContract ==
    /\ stage = "offered"
    /\ LET sigs == FlattenSeq([k \in DOMAIN contract |->
                                  AdaptorSignatures("accept", k, Cets(k))])
       IN  \E s \in Sent(sigs) : /\ held' = [held EXCEPT !["offer"] = s]
                                 /\ altered' = (s # sigs)
    /\ stage' = "accepted"
    /\ UNCHANGED <<contract, order, witness, matured, attested, last>>

(* Each party signs its own inputs; an input that spends a DLC (a splice)  *)
(* takes the signatures of both, whoever offered it.  The acceptor passes  *)
(* over an input of the offerer for which it was sent no signature.        *)
SignFundingInputs(p, w) ==
    [i \in DOMAIN w |->
        IF order[i].owner = p \/ (order[i].dlc /\ (p = "offer" \/ w[i] # {}))
        THEN w[i] \cup {p} ELSE w[i]]

(* verify_accepted_and_sign_contract and ..._internal: the offerer checks  *)
(* each leg against the CETs of that leg, and signs each leg over the list *)
(* of the CETs of all of them.                                             *)
VerifyAcceptedAndSign ==
    /\ stage = "accepted"
    /\ IF \A k \in DOMAIN contract :
             VerifyAdaptorInfo("accept", k, Cets(k), held["offer"])
       THEN /\ stage' = "signed"
            /\ LET own == FlattenSeq([k \in DOMAIN contract |->
                                         AdaptorSignatures("offer", k, AllCets)])
                   inputs == SignFundingInputs("offer", witness)
               IN  \E s \in Sent(own), w \in SentFundingSignatures(inputs) :
                      /\ held' = [held EXCEPT !["accept"] = s]
                      /\ witness' = w
                      /\ altered' = (altered \/ s # own \/ w # inputs)
       ELSE stage' = "failed" /\ UNCHANGED <<held, altered, witness>>
    /\ UNCHANGED <<contract, order, matured, attested, last>>

(* verify_signed_contract_internal, and the funding transaction it puts    *)
(* together: accepted by the network when every input has its witness.     *)
Complete(w) ==
    \A i \in DOMAIN w : w[i] = IF order[i].dlc THEN Parties ELSE {order[i].owner}

VerifySigned ==
    /\ stage = "signed"
    /\ IF \A k \in DOMAIN contract :
             VerifyAdaptorInfo("offer", k, AllCets, held["accept"])
       THEN /\ witness' = SignFundingInputs("accept", witness)
            /\ stage' = IF Complete(witness') THEN "confirmed" ELSE "failed"
       ELSE stage' = "failed" /\ UNCHANGED witness
    /\ UNCHANGED <<contract, order, held, altered, matured, attested, last>>

-----------------------------------------------------------------------------
(* Events and their oracles.                                               *)

Mature(k, o) ==
    /\ stage = "confirmed" /\ o \notin matured[k]
    /\ matured' = [matured EXCEPT ![k] = @ \cup {o}]
    /\ UNCHANGED <<contract, order, stage, held, altered, witness, attested, last>>

Attest(k, o, outcome) ==
    /\ stage = "confirmed" /\ attested[k][o] = None
    /\ attested' = [attested EXCEPT ![k][o] = outcome]
    /\ UNCHANGED <<contract, order, stage, held, altered, witness, matured, last>>

-----------------------------------------------------------------------------
(* Closing.                                                                *)

(* get_closable_contract_info numbers the announcements after it dropped   *)
(* the ones that have not matured.                                         *)
ReportedIndex(k, o) == Cardinality({x \in matured[k] : x < o})

(* The attestations that arrive, in the order in which they arrive: some   *)
(* oracles may not answer, and no order is kept between those that do.     *)
Arrivals(k) ==
    LET available == {o \in matured[k] : attested[k][o] # None}
    IN  UNION {SetToSeqs(S) : S \in SUBSET available}

(* The oracles that attested one outcome, in order of arrival, cut to the  *)
(* threshold: as the code numbers them.                                    *)
Agreeing(k, got, outcome) == SelectSeq(got, LAMBDA o : attested[k][o] = outcome)
Truncated(k, s) == SubSeq(s, 1, Min({Len(s), Leg(k).threshold}))
Numbered(k, s) == [i \in DOMAIN s |-> ReportedIndex(k, s[i])]

(* get_majority_combination takes an outcome most oracles attested, and    *)
(* any of them when there are several (the order of a hash map);           *)
(* MultiOracleTrie::look_up the least attested one that makes the          *)
(* threshold and whose combination the iterator yields.                    *)
Candidates(k, got) ==
    LET count(o) == Len(Agreeing(k, got, o))
        position(o) ==
            IndexForCombination(Leg(k).oracles, Leg(k).threshold,
                                Numbered(k, Truncated(k, Agreeing(k, got, o))))
        enough == {o \in Outcomes(k) : count(o) >= Leg(k).threshold}
        found == {o \in enough : position(o) # 0}
    IN  IF Leg(k).kind = "enum"
        THEN {o \in enough : \A x \in Outcomes(k) : count(x) <= count(o)}
        ELSE {o \in found : \A x \in found : count(o) <= count(x)}

(* The position of the adaptor signature.  An enumeration counts from the  *)
(* start of the list whatever the leg (get_range_info_and_oracle_sigs      *)
(* passes 0), and takes the first combination when it does not find the    *)
(* one it looks for; a trie has stored the positions.                      *)
AdaptorIndex(k, got, outcome) ==
    LET n == Len(Combinations(Leg(k).oracles, Leg(k).threshold))
        found == IndexForCombination(Leg(k).oracles, Leg(k).threshold,
                     Numbered(k, Truncated(k, Agreeing(k, got, outcome))))
        position == IF found = 0 THEN 1 ELSE found
        start == IF Leg(k).kind = "enum" THEN 0 ELSE AdaptorSigStart(k)
    IN  start + n * (outcome - 1) + position

(* get_signed_cet: the CET at the index of the outcome, with the adaptor   *)
(* signature decrypted by the attestations of the combination.  Decrypting *)
(* with the wrong attestations gives a signature the network refuses.      *)
SignedCet(p, k, got, outcome) ==
    LET cet == AllCets[outcome]
        sig == held[p][AdaptorIndex(k, got, outcome)]
        point == AdaptorPoint(k, [outcome |-> outcome,
                     oracles |-> ToSet(Truncated(k, Agreeing(k, got, outcome)))])
    IN  [cet |-> cet, valid |-> sig = AdaptorSig(Other(p), cet, point)]

(* History: every event of the leg had matured, and the answers came in    *)
(* the order of the oracles.                                               *)
InOrder(k, got) ==
    /\ matured[k] = Oracles(k)
    /\ \A i, j \in DOMAIN got : i < j => got[i] < got[j]

(* check_confirmed_contract of the manager: the first leg for which enough *)
(* attestations arrive is the one looked at, whatever they say.  With no   *)
(* closing information for them the check goes on to the refund.           *)
Checked(p, k, got) ==
    LET checked(o, result) ==
            [leg |-> k, outcome |-> o, result |-> result,
             inOrder |-> InOrder(k, got),
             quorum |-> \E x \in Outcomes(k) :
                           Len(Agreeing(k, got, x)) >= Leg(k).threshold]
    IN  IF Candidates(k, got) = {}
        THEN {checked(None, [cet |-> None, valid |-> FALSE])}
        ELSE {checked(o, SignedCet(p, k, got, o)) : o \in Candidates(k, got)}

CheckConfirmed(p) ==
    /\ stage = "confirmed"
    /\ \E k \in DOMAIN contract : \E got \in Arrivals(k) :
         /\ Len(got) >= Leg(k).threshold
         /\ last' \in {[last EXCEPT ![p] = c] : c \in Checked(p, k, got)}
    /\ UNCHANGED <<contract, order, stage, held, altered, witness, matured, attested>>

Next ==
    \/ AcceptContract \/ VerifyAcceptedAndSign \/ VerifySigned
    \/ \E k \in DOMAIN contract : \E o \in Oracles(k) :
         \/ Mature(k, o)
         \/ \E outcome \in Outcomes(k) : Attest(k, o, outcome)
    \/ \E p \in Parties : CheckConfirmed(p)

Spec == Init /\ [][Next]_vars

-----------------------------------------------------------------------------
(* Properties.                                                             *)

TypeOK ==
    /\ stage \in {"offered", "accepted", "signed", "confirmed", "failed"}
    /\ altered \in BOOLEAN
    /\ \A p \in Parties : Len(held[p]) <= AdaptorSigStart(Len(contract) + 1) + 1
    /\ \A k \in DOMAIN contract :
          /\ matured[k] \subseteq Oracles(k)
          /\ \A o \in Oracles(k) : attested[k][o] \in Outcomes(k) \cup {None}

(* Once the contract is funded each party holds a signature of the other   *)
(* for every outcome and every quorum of every leg, whatever was sent      *)
(* (verify_accepted_and_sign_contract, verify_signed_contract).            *)
FundedIsCovered ==
    stage = "confirmed" =>
        \A p \in Parties, k \in DOMAIN contract : \A outcome \in Outcomes(k) :
            \A Q \in kSubset(Leg(k).threshold, Oracles(k)) :
                \E i \in DOMAIN held[p] :
                    held[p][i] = AdaptorSig(Other(p), Leg(k).payouts[outcome],
                        AdaptorPoint(k, [outcome |-> outcome, oracles |-> Q]))

(* The exchange fails only when a peer altered a message: otherwise the    *)
(* network accepts the funding transaction, in whatever order the random   *)
(* serial ids put the inputs and whichever spends an earlier DLC.          *)
HonestFundingCompletes == stage = "failed" => altered

(* A closing transaction the network accepts pays an outcome that a quorum *)
(* of the oracles of one leg attested.                                     *)
PaysWhatWasAttested ==
    \A p \in Parties :
        last[p] # None /\ last[p].result.valid =>
            \E k \in DOMAIN contract : \E outcome \in Outcomes(k) :
                /\ Leg(k).payouts[outcome] = last[p].result.cet
                /\ Cardinality({o \in Oracles(k) : attested[k][o] = outcome})
                       >= Leg(k).threshold

(* The attestations of a quorum settle the contract, provided every event  *)
(* of the leg has matured and the answers come in the order of the oracles.*)
QuorumSettles(p) ==
    /\ last[p].result.valid
    /\ last[p].result.cet = Leg(last[p].leg).payouts[last[p].outcome]

OrderedQuorumSettles ==
    \A p \in Parties :
        last[p] # None /\ last[p].quorum /\ last[p].inOrder => QuorumSettles(p)

(* As documented: "How many oracles are required to provide a compatible   *)
(* outcome to be able to close the contract" (contract_info.rs); "a        *)
(* disjoint contract settles on whichever attests, in whatever order it    *)
(* was offered" (ddk-manager/tests/test_utils.rs).                         *)
EveryQuorumSettles ==
    \A p \in Parties : last[p] # None /\ last[p].quorum => QuorumSettles(p)

=============================================================================
