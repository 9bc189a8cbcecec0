------------------------- MODULE StatelessContract -------------------------
(***************************************************************************)
(* The contract API without a manager (ddk/src/contract): each party keeps *)
(* the three wire messages, its keys and a PSBT of the funding transaction,*)
(* and every call rebuilds the transactions from the messages.             *)
(*                                                                         *)
(* A transaction is a record of what it spends and pays, a signature one   *)
(* of its key and of what it signs, a public key a number, which is also   *)
(* its place among the keys of a 2-of-2 script.  Amounts, scripts, fees    *)
(* and the digits of numerical contracts are left to DlcTransactions and   *)
(* OracleTries: a leg of the contract is an enumeration here.              *)
(*                                                                         *)
(* A call that fails returns an error and changes nothing, but for the     *)
(* inputs it has already signed; it is made again with other arguments or  *)
(* not at all.  What a party is handed (a message, a PSBT that was signed  *)
(* elsewhere, a key, attestations) may be wrong in one place, MaxFaults    *)
(* times in a behaviour.                                                   *)
(***************************************************************************)
EXTENDS CombinationIterator, SerialOrder

CONSTANTS
    Setups,        \* what the parties agreed on: [terms, accept_inputs]
    FundingKey,    \* the funding key of each party
    MinTimeout, MaxTimeout,  \* acceptor's bounds on the refund's delay
    MaxFaults,     \* bound on wrong arguments
    None

PROTOCOL_VERSION == 1
Foreign == 0       \* a key, serial or id that belongs to nothing

Parties == {"offer", "accept"}
Other(p) == CHOOSE q \in Parties : q # p

VARIABLES
    setup,    \* the setup of this behaviour
    view,     \* the messages each party keeps
    psbts,    \* each party's funding PSBT
    funding,  \* the finalized funding transaction, or None
    faults,   \* wrong arguments so far
    result    \* what the last call returned

vars == <<setup, view, psbts, funding, faults, result>>

(* Checks in the order of the code, each with the error it returns.        *)
FirstFailed(checks) ==
    LET failed == {i \in DOMAIN checks : ~checks[i][1]}
    IN  IF failed = {} THEN "ok" ELSE checks[Min(failed)][2]

-----------------------------------------------------------------------------
(* What the messages determine (context.rs).                               *)

SerialIds(inputs) == [i \in DOMAIN inputs |-> inputs[i].serial]
UniqueSerialIds(inputs) == IsInjective(SerialIds(inputs))
AllInputs(o, a) == o.inputs \o a.inputs

(* validate_offer_funding_inputs: an input that spends an earlier DLC      *)
(* names the two keys of its output.                                       *)
ValidOfferInputs(o) ==
    \A i \in DOMAIN o.inputs :
        LET dlc == o.inputs[i].dlc
        IN  dlc # None => /\ o.inputs[i].max_witness_len > 108
                          /\ o.inputs[i].coin.keys = {dlc.local, dlc.remote}

NoDlcInputs(inputs) == \A i \in DOMAIN inputs : inputs[i].dlc = None

(* execution_contract_infos and ContractInfo::validate: the outcomes are   *)
(* those the oracles announced, each once (unordered_equal).               *)
ValidLegs(legs) ==
    /\ legs # <<>>
    /\ \A k \in DOMAIN legs :
          /\ legs[k].oracles > 0
          /\ legs[k].announced = {legs[k].outcomes[x].outcome : x \in DOMAIN legs[k].outcomes}
          /\ \A x, y \in DOMAIN legs[k].outcomes :
                legs[k].outcomes[x].outcome = legs[k].outcomes[y].outcome => x = y

(* funding_input_index: the inputs of both in order of their serial ids.   *)
FundingInputs(o, a) == OrderBySerialIds(AllInputs(o, a), SerialIds(AllInputs(o, a)))
FundingInputIndex(o, a, serial) ==
    CHOOSE i \in DOMAIN FundingInputs(o, a) : FundingInputs(o, a)[i].serial = serial

(* The transactions build_context makes.                                   *)
Fund(o, a) ==
    [coins |-> [i \in DOMAIN FundingInputs(o, a) |-> FundingInputs(o, a)[i].coin],
     keys |-> {o.key, a.key},
     change |-> <<o.collateral, a.collateral>>]
\* The CETs of the legs after the first have no lock time.
Cet(o, a, k, x) ==
    [fund |-> Fund(o, a), payout |-> o.legs[k].outcomes[x].payout,
     locktime |-> IF k = 1 THEN o.cet_locktime ELSE 0]
Refund(o, a) ==
    [fund |-> Fund(o, a), payouts |-> <<o.collateral, a.collateral>>,
     locktime |-> o.refund_locktime]

ContractId(o, a) == <<Fund(o, a), o.temp>>

Sig(key, tx) == [key |-> key, over |-> tx]
InputSig(key, fund, i) == Sig(key, <<fund, i>>)

(* The signatures of a leg: the quorums of its first outcome, then those   *)
(* of the second, ... (as in ContractSigning).                             *)
LegSignatures(key, o, a, k) ==
    LET leg == o.legs[k]
        quorums == Combinations(leg.oracles, leg.threshold)
        n == Len(quorums)
    IN  [i \in 1..(Len(leg.outcomes) * n) |->
            LET x == ((i - 1) \div n) + 1
            IN  [key |-> key, over |-> Cet(o, a, k, x), event |-> leg.event,
                 outcome |-> leg.outcomes[x].outcome,
                 oracles |-> ToSet(quorums[((i - 1) % n) + 1])]]

(* create_adaptor_signatures: each leg over its own range of the CETs.     *)
AdaptorSignatures(key, o, a) ==
    FlattenSeq([k \in DOMAIN o.legs |-> LegSignatures(key, o, a, k)])

AdaptorSigStart(o, k) ==
    Len(FlattenSeq([l \in 1..(k - 1) |->
            LET n == Len(Combinations(o.legs[l].oracles, o.legs[l].threshold))
            IN  [i \in 1..(Len(o.legs[l].outcomes) * n) |-> i]]))

-----------------------------------------------------------------------------
(* Checks that several calls make.                                         *)

(* context_from_messages, build_context.                                   *)
ContextChecks(o, a) ==
    << <<o.version = PROTOCOL_VERSION, "InvalidOffer">>,
       <<a.version = PROTOCOL_VERSION, "InvalidAccept">>,
       <<o.temp = a.temp, "InvalidAccept">>,
       <<~a.negotiation, "InvalidAccept">>,
       <<ValidOfferInputs(o) /\ NoDlcInputs(a.inputs), "InvalidFundingInput">>,
       <<UniqueSerialIds(AllInputs(o, a)), "InvalidFundingInput">>,
       <<o.collateral + a.collateral = o.total, "InvalidAccept">>,
       <<ValidLegs(o.legs), "InvalidOffer">> >>

(* ensure_psbt_matches_funding_transaction.                                *)
PsbtChecks(o, a, psbt) == << <<psbt.fund = Fund(o, a), "PsbtMismatch">> >>

(* Mutant: the adaptor signatures of the first leg are enough.             *)
CounterpartyChecksFirstLeg(o, a, key, refund_sig, cet_sigs, error) ==
    << <<refund_sig = Sig(key, Refund(o, a)), error>>,
       <<\A i \in DOMAIN LegSignatures(key, o, a, 1) :
             cet_sigs[i] = LegSignatures(key, o, a, 1)[i], error>> >>

(* verify_counterparty_signatures: the refund's, each leg's, and no more.  *)
CounterpartyChecks(o, a, key, refund_sig, cet_sigs, error) ==
    << <<refund_sig = Sig(key, Refund(o, a)), error>>,
       <<cet_sigs = AdaptorSignatures(key, o, a), error>> >>

(* ensure_sign_message.                                                    *)
SignMessageChecks(o, a, s) ==
    << <<s.version = PROTOCOL_VERSION, "InvalidSign">>,
       <<s.contract_id = ContractId(o, a), "InvalidSign">> >>

-----------------------------------------------------------------------------
(* What may be wrong with what a party is handed.                          *)

WithWrongSigs(m) ==
    {[m EXCEPT !.refund_sig.over = None]}
    \cup {[m EXCEPT !.cet_sigs[i].over = None] : i \in DOMAIN m.cet_sigs}

WrongOffers(o) ==
    {[o EXCEPT !.version = @ + 1], [o EXCEPT !.temp = Foreign], [o EXCEPT !.key = Foreign],
     [o EXCEPT !.collateral = @ + 1], [o EXCEPT !.legs[1].outcomes[1].payout = @ + 1],
     [o EXCEPT !.legs[1].outcomes[1].outcome = None], [o EXCEPT !.cet_locktime = @ - 1],
     [o EXCEPT !.refund_locktime = @ + 1]}
    \cup {[o EXCEPT !.inputs[i].serial = Foreign] : i \in DOMAIN o.inputs}
    \cup {[o EXCEPT !.inputs[i].dlc = [local |-> @.remote, remote |-> @.local]] :
             i \in {j \in DOMAIN o.inputs : o.inputs[j].dlc # None}}

WrongAccepts(a) ==
    {[a EXCEPT !.version = @ + 1], [a EXCEPT !.temp = Foreign], [a EXCEPT !.key = Foreign],
     [a EXCEPT !.collateral = @ + 1], [a EXCEPT !.negotiation = TRUE]}
    \cup {[a EXCEPT !.inputs[i].serial = Foreign] : i \in DOMAIN a.inputs}
    \cup WithWrongSigs(a)

WrongSigns(s) ==
    {[s EXCEPT !.version = @ + 1], [s EXCEPT !.contract_id[2] = Foreign]}
    \cup {[s EXCEPT !.funding_signatures[i] = <<Sig(Foreign, None)>>] :
             i \in DOMAIN s.funding_signatures}
    \cup WithWrongSigs(s)

WrongPsbts(psbt) == {[psbt EXCEPT !.fund.change = <<Foreign>>]}

(* An argument as it should be, or a wrong one.                            *)
Given(right, wrong, arg) ==
    \/ arg = right /\ faults' = faults
    \/ arg \in wrong \ {right} /\ faults < MaxFaults /\ faults' = faults + 1

Returns(call, p, error) == result' = [call |-> call, by |-> p, error |-> error]

-----------------------------------------------------------------------------
(* Creating and accepting an offer (create.rs, accept.rs).                 *)

Init ==
    /\ setup \in Setups
    /\ view = [p \in Parties |-> [offer |-> None, accept |-> None, sign |-> None]]
    /\ psbts = [p \in Parties |-> None]
    /\ funding = None
    /\ faults = 0
    /\ result = [call |-> None, by |-> None, error |-> "ok"]

CreateOffer ==
    /\ view["offer"].offer = None /\ result.call = None
    /\ LET o == setup.terms
           error == FirstFailed(
               << <<ValidOfferInputs(o), "InvalidFundingInput">>,
                  <<o.cet_locktime < o.refund_locktime, "InvalidOffer">>,
                  <<UniqueSerialIds(o.inputs), "InvalidFundingInput">>,
                  <<o.collateral <= o.total, "InvalidOffer">>,
                  <<ValidLegs(o.legs), "InvalidOffer">> >>)
       IN  /\ Returns("create_offer", "offer", error)
           /\ view' = IF error = "ok" THEN [view EXCEPT !["offer"].offer = o] ELSE view
    /\ UNCHANGED <<setup, psbts, funding, faults>>

(* validate_offer with OfferDlc::validate.  The serial ids of the offer    *)
(* are compared only with those of the acceptance.                         *)
OfferChecks(o) ==
    LET maturity == Min({o.legs[k].maturity : k \in DOMAIN o.legs})
    IN  << <<o.version = PROTOCOL_VERSION, "InvalidOffer">>,
           <<ValidOfferInputs(o), "InvalidFundingInput">>,
           <<o.collateral <= o.total, "InvalidOffer">>,
           <</\ o.cet_locktime <= maturity
             /\ maturity + MinTimeout <= o.refund_locktime
             /\ o.refund_locktime <= maturity + MaxTimeout, "InvalidOffer">> >>

(* build_funding_psbt: no input is signed yet.                             *)
BuildFundingPsbt(o, a) ==
    [fund |-> Fund(o, a), witness |-> [i \in DOMAIN FundingInputs(o, a) |-> <<>>]]

AcceptOffer ==
    /\ view["offer"].offer # None /\ view["accept"].accept = None
    /\ \E o \in {view["offer"].offer} \cup WrongOffers(view["offer"].offer) :
         LET terms ==
                 [version |-> o.version, temp |-> o.temp, key |-> FundingKey["accept"],
                  collateral |-> o.total - o.collateral, inputs |-> setup.accept_inputs,
                  negotiation |-> FALSE, cet_sigs |-> None, refund_sig |-> None]
             error == FirstFailed(OfferChecks(o) \o ContextChecks(o, terms))
         IN  /\ Given(view["offer"].offer, WrongOffers(view["offer"].offer), o)
             /\ Returns("accept_offer", "accept", error)
             /\ IF error = "ok"
                THEN LET a == [terms EXCEPT
                                  !.cet_sigs = AdaptorSignatures(terms.key, o, terms),
                                  !.refund_sig = Sig(terms.key, Refund(o, terms))]
                     IN  /\ view' = [view EXCEPT !["accept"].offer = o, !["accept"].accept = a]
                         /\ psbts' = [psbts EXCEPT !["accept"] = BuildFundingPsbt(o, a)]
                ELSE UNCHANGED <<view, psbts>>
    /\ UNCHANGED <<setup, funding>>

(* create_funding_psbt, by the offering party when the acceptance arrives. *)
CreateFundingPsbt ==
    /\ view["accept"].accept # None /\ view["offer"].accept = None
    /\ \E a \in {view["accept"].accept} \cup WrongAccepts(view["accept"].accept) :
         LET o == view["offer"].offer
             error == FirstFailed(ContextChecks(o, a))
         IN  /\ Given(view["accept"].accept, WrongAccepts(view["accept"].accept), a)
             /\ Returns("create_funding_psbt", "offer", error)
             /\ IF error = "ok"
                THEN /\ view' = [view EXCEPT !["offer"].accept = a]
                     /\ psbts' = [psbts EXCEPT !["offer"] = BuildFundingPsbt(o, a)]
                ELSE UNCHANGED <<view, psbts>>
    /\ UNCHANGED <<setup, funding>>

-----------------------------------------------------------------------------
(* Signing the PSBT (signing.rs).  The wallet signs all inputs of a party, *)
(* an extended key or a descriptor those that are named.                   *)

OwnInputs(p) == IF p = "offer" THEN view[p].offer.inputs ELSE view[p].accept.inputs
Ordinary(p) == {i \in DOMAIN OwnInputs(p) : OwnInputs(p)[i].dlc = None}
OwnIndex(p, i) == FundingInputIndex(view[p].offer, view[p].accept, OwnInputs(p)[i].serial)

(* sign_input_with_key, finalize_segwit_input: one input after the other,  *)
(* until one whose coin the key does not control; those before it, done,   *)
(* are signed in the caller's PSBT all the same.                           *)
SignFundingPsbt(p) ==
    /\ psbts[p] # None /\ view[p].sign = None
    /\ \E S \in SUBSET Ordinary(p) :
       \E psbt \in {psbts[p]} \cup WrongPsbts(psbts[p]), done \in SUBSET S :
         LET checks == ContextChecks(view[p].offer, view[p].accept)
                           \o PsbtChecks(view[p].offer, view[p].accept, psbt)
             places == {OwnIndex(p, i) : i \in done}
             signed(i) == LET key == CHOOSE k \in psbt.fund.coins[i].keys : TRUE
                          IN  <<InputSig(key, psbt.fund, i)>>
         IN  /\ Given(<<psbts[p], S>>,
                      (WrongPsbts(psbts[p]) \X {S}) \cup ({psbts[p]} \X (SUBSET S)),
                      <<psbt, done>>)
             /\ Returns("sign_funding_psbt", p,
                        FirstFailed(checks \o << <<done = S, "InvalidFundingInput">> >>))
             /\ psbts' = IF FirstFailed(checks) = "ok"
                         THEN [psbts EXCEPT ![p].witness =
                                  [i \in DOMAIN @ |-> IF i \in places THEN signed(i) ELSE @[i]]]
                         ELSE psbts
    /\ UNCHANGED <<setup, view, funding>>

-----------------------------------------------------------------------------
(* The sign message (sign.rs).                                             *)

(* The keys of the earlier DLC that is spent (ContractKeyProvider derives  *)
(* them again from its temporary id); Foreign when none is.                *)
PriorKey(p) ==
    LET spliced == {i \in DOMAIN setup.terms.inputs : setup.terms.inputs[i].dlc # None}
    IN  IF spliced = {} THEN Foreign
        ELSE LET dlc == setup.terms.inputs[CHOOSE i \in spliced : TRUE].dlc
             IN  IF p = "offer" THEN dlc.local ELSE dlc.remote

(* build_offer_funding_signatures: in the order of the message, the halves *)
(* of DLC inputs and the PSBT's witnesses of the others.                   *)
OfferFundingChecks(o, a, psbt, prior) ==
    [i \in DOMAIN o.inputs |->
        IF o.inputs[i].dlc # None
        THEN <<prior = o.inputs[i].dlc.local, "InvalidFundingInput">>
        ELSE <<psbt.witness[FundingInputIndex(o, a, o.inputs[i].serial)] # <<>>,
               "MissingFinalizedInput">>]

OfferFundingSignatures(o, a, psbt, prior) ==
    [i \in DOMAIN o.inputs |->
        LET place == FundingInputIndex(o, a, o.inputs[i].serial)
        IN  IF o.inputs[i].dlc # None
            THEN <<InputSig(prior, Fund(o, a), place)>> ELSE psbt.witness[place]]

(* sign_accept_spliced, sign_with_context.                                 *)
SignAccept ==
    /\ view["offer"].accept # None /\ view["offer"].sign = None
    /\ \E psbt \in {psbts["offer"]} \cup WrongPsbts(psbts["offer"]),
          prior \in {PriorKey(p) : p \in Parties} \cup {Foreign},
          key \in {FundingKey["offer"], Foreign} :
         LET o == view["offer"].offer
             a == view["offer"].accept
             error == FirstFailed(
                 ContextChecks(o, a) \o PsbtChecks(o, a, psbt)
                 \o OfferFundingChecks(o, a, psbt, prior)
                 \o << <<key = o.key, "InvalidOffer">> >>
                 \o CounterpartyChecks(o, a, a.key, a.refund_sig, a.cet_sigs, "InvalidAccept"))
             right == <<psbts["offer"], PriorKey("offer"), FundingKey["offer"]>>
         IN  /\ Given(right, {[right EXCEPT ![1] = q] : q \in WrongPsbts(psbts["offer"])}
                      \cup {[right EXCEPT ![2] = k] : k \in {PriorKey("accept"), Foreign}}
                      \cup {[right EXCEPT ![3] = Foreign]}, <<psbt, prior, key>>)
             /\ Returns("sign_accept", "offer", error)
             /\ view' =
                  IF error # "ok" THEN view
                  ELSE [view EXCEPT !["offer"].sign =
                          [version |-> o.version, contract_id |-> ContractId(o, a),
                           cet_sigs |-> AdaptorSignatures(key, o, a),
                           refund_sig |-> Sig(key, Refund(o, a)),
                           funding_signatures |-> OfferFundingSignatures(o, a, psbt, prior)]]
    /\ UNCHANGED <<setup, psbts, funding>>

-----------------------------------------------------------------------------
(* The funding transaction (finalize.rs).                                  *)

(* extract_funding_signatures of the accepting party.                      *)
AcceptFundingChecks(o, a, psbt) ==
    [i \in DOMAIN a.inputs |->
        <<psbt.witness[FundingInputIndex(o, a, a.inputs[i].serial)] # <<>>,
          "MissingFinalizedInput">>]

(* apply_funding_signatures and complete_dlc_input_witnesses: the offering *)
(* party's half is verified, its ordinary witnesses are not.               *)
OfferWitnessChecks(o, a, s, prior) ==
    << <<\A i \in DOMAIN o.inputs : o.inputs[i].dlc = None => s.funding_signatures[i] # <<>>,
         "InvalidFundingInput">>,
       <<\A i \in DOMAIN o.inputs : o.inputs[i].dlc # None =>
             s.funding_signatures[i] =
                 <<InputSig(o.inputs[i].dlc.local, Fund(o, a),
                            FundingInputIndex(o, a, o.inputs[i].serial))>>, "InvalidSign">>,
       <<\A i \in DOMAIN o.inputs : o.inputs[i].dlc # None => prior = o.inputs[i].dlc.remote,
         "InvalidFundingInput">> >>

(* Mutant: the own half always comes first.                                *)
CombineOwnFirst(dlc, half, own) == <<own, half[1]>>

(* combine_dlc_input_signatures: in the order of the keys in the script.   *)
Combine(dlc, half, own) ==
    IF dlc.remote <= dlc.local THEN <<own, half[1]>> ELSE <<half[1], own>>

FundingWitness(o, a, s, psbt, prior) ==
    [place \in DOMAIN FundingInputs(o, a) |->
        LET serial == FundingInputs(o, a)[place].serial
            offered == {i \in DOMAIN o.inputs : o.inputs[i].serial = serial}
            i == CHOOSE x \in offered : TRUE
        IN  IF offered = {} THEN psbt.witness[place]
            ELSE IF o.inputs[i].dlc = None THEN s.funding_signatures[i]
            ELSE Combine(o.inputs[i].dlc, s.funding_signatures[i],
                         InputSig(prior, Fund(o, a), place))]

(* finalize_sign_spliced, finalize_with_context.                           *)
FinalizeSign ==
    /\ view["offer"].sign # None /\ view["accept"].sign = None
    /\ \E s \in {view["offer"].sign} \cup WrongSigns(view["offer"].sign),
          psbt \in {psbts["accept"]} \cup WrongPsbts(psbts["accept"]),
          prior \in {PriorKey(p) : p \in Parties} \cup {Foreign} :
         LET o == view["accept"].offer
             a == view["accept"].accept
             error == FirstFailed(
                 ContextChecks(o, a) \o PsbtChecks(o, a, psbt) \o AcceptFundingChecks(o, a, psbt)
                 \o SignMessageChecks(o, a, s)
                 \o << <<Len(s.funding_signatures) = Len(o.inputs), "InvalidSign">> >>
                 \o CounterpartyChecks(o, a, o.key, s.refund_sig, s.cet_sigs, "InvalidSign")
                 \o OfferWitnessChecks(o, a, s, prior))
             right == <<view["offer"].sign, psbts["accept"], PriorKey("accept")>>
         IN  /\ Given(right, {[right EXCEPT ![1] = m] : m \in WrongSigns(view["offer"].sign)}
                      \cup {[right EXCEPT ![2] = q] : q \in WrongPsbts(psbts["accept"])}
                      \cup {[right EXCEPT ![3] = k] : k \in {PriorKey("offer"), Foreign}},
                      <<s, psbt, prior>>)
             /\ Returns("finalize_sign", "accept", error)
             /\ IF error = "ok"
                THEN /\ view' = [view EXCEPT !["accept"].sign = s]
                     /\ funding' = [fund |-> Fund(o, a),
                                    witness |-> FundingWitness(o, a, s, psbt, prior)]
                ELSE UNCHANGED <<view, funding>>
    /\ UNCHANGED <<setup, psbts>>

-----------------------------------------------------------------------------
(* Settling (settle.rs).                                                   *)

(* settling_party: the key says whose signatures are used.                 *)
SettlingParty(o, key) == IF key = o.key THEN "offer" ELSE "accept"
SettlingChecks(o, a, s, key) ==
    ContextChecks(o, a) \o SignMessageChecks(o, a, s) \o << <<key \in {o.key, a.key}, "Key">> >>

(* The other party's signatures, from the message that carried them.       *)
CounterpartyKey(o, a, p) == IF p = "offer" THEN a.key ELSE o.key
CounterpartySigs(a, s, p) == IF p = "offer" THEN a ELSE s

Settled(error, tx, sigs) == [error |-> error, tx |-> tx, sigs |-> sigs]
ReturnsSettled(call, p, got, s) ==
    result' = [call |-> call, by |-> p, given |-> got,
               error |-> s.error, tx |-> s.tx, sigs |-> s.sigs]

(* sign_refund.                                                            *)
RefundOf(o, a, s, key) ==
    LET p == SettlingParty(o, key)
        other == CounterpartySigs(a, s, p).refund_sig
        error == FirstFailed(SettlingChecks(o, a, s, key)
            \o << <<other = Sig(CounterpartyKey(o, a, p), Refund(o, a)),
                    IF p = "offer" THEN "InvalidAccept" ELSE "InvalidSign">> >>)
    IN  Settled(error, Refund(o, a), {other, Sig(key, Refund(o, a))})

(* An attestation a party passes, with the oracle it takes it to be from:  *)
(* [index, event, oracle, outcome].                                        *)
Count(got, outcome) == Cardinality({i \in DOMAIN got : got[i].outcome = outcome})
Majorities(got) ==
    {got[i].outcome : i \in {j \in DOMAIN got :
        \A l \in DOMAIN got : Count(got, got[l].outcome) <= Count(got, got[j].outcome)}}

(* get_majority_combination, cut to the threshold: the i-th attestation of *)
(* the outcome, for each of the first.                                     *)
Nth(S, i) == CHOOSE x \in S : Cardinality({y \in S : y < x}) = i - 1
Combination(leg, got, outcome) ==
    LET agreeing == {i \in DOMAIN got : got[i].outcome = outcome}
    IN  [i \in 1..leg.threshold |-> got[Nth(agreeing, i)].index]

Resolves(leg, got, outcome) ==
    /\ Count(got, outcome) >= leg.threshold
    /\ \E x \in DOMAIN leg.outcomes : leg.outcomes[x].outcome = outcome

(* validate_attestations: all that were passed, against the oracles of the *)
(* leg that was found.                                                     *)
ValidAttestations(leg, got) ==
    \A i \in DOMAIN got : /\ got[i].index < leg.oracles
                          /\ got[i].event = leg.event /\ got[i].oracle = got[i].index

(* The attestations numbered as those of the combination are used.  They   *)
(* give a signature of nothing if they are not those the adaptor signature *)
(* was made for.                                                           *)
Decrypted(adaptor, got, oracles) ==
    LET used == {i \in DOMAIN got : got[i].index \in oracles}
    IN  IF /\ Cardinality(used) = Cardinality(adaptor.oracles)
           /\ {<<got[i].event, got[i].oracle, got[i].outcome>> : i \in used}
                  = {<<adaptor.event, y, adaptor.outcome>> : y \in adaptor.oracles}
        THEN Sig(adaptor.key, adaptor.over) ELSE Sig(None, None)

(* The signature at the place of the outcome and the combination; of the   *)
(* first combination when the attestations are not in the order of the     *)
(* oracles (EnumDescriptor::get_range_info_for_outcome).                   *)
CetOf(o, a, s, key, k, got, outcome) ==
    LET p == SettlingParty(o, key)
        leg == o.legs[k]
        x == CHOOSE i \in DOMAIN leg.outcomes : leg.outcomes[i].outcome = outcome
        oracles == Combination(leg, got, outcome)
        found == IndexForCombination(leg.oracles, leg.threshold, oracles)
        n == Len(Combinations(leg.oracles, leg.threshold))
        place == AdaptorSigStart(o, k) + n * (x - 1) + (IF found = 0 THEN 1 ELSE found)
        adaptor == CounterpartySigs(a, s, p).cet_sigs[place]
    IN  Settled("ok", Cet(o, a, k, x),
                {Sig(key, Cet(o, a, k, x)), Decrypted(adaptor, got, ToSet(oracles))})

(* sign_cet.  The first leg the attestations resolve is the one they are   *)
(* validated against; of outcomes attested equally often any may be taken  *)
(* (the order of a hash map), for each leg anew.                           *)
CetsOf(o, a, s, key, got) ==
    LET p == SettlingParty(o, key)
        error == FirstFailed(SettlingChecks(o, a, s, key)
            \o << <<CounterpartySigs(a, s, p).cet_sigs
                      = AdaptorSignatures(CounterpartyKey(o, a, p), o, a),
                    IF p = "offer" THEN "InvalidAccept" ELSE "InvalidSign">> >>)
        settles(m) ==
            LET resolved == {k \in DOMAIN o.legs : Resolves(o.legs[k], got, m[k])}
                k == Min(resolved)
            IN  IF resolved = {} THEN Settled("NoMatchingOutcome", None, {})
                ELSE IF ~ValidAttestations(o.legs[k], got)
                     THEN Settled("InvalidAttestation", None, {})
                ELSE CetOf(o, a, s, key, k, got, m[k])
    IN  IF error # "ok" THEN {Settled(error, None, {})}
        ELSE IF got = <<>> THEN {Settled("NoMatchingOutcome", None, {})}
        ELSE {settles(m) : m \in [DOMAIN o.legs -> Majorities(got)]}

(* A party settles once it keeps all three messages.  Settling changes     *)
(* nothing but what was returned, so two settling calls in a row show no   *)
(* more than each of them.                                                 *)
Settling(p) == view[p].sign # None /\ result.call \notin {"sign_cet", "sign_refund"}

SignRefund(p) ==
    /\ Settling(p)
    /\ \E key \in {FundingKey[p], Foreign} :
         LET refund == RefundOf(view[p].offer, view[p].accept, view[p].sign, key)
         IN  /\ Given(FundingKey[p], {Foreign}, key)
             /\ ReturnsSettled("sign_refund", p, <<>>, refund)
    /\ UNCHANGED <<setup, view, psbts, funding>>

(* What the oracles of one event attested, or some of them, in any order.  *)
AttestationsOf(leg) ==
    UNION {{[i \in DOMAIN order |->
                [index |-> order[i], event |-> leg.event, oracle |-> order[i],
                 outcome |-> f[order[i]]]] :
              order \in SetToSeqs(S), f \in [S -> leg.announced]} :
          S \in SUBSET (0..(leg.oracles - 1))}

WrongAttestations(got) ==
    {[got EXCEPT ![i].index = @ + 1] : i \in DOMAIN got}

SignCet(p) ==
    /\ Settling(p)
    /\ \E k \in DOMAIN view[p].offer.legs :
       \E true \in AttestationsOf(view[p].offer.legs[k]) :
       \E got \in {true} \cup WrongAttestations(true) :
         /\ Given(true, WrongAttestations(true), got)
         /\ \E cet \in CetsOf(view[p].offer, view[p].accept, view[p].sign, FundingKey[p], got) :
              ReturnsSettled("sign_cet", p, got, cet)
    /\ UNCHANGED <<setup, view, psbts, funding>>

Next ==
    \/ CreateOffer \/ AcceptOffer \/ CreateFundingPsbt \/ SignAccept \/ FinalizeSign
    \/ \E p \in Parties :
         SignFundingPsbt(p) \/ SignRefund(p) \/ SignCet(p)

Spec == Init /\ [][Next]_vars

-----------------------------------------------------------------------------
(* Properties.                                                             *)

Spends(tx, sigs) == sigs = {Sig(key, tx) : key \in tx.fund.keys}

(* Type invariant of the messages and transactions a party keeps.          *)
TypeOK ==
    /\ faults \in 0..MaxFaults
    /\ \A p \in Parties :
          /\ view[p].sign # None => view[p].accept # None /\ view[p].offer # None
          /\ psbts[p] # None => Len(psbts[p].witness) = Len(psbts[p].fund.coins)
    /\ funding # None => view["accept"].sign # None

(* The elements of a set of numbers, in their order.                       *)
InOrder(S) == {s \in SetToSeqs(S) : \A i, j \in DOMAIN s : i < j => s[i] < s[j]}

(* A party whose funding witnesses have left it (in the sign message, or   *)
(* in the funding transaction) can, from its own three messages, make the  *)
(* refund and settle every outcome with every quorum that attests it, over *)
(* the funding transaction that both rebuild.  Of two legs with the same   *)
(* outcomes only the first settles: see the README.                        *)
Settleable(p, k, x) ==
    LET o == view[p].offer
        leg == o.legs[k]
        outcome == leg.outcomes[x].outcome
    IN  \A Q \in kSubset(leg.threshold, 0..(leg.oracles - 1)) : \A order \in InOrder(Q) :
            LET got == [i \in DOMAIN order |->
                           [index |-> order[i], event |-> leg.event,
                            oracle |-> order[i], outcome |-> outcome]]
            IN  (\A l \in 1..(k - 1) : ~Resolves(o.legs[l], got, outcome)) =>
                    \A cet \in CetsOf(o, view[p].accept, view[p].sign, FundingKey[p], got) :
                        /\ cet.error = "ok" /\ Spends(cet.tx, cet.sigs)
                        /\ cet.tx.payout = leg.outcomes[x].payout

CommittedIsCovered ==
    /\ \A p \in Parties : view[p].sign # None =>
          LET refund == RefundOf(view[p].offer, view[p].accept, view[p].sign, FundingKey[p])
          IN  /\ refund.error = "ok" /\ Spends(refund.tx, refund.sigs)
              /\ \A k \in DOMAIN view[p].offer.legs :
                    \A x \in DOMAIN view[p].offer.legs[k].outcomes : Settleable(p, k, x)
    /\ funding # None => funding.fund = Fund(view["offer"].offer, view["offer"].accept)

(* The network accepts a funding input with a signature of each of its     *)
(* keys, in the order of the keys.                                         *)
NetworkAccepts(tx) ==
    \A i \in DOMAIN tx.fund.coins :
        \E keys \in InOrder(tx.fund.coins[i].keys) :
            tx.witness[i] = [j \in DOMAIN keys |-> InputSig(keys[j], tx.fund, i)]

(* When nobody hands over anything wrong, an accepted offer is funded: no  *)
(* call fails but for a witness not yet made, and the network accepts the  *)
(* transaction, whatever the order of the serial ids and of the keys of an *)
(* earlier DLC.                                                            *)
HonestFundingCompletes ==
    faults = 0 =>
        /\ result.call \in {"create_funding_psbt", "sign_funding_psbt", "sign_accept",
                            "finalize_sign", "sign_refund"} =>
               result.error \in {"ok", "MissingFinalizedInput"}
        /\ funding # None => NetworkAccepts(funding)

(* The CET that sign_cet returns pays what a quorum of one leg attested,   *)
(* if the network accepts it, and it does unless the attestations were not *)
(* passed in the order of the oracles.                                     *)
PaysWhatWasAttested ==
    result.call = "sign_cet" /\ result.error = "ok" =>
        LET got == result.given
            legs == view[result.by].offer.legs
        IN  /\ (\A i, j \in DOMAIN got : i < j => got[i].index < got[j].index) =>
                   Spends(result.tx, result.sigs)
            /\ Spends(result.tx, result.sigs) =>
                   \E k \in DOMAIN legs : \E x \in DOMAIN legs[k].outcomes :
                       /\ legs[k].outcomes[x].payout = result.tx.payout
                       /\ Cardinality({got[i].oracle : i \in
                              {j \in DOMAIN got : /\ got[j].event = legs[k].event
                                  /\ got[j].outcome = legs[k].outcomes[x].outcome}})
                              >= legs[k].threshold

=============================================================================
