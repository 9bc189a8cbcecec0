------------------------- MODULE ContractSignatures -------------------------
(***************************************************************************)
(* The exchange of signatures for a contract, with the manager             *)
(* (ContractSigning) and without it (StatelessContract).  A behaviour is   *)
(* one or the other; the state of the other one stays unused.  Both keep   *)
(* the same promises, which are stated for both here.                      *)
(***************************************************************************)
EXTENDS SerialOrder, CombinationIterator

CONSTANTS
    Contracts,      \* the contracts a manager may offer: sequences of legs
    ManagerInputs,  \* inputs of the funding transaction: [owner, dlc]
    Setups,         \* what two users of the API agreed on: [terms, accept_inputs]
    FundingKey,     \* the funding key of each of them
    MinTimeout, MaxTimeout,  \* acceptor's bounds on the refund's delay
    MaxFaults,      \* bound on wrong arguments
    None

VARIABLES
    part,  \* whose behaviour this is: "signatures" (of the manager), "stateless"
    contract, order, exchange, signed, altered, witness, matured, attested, last,
    setup, view, psbts, funding, faults, result

Signatures == INSTANCE ContractSigning
                WITH stage <- exchange, held <- signed, FundingInputs <- ManagerInputs
Stateless == INSTANCE StatelessContract

signatures == <<contract, order, exchange, signed, altered, witness, matured, attested, last>>
SignaturesUnused ==
    /\ contract = None /\ order = None /\ exchange = None /\ signed = None
    /\ altered = None /\ witness = None /\ matured = None /\ attested = None /\ last = None

stateless == <<setup, view, psbts, funding, faults, result>>
StatelessUnused ==
    /\ setup = None /\ view = None /\ psbts = None /\ funding = None
    /\ faults = None /\ result = None

-----------------------------------------------------------------------------
(* What can be offered.  OracleInput::validate bounds the threshold.       *)
Quorate(leg) == leg.oracles \in Nat /\ leg.threshold \in 1..leg.oracles

ValidContract(c) ==
    /\ c \in Seq([kind : {"enum", "numerical"}, oracles : Nat, threshold : Nat, payouts : Seq(Nat)])
    /\ \A k \in DOMAIN c : Quorate(c[k])

(* A coin of a wallet has one key, an earlier DLC two; both parties know   *)
(* the keys of one earlier DLC (SpliceInput).                              *)
ValidInput(input) ==
    /\ input.serial \in Nat
    /\ input.dlc = None => \E key \in input.coin.keys : input.coin.keys = {key}
    /\ input.dlc # None => /\ input.dlc.local \in Nat /\ input.dlc.remote \in Nat
                           /\ input.dlc.local # input.dlc.remote

ValidInputs(inputs) ==
    inputs \in Seq(ToSet(inputs)) /\ \A i \in DOMAIN inputs : ValidInput(inputs[i])

AnnouncedLeg ==
    [event : STRING, oracles : Nat, threshold : Nat, maturity : Nat, announced : SUBSET STRING,
     outcomes : Seq([outcome : STRING, payout : Nat])]

OfferOf(inputs) ==
    [version : Nat, temp : Nat, key : Nat, collateral : Nat, total : Nat, inputs : {inputs},
     legs : Seq(AnnouncedLeg), cet_locktime : Nat, refund_locktime : Nat]

ValidSetup(s) ==
    /\ s.terms \in OfferOf(s.terms.inputs) /\ s.terms.key = FundingKey["offer"]
    /\ \A k \in DOMAIN s.terms.legs : Quorate(s.terms.legs[k])
    /\ ValidInputs(s.terms.inputs) /\ ValidInputs(s.accept_inputs)
    /\ \A i, j \in DOMAIN s.terms.inputs :
          s.terms.inputs[i].dlc # None /\ s.terms.inputs[j].dlc # None => i = j

ASSUME ExchangeAssumption ==
    /\ \A c \in Contracts : ValidContract(c)
    /\ ManagerInputs \subseteq [owner : {"offer", "accept"}, dlc : BOOLEAN]
    /\ FundingKey["offer"] # FundingKey["accept"] /\ FundingKey["accept"] # 0
    /\ \A s \in Setups : ValidSetup(s)

ExchangeInit ==
    \/ part = "signatures" /\ Signatures!Init /\ StatelessUnused
    \/ part = "stateless" /\ Stateless!Init /\ SignaturesUnused

ExchangeNext ==
    \/ part = "signatures" /\ Signatures!Next /\ UNCHANGED <<part, stateless>>
    \/ part = "stateless" /\ Stateless!Next /\ UNCHANGED <<part, signatures>>

ExchangeSpec == ExchangeInit /\ [][ExchangeNext]_<<part, signatures, stateless>>

-----------------------------------------------------------------------------
(* Once the contract is funded each party holds a signature of the other   *)
(* for every outcome and every quorum of every leg, whatever was sent      *)
(* (verify_accepted_and_sign_contract, verify_signed_contract).  Without a *)
(* manager, a party whose funding witnesses have left it can refund and    *)
(* settle every outcome from the messages it keeps, over the one funding   *)
(* transaction both rebuild, whatever it was handed (sign_accept,          *)
(* finalize_sign, sign_cet, sign_refund).                                  *)
FundedIsCovered ==
    /\ part = "signatures" => Signatures!FundedIsCovered
    /\ part = "stateless" => Stateless!CommittedIsCovered

(* The exchange fails only when something wrong was sent or handed over:   *)
(* otherwise the network accepts the funding transaction, in whatever      *)
(* order the serial ids put the inputs and whichever spends an earlier DLC *)
(* (VerifySigned; finalize_sign).                                          *)
HonestFundingCompletes ==
    /\ part = "signatures" => Signatures!HonestFundingCompletes
    /\ part = "stateless" => Stateless!HonestFundingCompletes

=============================================================================
