-------------------------- MODULE MCContractTerms --------------------------
(***************************************************************************)
(* The computations behind a contract, checked in one run: which adaptor   *)
(* signature an attested number unlocks (OracleTries), what each           *)
(* transaction pays (DlcTransactions), which signatures the parties        *)
(* exchange with a manager and without one (ContractSignatures).  Nothing  *)
(* but the terms of the contract connects them, so a behaviour takes the   *)
(* steps of one and leaves the state of the others unused.  The            *)
(* transactions and the signatures are those of the modules that are       *)
(* extended, with their properties; the numbers are an instance.           *)
(***************************************************************************)
EXTENDS MCDlcTransactions, ContractSignatures

\* part is also "numbers" or "amounts"
VARIABLES
  config, curve, outcomes, pending, covered, digit_trie, store, infos, reports, found

-----------------------------------------------------------------------------
(* OracleTries: oracles with as many or with more digits than each other,  *)
(* thresholds below and at their number, with and without a difference     *)
(* they may have.  Of three oracles two have few digits, which keeps the   *)
(* numbers they may report few.                                            *)

Diff(support, error, maximize) ==
    [min_support_exp |-> support, max_error_exp |-> error, maximize_coverage |-> maximize]

MCConfigs ==
    [nb_digits : {<<3>>, <<3, 3>>, <<3, 4>>, <<4, 3>>}, threshold : {1}, diff : {None}]
    \cup [nb_digits : {<<3, 3>>, <<3, 4>>, <<4, 3>>, <<3, 5>>}, threshold : {2},
          diff : {None, Diff(0, 1, TRUE), Diff(1, 2, TRUE), Diff(0, 2, FALSE), Diff(1, 3, TRUE)}]
    \cup [nb_digits : {<<2, 2, 2>>, <<2, 3, 3>>, <<3, 2, 2>>}, threshold : {2, 3},
          diff : {None, Diff(0, 1, TRUE), Diff(0, 2, TRUE)}]

Point(o, p) == [outcome |-> o, payout |-> p]
Polynomial(points) == [kind |-> "polynomial", points |-> points]
Every(n) == <<[begin |-> 0, mod |-> n]>>
Curve(pieces, rounding) == [pieces |-> pieces, rounding |-> rounding, total |-> 9]

(* Up to the number m: the same everywhere; a line; one that ends between  *)
(* two multiples of the rounding; a floor and a line; a line and a ceiling *)
(* with rounding above; a parabola; a hyperbola; one that leaves the       *)
(* collateral, which is refused.                                           *)
CurvesTo(m) ==
    { Curve(<<Polynomial(<<Point(0, 5), Point(m, 5)>>)>>, Every(1)),
      Curve(<<Polynomial(<<Point(0, 0), Point(m, 9)>>)>>, Every(4)),
      Curve(<<Polynomial(<<Point(0, 9), Point(m, 1)>>)>>,
            <<[begin |-> 0, mod |-> 3], [begin |-> 2, mod |-> 1]>>),
      Curve(<<Polynomial(<<Point(0, 1), Point(2, 1)>>), Polynomial(<<Point(2, 1), Point(m, 9)>>)>>,
            Every(2)),
      Curve(<<Polynomial(<<Point(0, 8), Point(1, 5)>>), Polynomial(<<Point(1, 5), Point(m, 5)>>)>>,
            Every(1)),
      Curve(<<Polynomial(<<Point(0, 0), Point(2, 8), Point(m, 2)>>)>>, Every(5)),
      Curve(<<[kind |-> "hyperbola", points |-> <<Point(0, 8), Point(m, 1)>>, positive |-> TRUE,
               x |-> -1, y |-> 0, a |-> 1, b |-> 0, c |-> 0, d |-> 8]>>, Every(1)),
      Curve(<<Polynomial(<<Point(0, 9), Point(1, 0), Point(m, 9)>>)>>, Every(1)) }

MCCurves == CurvesTo(3) \cup CurvesTo(7)

Numbers == INSTANCE OracleTries WITH Configs <- MCConfigs, Curves <- MCCurves

numbers == <<config, curve, outcomes, pending, covered, digit_trie, store, infos,
             reports, found>>
NumbersUnused ==
    /\ config = None /\ curve = None /\ outcomes = None /\ pending = None /\ covered = None
    /\ digit_trie = None /\ store = None /\ infos = None /\ reports = None /\ found = None

-----------------------------------------------------------------------------
(* DlcTransactions, with the offers of MCDlcTransactions.                  *)

AmountsUnused ==
    /\ terms = None /\ stage = None /\ held = None /\ revoked = None
    /\ stake = None /\ chain = <<>> /\ due = None

-----------------------------------------------------------------------------
(* ContractSigning.                                                        *)

Made(kind, n, t, payouts) ==
    [kind |-> kind, oracles |-> n, threshold |-> t, payouts |-> payouts]

(* One leg; with three outcomes two of them pay the same.                  *)
MCContracts ==
    {c \in {<<Made(kind, n, t, payouts)>> :
              kind \in {"enum", "numerical"}, n \in 1..3, t \in 1..3,
              payouts \in {<<10, 20>>, <<10, 20, 10>>}} :
        c[1].threshold <= c[1].oracles /\ c[1].oracles + Len(c[1].payouts) <= 5}

(* The offerer splices a DLC in and adds a coin, the acceptor adds one.    *)
MCFundingInputs ==
    {[owner |-> "offer", dlc |-> TRUE], [owner |-> "offer", dlc |-> FALSE],
     [owner |-> "accept", dlc |-> FALSE]}

-----------------------------------------------------------------------------
(* StatelessContract.                                                      *)

MCFundingKey == [offer |-> 11, accept |-> 12]

FundingCoin(id, keys) == [id |-> id, keys |-> keys]
Ordinary(serial, id, key) ==
    [serial |-> serial, coin |-> FundingCoin(id, {key}), dlc |-> None, max_witness_len |-> 108]
Splice(serial, local, remote) ==
    [serial |-> serial, coin |-> FundingCoin(9, {local, remote}),
     dlc |-> [local |-> local, remote |-> remote], max_witness_len |-> 220]

MadeLeg(event, n, t, payouts) ==
    [event |-> event, oracles |-> n, threshold |-> t, outcomes |-> payouts, maturity |-> 5,
     announced |-> {payouts[i].outcome : i \in DOMAIN payouts}]
Promise(outcome, payout) == [outcome |-> outcome, payout |-> payout]
UpDown == <<Promise("up", 0), Promise("down", 9)>>
OneOracle == <<MadeLeg("e1", 1, 1, UpDown)>>

Agreed(legs, inputs, accept_inputs, collateral, cet_locktime, refund_locktime) ==
    [terms |->
        [version |-> 1, temp |-> 7, key |-> MCFundingKey["offer"], collateral |-> collateral,
         total |-> 9, inputs |-> inputs, legs |-> legs, cet_locktime |-> cet_locktime,
         refund_locktime |-> refund_locktime],
     accept_inputs |-> accept_inputs]

(* A coin of each party and an earlier DLC, in any order of serial ids and *)
(* with some twice; two coins of one party; several oracles; two events,   *)
(* whose outcomes have one in common; terms that are refused.              *)
MCSetups ==
    {Agreed(OneOracle, <<Ordinary(2, 1, 21), Ordinary(1, 2, 22)>>, <<>>, 9, 5, 8)}
    \cup
    {Agreed(OneOracle, <<Ordinary(s[1], 1, 21), Splice(s[2], keys[1], keys[2])>>,
            <<Ordinary(s[3], 2, 22)>>, 4, 5, 8) :
        s \in SetToSeqs(1..3) \cup {<<1, 2, 2>>, <<1, 1, 2>>}, keys \in {<<13, 14>>, <<14, 13>>}}
    \cup
    {Agreed(legs, <<Ordinary(1, 1, 21)>>, <<>>, 9, 5, 8) :
        legs \in {<<MadeLeg("e1", 2, 1, UpDown)>>, <<MadeLeg("e1", 2, 2, UpDown)>>,
                  <<MadeLeg("e1", 3, 2, UpDown)>>,
                  <<MadeLeg("e1", 1, 1, UpDown),
                    MadeLeg("e2", 2, 1, <<Promise("down", 3), Promise("flat", 5)>>)>>}}
    \cup
    {Agreed(OneOracle, <<Ordinary(1, 1, 21)>>, <<>>, t[1], t[2], t[3]) :
        t \in {<<10, 5, 8>>, <<9, 8, 8>>, <<9, 5, 20>>, <<9, 7, 8>>}}

-----------------------------------------------------------------------------
Init ==
    \/ /\ part = "numbers" /\ Numbers!Init
       /\ AmountsUnused /\ SignaturesUnused /\ StatelessUnused
    \/ /\ part = "amounts" /\ AmountsInit
       /\ NumbersUnused /\ SignaturesUnused /\ StatelessUnused
    \/ ExchangeInit /\ NumbersUnused /\ AmountsUnused

Next ==
    \/ part = "numbers" /\ Numbers!Next /\ UNCHANGED <<part, amounts, signatures, stateless>>
    \/ part = "amounts" /\ AmountsNext /\ UNCHANGED <<part, numbers, signatures, stateless>>
    \/ ExchangeNext /\ UNCHANGED <<numbers, amounts>>

Spec == Init /\ [][Next]_<<part, numbers, amounts, signatures, stateless>>

-----------------------------------------------------------------------------
(* Type invariant of the four parts: the tries while they are generated,   *)
(* the transactions (none spends more than its inputs, or has a negative   *)
(* amount), and what the parties hold of each other.                       *)
TypeOK ==
    /\ part = "numbers" => Numbers!TypeOK
    /\ part = "amounts" => AmountsOK
    /\ part = "signatures" => Signatures!TypeOK
    /\ part = "stateless" => Stateless!TypeOK

(* Every number the smallest oracle can attest is in exactly one group,    *)
(* with the CET of its range, and the payout of the range neither takes    *)
(* more than the total collateral nor is further from the function than    *)
(* the rounding at that number allows (to_range_payouts,                   *)
(* group_by_ignoring_digits).  A constant piece is rounded once, at its    *)
(* first number: after it the rounding intervals are not asked for.        *)
EachNumberHasItsCet ==
    part = "numbers" => Numbers!EachNumberInOneGroup /\ Numbers!PayoutsFollowCurve

(* One party signs from the entries generate returns, the other from the   *)
(* iterator of its trie (DlcTrie::sign), and what look_up finds is one of  *)
(* these entries: its oracles and the length of its prefixes are those for *)
(* which the signature at that place was made.                             *)
TrieMatchesSignatures ==
    part = "numbers" => Numbers!IterYieldsGenerated /\ Numbers!FoundIsSigned

(* A contract settles only as a quorum of its oracles attested: of numbers,*)
(* where the contract allows a difference, less than 2^max_error_exp apart;*)
(* of outcomes, on one event, with the payout of that event's leg; without *)
(* a manager, every CET that is returned for attestations in order is one  *)
(* the network accepts.                                                    *)
PaysWhatWasAttested ==
    /\ part = "numbers" => Numbers!SettlesWithinError
    /\ part = "signatures" => Signatures!PaysWhatWasAttested
    /\ part = "stateless" => Stateless!PaysWhatWasAttested

(* Attestations in the order of the oracles, of which threshold agree, or  *)
(* differ by no more than the support, settle the contract: once every     *)
(* event of the leg has matured (get_closable_contract_info), and among    *)
(* numbers as long as the oracle with the fewest digits reports a number   *)
(* all oracles can (look_up).                                              *)
QuorumSettles ==
    /\ part = "numbers" => Numbers!QuorumSettles
    /\ part = "signatures" => Signatures!OrderedQuorumSettles

=============================================================================
