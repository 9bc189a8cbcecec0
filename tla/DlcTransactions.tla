-------------------------- MODULE DlcTransactions --------------------------
(***************************************************************************)
(* The amounts of the transactions of a DLC and of a DLC channel           *)
(* (dlc/src/lib.rs, dlc/src/util.rs, dlc/src/channel/mod.rs, and the calls *)
(* of ddk-manager's contract_updater.rs and channel_updater.rs): who funds *)
(* what, which fees are set aside, which outputs exist and whose they are, *)
(* from the funding transaction to the transaction that ends the contract. *)
(*                                                                         *)
(* A script is its owner and its length, a signature always verifies, and  *)
(* lock times are left to the modules of the protocol.  A published        *)
(* transaction is the value and the witness size of each input and the     *)
(* owner, value and script length of each output.                          *)
(*                                                                         *)
(* The names of the specification start with Amounts, so that a module can *)
(* extend this one and another specification.                              *)
(***************************************************************************)
EXTENDS SerialOrder, Sequences, SequencesExt

CONSTANTS
  Terms,         \* offers with the answer of the other party
  RenewPayouts,  \* [terms -> sequences of payouts a renewal may propose]
  SettlePayouts, \* [terms -> amounts a settlement or a close may propose]
  PunishRate,    \* UrgentOnChainSweep of the fee estimator, in sat/vB
  MaxUpdates     \* bound on settlements and renewals

Parties == {"offer", "accept"}
Other(p) == CHOOSE q \in Parties : q # p

VARIABLES
  terms,    \* the parameters of both parties
  stage,    \* Offered, Refused, Open, Settled, Cheated, Closed or Panicked
  held,     \* the transactions both parties hold signed, by role
  revoked,  \* the first transactions of the earlier states of a channel
  stake,    \* what each party has in the current contract of the channel
  chain,    \* the published transactions, the funding transaction first
  due       \* what the closing transaction owes each party

amounts == <<terms, stage, held, revoked, stake, chain, due>>

-----------------------------------------------------------------------------
\* Amounts (dlc/src/lib.rs, dlc/src/util.rs).

DUST_LIMIT == 1000
FUND_TX_BASE_WEIGHT == 214
CET_BASE_WEIGHT == 500
TX_INPUT_BASE_WEIGHT == 164
BUFFER_TX_WEIGHT == 599
CET_EXTRA_WEIGHT == 330
SETTLE_INPUT_WEIGHT == 428
SETTLE_OUTPUT_WEIGHT == 172
PUNISH_BUFFER_INPUT_WEIGHT == 758
PUNISH_SETTLE_INPUT_WEIGHT == 575
P2WSH == 34
P2WPKH == 22
P2WPKH_WITNESS_SIZE == 108

\* Mutant: the last virtual byte is not counted.
WeightToFeeTruncated(weight, rate) == (weight \div 4) * rate

\* util::weight_to_fee: whole virtual bytes, rounded up.
WeightToFee(weight, rate) == ((weight + 3) \div 4) * rate

Total(values) == FoldSeq(+, 0, values)
ValueOf(outputs) == Total([i \in DOMAIN outputs |-> outputs[i].value])

TotalCollateral(t) == t.offer.collateral + t.accept.collateral

\* The elements that pass the test, in their order.
Retain(s, Test(_)) == FlattenSeq([i \in DOMAIN s |-> IF Test(s[i]) THEN <<s[i]>> ELSE <<>>])

\* Mutant: the DLC inputs are filtered out and not put back.
InputsWithoutDlc(t, p) ==
  LET Plain(c) == c.witness <= P2WPKH_WITNESS_SIZE
  IN Retain(t[p].inputs, Plain)

\* The inputs that get_change_output_and_fees and the funding transaction see:
\* create_spliced_dlc_transactions keeps the inputs with a P2WPKH witness and
\* puts the DLC inputs back from dlc_inputs.
IsSpliced(t) == \E p \in Parties : \E i \in DOMAIN t[p].inputs : t[p].inputs[i].dlc
Inputs(t, p) ==
  LET Plain(c) == c.witness <= P2WPKH_WITNESS_SIZE
      Dlc(c) == c.dlc
  IN IF IsSpliced(t)
     THEN Retain(t[p].inputs, Plain) \o Retain(t[p].inputs, Dlc)
     ELSE t[p].inputs

\* PartyParams.input_amount is computed by the wallet side, from all inputs.
InputAmount(t, p) == ValueOf(t[p].inputs)

BaseShare(t, p, weight) ==
  IF t[p].collateral = TotalCollateral(t) THEN weight ELSE weight \div 2

FundFee(t, p) ==
  LET spent == [i \in DOMAIN Inputs(t, p) |->
                  TX_INPUT_BASE_WEIGHT + Inputs(t, p)[i].witness]
  IN IF t[p].collateral = 0 THEN 0
     ELSE WeightToFee(BaseShare(t, p, FUND_TX_BASE_WEIGHT) + Total(spent)
                        + 4 * P2WPKH + 36, t.rate)

CetFee(t, p) ==
  IF t[p].collateral = 0 THEN 0
  ELSE WeightToFee(BaseShare(t, p, CET_BASE_WEIGHT) + 4 * P2WPKH, t.rate)

\* What a channel sets aside for the buffer transaction and the larger CET.
ExtraFee(t) ==
  IF t.channel THEN WeightToFee(BUFFER_TX_WEIGHT + CET_EXTRA_WEIGHT, t.rate) ELSE 0

RequiredFunds(t, p) ==
  t[p].collateral + FundFee(t, p) + CetFee(t, p) + ExtraFee(t)

Pays(t, p) == t[p].collateral = 0 \/ InputAmount(t, p) >= RequiredFunds(t, p)

Change(t, p) == IF t[p].collateral = 0 THEN 0 ELSE InputAmount(t, p) - RequiredFunds(t, p)

\* Mutant: the extra fee of each party is taken out of the fund output.
FundOutputValueExtraTwice(t) ==
  InputAmount(t, "offer") + InputAmount(t, "accept")
    - Change(t, "offer") - Change(t, "accept")
    - FundFee(t, "offer") - FundFee(t, "accept") - 2 * ExtraFee(t)

FundOutputValue(t) ==
  InputAmount(t, "offer") + InputAmount(t, "accept")
    - Change(t, "offer") - Change(t, "accept")
    - FundFee(t, "offer") - FundFee(t, "accept") - ExtraFee(t)

\* The first assert_eq! of create_fund_transaction_with_fees; the second one is
\* the definition of the fund output's value written the other way round.
FundValueAsserted(t) ==
  FundOutputValue(t) = TotalCollateral(t) + CetFee(t, "offer") + CetFee(t, "accept")
                         + ExtraFee(t)

-----------------------------------------------------------------------------
\* Transactions.

Out(owner, value, spk) == [owner |-> owner, value |-> value, spk |-> spk]
Spend(vout, value, witness) == [vout |-> vout, value |-> value, witness |-> witness]
Tx(kind, inputs, outputs) == [kind |-> kind, inputs |-> inputs, outputs |-> outputs]

DiscardDust(outputs) ==
  LET Kept(o) == o.value >= DUST_LIMIT
  IN Retain(outputs, Kept)

CreateFundingTransaction(t) ==
  LET all == Inputs(t, "offer") \o Inputs(t, "accept")
      ordered == OrderBySerialIds(all, [i \in DOMAIN all |-> all[i].serial])
  IN Tx("fund",
        [i \in DOMAIN ordered |-> Spend(0, ordered[i].value, ordered[i].witness)],
        DiscardDust(OrderBySerialIds(
          << Out("fund", FundOutputValue(t), P2WSH),
             Out("offer", Change(t, "offer"), P2WPKH),
             Out("accept", Change(t, "accept"), P2WPKH) >>,
          << t.fundSerial, t.offer.changeSerial, t.accept.changeSerial >>)))

\* util::get_output_for_script_pubkey with the funding script.
FundVout(tx) == CHOOSE i \in DOMAIN tx.outputs : tx.outputs[i].owner = "fund"
FundOutput(tx) == tx.outputs[FundVout(tx)]

\* The witness of the two signatures on a fund output, and what a buffer
\* output adds to it, as the comments of dlc/src/channel/mod.rs count them.
\* Those of a punishment have three signatures with a low R, 72 each.
MultisigWitness == 221
BufferWitness == MultisigWitness + CET_EXTRA_WEIGHT
SpendFund(fund) == Spend(FundVout(fund), FundOutput(fund).value, MultisigWitness)
PunishWitness(kind) == 3 * 72 + (IF kind = "buffer" THEN 331 ELSE 149)

\* The two payouts in the order of the parties' payout_serial_id.
PayoutOutputs(t, o, offerValue, acceptValue) ==
  DiscardDust(OrderBySerialIds(
    << Out(o, offerValue, P2WPKH), Out(Other(o), acceptValue, P2WPKH) >>,
    << t[o].payoutSerial, t[Other(o)].payoutSerial >>))

CreateCet(t, o, payout, spent) ==
  Tx("cet", <<spent>>, PayoutOutputs(t, o, payout.offer, payout.accept))

\* create_cets_and_refund_tx refuses payouts that are not the collateral.
HasProperOutcomes(t, payouts) ==
  \A i \in DOMAIN payouts : payouts[i].offer + payouts[i].accept = TotalCollateral(t)

\* The refund goes back by the collateral in the parties' parameters, or all
\* of it to the accepting party (REFUND_TO_ACCEPTER_FLAG).
CreateRefundTransaction(t, o, toAccepter, spent) ==
  Tx("refund", <<spent>>,
     DiscardDust(<< Out(o, IF toAccepter THEN 0 ELSE t[o].collateral, P2WPKH),
                    Out(Other(o), IF toAccepter THEN TotalCollateral(t)
                                  ELSE t[Other(o)].collateral, P2WPKH) >>))

CreateBufferTransaction(t, fund) ==
  Tx("buffer", <<SpendFund(fund)>>,
     << Out("buffer", FundOutput(fund).value - ExtraFee(t), P2WSH) >>)

\* The part of the fees that a settled state does not need goes to the outputs.
CreateSettleTransaction(t, o, offerPayout, acceptPayout, fund) ==
  LET kept == DiscardDust(<< Out(o, offerPayout, P2WSH), Out(Other(o), acceptPayout, P2WSH) >>)
      fee == WeightToFee(SETTLE_INPUT_WEIGHT + Len(kept) * SETTLE_OUTPUT_WEIGHT, t.rate)
      remaining == (FundOutput(fund).value - offerPayout - acceptPayout - fee) \div Len(kept)
  IN Tx("settle", <<SpendFund(fund)>>,
        [i \in DOMAIN kept |-> [kept[i] EXCEPT !.value = @ + remaining]])

\* Both payouts are dust: the remaining fee is divided by the number of outputs.
SettleDividesByZero(offerPayout, acceptPayout) ==
  offerPayout < DUST_LIMIT /\ acceptPayout < DUST_LIMIT

CreateCollaborativeCloseTransaction(t, o, offerPayout, acceptPayout, fund) ==
  Tx("close", <<SpendFund(fund)>>,
     PayoutOutputs(t, o, offerPayout, acceptPayout))

\* Mutant: the roles of the settlement are mixed up.
PunishedOutputSwapped(published, punisher) ==
  IF published.tx.kind = "buffer" THEN 1
  ELSE IF published.offerer = punisher THEN 1 ELSE 2

\* The buffer's only output; of a settle transaction, output 1 when the
\* punisher is the party that offered the settlement, output 0 otherwise.
PunishedOutput(published, punisher) ==
  IF published.tx.kind = "buffer" THEN 1
  ELSE IF published.offerer = punisher THEN 2 ELSE 1

PunishFeeOf(kind) ==
  WeightToFee((IF kind = "buffer" THEN PUNISH_BUFFER_INPUT_WEIGHT
               ELSE PUNISH_SETTLE_INPUT_WEIGHT) + 33 + 4 * P2WPKH, PunishRate)
PunishFee(published) == PunishFeeOf(published.tx.kind)

CreatePunishTransaction(published, punisher) ==
  LET vout == PunishedOutput(published, punisher)
      output == published.tx.outputs[vout]
  IN Tx("punish", <<Spend(vout, output.value, PunishWitness(published.tx.kind))>>,
        << Out(punisher, output.value - PunishFee(published), P2WPKH) >>)

\* prev_tx.output[vout] out of bounds, or a fee larger than the output.
PunishPanics(published, punisher) ==
  LET vout == PunishedOutput(published, punisher)
  IN vout \in DOMAIN published.tx.outputs =>
       published.tx.outputs[vout].value < PunishFee(published)

\* What the parties hold once both signed: the transaction that opens the
\* execution (none without a channel), the CETs and the refund.
DlcTransactionsFor(t, o, payouts, fund, toAccepter) ==
  LET first == CreateBufferTransaction(t, fund)
      spent == IF t.channel THEN Spend(1, first.outputs[1].value, BufferWitness)
               ELSE SpendFund(fund)
  IN [offerer |-> o, payouts |-> payouts,
      first |-> IF t.channel THEN <<first>> ELSE <<>>,
      cets |-> [i \in DOMAIN payouts |-> CreateCet(t, o, payouts[i], spent)],
      refund |-> CreateRefundTransaction(t, o, toAccepter, spent)]

NoContract == [offerer |-> "offer", payouts |-> <<>>, first |-> <<>>, cets |-> <<>>,
               refund |-> Tx("none", <<>>, <<>>)]

-----------------------------------------------------------------------------
\* What can be offered.  ContractInput::validate refuses less collateral than
\* the dust limit, validate_offer_funding_inputs (and SpliceInput) an earlier
\* DLC with the witness of a P2WPKH coin, which all other coins of a spliced
\* contract have.
Amount == Nat
Coins == [value : Amount, serial : Nat, witness : Nat, dlc : BOOLEAN]
Payouts == [offer : Amount, accept : Amount]
ValidTerms(t) ==
  /\ \A p \in Parties :
       /\ t[p].collateral \in Amount /\ t[p].inputs \in Seq(Coins)
       /\ t[p].changeSerial \in Nat /\ t[p].payoutSerial \in Nat
       /\ IsSpliced(t) => \A i \in DOMAIN t[p].inputs :
             t[p].inputs[i].dlc = (t[p].inputs[i].witness > P2WPKH_WITNESS_SIZE)
  /\ TotalCollateral(t) >= DUST_LIMIT
  /\ t.rate \in Nat /\ t.fundSerial \in Nat
  /\ t.channel \in BOOLEAN /\ t.toAccepter \in BOOLEAN
  /\ t.payouts \in Seq(Payouts)

ASSUME AmountsAssumption ==
  /\ PunishRate \in Nat /\ MaxUpdates \in Nat
  /\ \A t \in Terms : /\ ValidTerms(t)
                      /\ SettlePayouts[t] \subseteq Amount
                      /\ RenewPayouts[t] \subseteq Seq(Payouts)

AmountsInit ==
  /\ terms \in Terms
  /\ stage = "Offered"
  /\ held = NoContract
  /\ revoked = <<>>
  /\ stake = [p \in Parties |-> terms[p].collateral]
  /\ chain = <<>>
  /\ due = [p \in Parties |-> 0]

Acceptable(t) == (\A p \in Parties : Pays(t, p)) /\ HasProperOutcomes(t, t.payouts)

\* accept_contract, accept_channel_offer: the errors of the construction.
RefuseOffer ==
  /\ stage = "Offered"
  /\ ~Acceptable(terms)
  /\ stage' = "Refused"
  /\ UNCHANGED <<terms, held, revoked, stake, chain, due>>

\* The failing assert_eq!.
PanicOnFunding ==
  /\ stage = "Offered"
  /\ \A p \in Parties : Pays(terms, p)
  /\ ~FundValueAsserted(terms)
  /\ stage' = "Panicked"
  /\ UNCHANGED <<terms, held, revoked, stake, chain, due>>

\* create_dlc_transactions, create_spliced_dlc_transactions and
\* create_channel_transactions, signed by both parties and broadcast.
Fund ==
  LET fund == CreateFundingTransaction(terms)
  IN /\ stage = "Offered"
     /\ Acceptable(terms)
     /\ FundValueAsserted(terms)
     /\ chain' = <<fund>>
     /\ held' = DlcTransactionsFor(terms, "offer", terms.payouts, fund, terms.toAccepter)
     /\ stage' = "Open"
     /\ UNCHANGED <<terms, revoked, stake, due>>

Updatable == terms.channel /\ Len(revoked) < MaxUpdates

\* settle_offer to settle_finalize: o offers, its counter party is to have
\* counterPayout, and the previous state of the channel is revoked.
Settle(o, counterPayout) ==
  /\ stage = "Open"
  /\ Updatable
  /\ counterPayout <= TotalCollateral(terms)
  /\ LET ownPayout == TotalCollateral(terms) - counterPayout
     IN /\ ~SettleDividesByZero(ownPayout, counterPayout)
        /\ held' = [NoContract EXCEPT !.offerer = o, !.first =
             << CreateSettleTransaction(terms, o, ownPayout, counterPayout, chain[1]) >>]
        /\ stake' = [p \in Parties |-> IF p = o THEN ownPayout ELSE counterPayout]
  /\ revoked' = Append(revoked, [tx |-> held.first[1], offerer |-> held.offerer])
  /\ stage' = "Settled"
  /\ UNCHANGED <<terms, chain, due>>

PanicOnSettling(counterPayout) ==
  /\ stage = "Open"
  /\ Updatable
  /\ counterPayout <= TotalCollateral(terms)
  /\ SettleDividesByZero(TotalCollateral(terms) - counterPayout, counterPayout)
  /\ stage' = "Panicked"
  /\ UNCHANGED <<terms, held, revoked, stake, chain, due>>

\* renew_offer to renew_finalize: a new contract between the balances of the
\* channel; both sides take the parties' parameters from the channel and the
\* refund flag is not part of the offer.
Renew(o, payouts) ==
  /\ stage \in {"Open", "Settled"}
  /\ Updatable
  /\ HasProperOutcomes(terms, payouts)
  /\ held' = DlcTransactionsFor(terms, o, payouts, chain[1], FALSE)
  /\ revoked' = Append(revoked, [tx |-> held.first[1], offerer |-> held.offerer])
  /\ stage' = "Open"
  /\ UNCHANGED <<terms, stake, chain, due>>

-----------------------------------------------------------------------------
\* The end of a contract.

Close(txs, owed) ==
  /\ chain' = chain \o txs
  /\ due' = owed
  /\ stage' = "Closed"
  /\ UNCHANGED <<terms, held, revoked, stake>>

Owed(o, offerPayout, acceptPayout) ==
  [p \in Parties |-> IF p = o THEN offerPayout ELSE acceptPayout]

ExecuteCet(i) ==
  /\ stage = "Open"
  /\ i \in DOMAIN held.cets
  /\ Close(Append(held.first, held.cets[i]),
           Owed(held.offerer, held.payouts[i].offer, held.payouts[i].accept))

Refund ==
  /\ stage = "Open"
  /\ Close(Append(held.first, held.refund),
           IF terms.toAccepter /\ revoked = <<>>
           THEN Owed("offer", 0, TotalCollateral(terms))
           ELSE [p \in Parties |-> terms[p].collateral])

\* The amount of a close goes to the counter party in a channel
\* (offer_collaborative_close), and without one to the party that accepted the
\* contract, whichever party calls cooperative_close_contract (accept_payout of
\* CloseDlc).
CloseTogether(proposer, counterPayout) ==
  LET o == IF terms.channel THEN proposer ELSE "offer"
      rest == TotalCollateral(terms) - counterPayout
  IN /\ stage \in {"Open", "Settled"}
     /\ counterPayout <= TotalCollateral(terms)
     /\ Close(<< CreateCollaborativeCloseTransaction(terms, o, rest, counterPayout, chain[1]) >>,
              Owed(o, rest, counterPayout))

PublishSettle ==
  /\ stage = "Settled"
  /\ Close(held.first, stake)

\* An earlier transaction of the channel is published by one of the parties.
Cheat(k) ==
  /\ stage \in {"Open", "Settled"}
  /\ k \in DOMAIN revoked
  /\ chain' = Append(chain, revoked[k].tx)
  /\ held' = [NoContract EXCEPT !.offerer = revoked[k].offerer, !.first = <<revoked[k].tx>>]
  /\ stage' = "Cheated"
  /\ UNCHANGED <<terms, revoked, stake, due>>

Published == [tx |-> held.first[1], offerer |-> held.offerer]

\* process_watched_txs: the other party takes the cheater's output.
Punish(punisher) ==
  /\ stage = "Cheated"
  /\ ~PunishPanics(Published, punisher)
  /\ chain' = Append(chain, CreatePunishTransaction(Published, punisher))
  /\ due' = [p \in Parties |-> IF p = punisher THEN TotalCollateral(terms) - PunishFee(Published)
                               ELSE 0]
  /\ stage' = "Closed"
  /\ UNCHANGED <<terms, held, revoked, stake>>

PanicOnPunishing(punisher) ==
  /\ stage = "Cheated"
  /\ PunishPanics(Published, punisher)
  /\ stage' = "Panicked"
  /\ UNCHANGED <<terms, held, revoked, stake, chain, due>>

AmountsNext ==
  \/ RefuseOffer \/ PanicOnFunding \/ Fund \/ Refund \/ PublishSettle
  \/ \E amount \in SettlePayouts[terms] :
       \/ PanicOnSettling(amount)
       \/ \E p \in Parties : Settle(p, amount) \/ CloseTogether(p, amount)
  \/ \E p \in Parties, payouts \in RenewPayouts[terms] : Renew(p, payouts)
  \/ \E i \in 1..Len(held.cets) : ExecuteCet(i)
  \/ \E k \in 1..Len(revoked) : Cheat(k)
  \/ \E p \in Parties : Punish(p) \/ PanicOnPunishing(p)

AmountsSpec == AmountsInit /\ [][AmountsNext]_amounts

-----------------------------------------------------------------------------
Stages == {"Offered", "Refused", "Open", "Settled", "Cheated", "Closed", "Panicked"}

BothFund(t) == \A p \in Parties : t[p].collateral > 0

\* The stages, and no published transaction that spends more than its inputs or
\* has a negative amount: the inputs that were counted when the change and the
\* funding output were computed are the inputs of the funding transaction.
AmountsOK ==
  /\ stage \in Stages
  /\ \A p \in Parties : stake[p] >= 0 /\ due[p] >= 0
  /\ Len(revoked) <= MaxUpdates
  /\ \A i \in DOMAIN chain :
       /\ \A k \in DOMAIN chain[i].outputs : chain[i].outputs[k].value >= 0
       /\ ValueOf(chain[i].outputs) <= ValueOf(chain[i].inputs)

FeeOf(tx) == ValueOf(tx.inputs) - ValueOf(tx.outputs)

\* Version, counts, lock time and segwit marker weigh 42; an input 164 and its
\* witness; an output 9 bytes and its script.
VirtualSize(tx) ==
  (42 + Total([i \in DOMAIN tx.inputs |-> TX_INPUT_BASE_WEIGHT + tx.inputs[i].witness])
      + Total([i \in DOMAIN tx.outputs |-> 4 * (9 + tx.outputs[i].spk)]) + 3) \div 4

PaysRate(txs, rate) ==
  Total([i \in DOMAIN txs |-> FeeOf(txs[i])])
    >= rate * Total([i \in DOMAIN txs |-> VirtualSize(txs[i])])

\* Between two parties that both fund the contract, the funding transaction, and
\* the transactions that lead from it to the payouts taken together, pay the
\* agreed fee rate, whichever way the contract ends (weight_to_fee, the weight
\* constants and create_settle_transaction's remaining fee).
RateIsPaid ==
  chain # <<>> /\ BothFund(terms) =>
    /\ PaysRate(<<chain[1]>>, terms.rate)
    /\ chain[Len(chain)].kind # "punish" => PaysRate(Tail(chain), terms.rate)
    /\ chain[Len(chain)].kind = "punish" => PaysRate(<<chain[Len(chain)]>>, PunishRate)

\* The outputs of a party that the next transaction does not spend.
Received(p) ==
  LET Left(i, k) == ~(i < Len(chain) /\ chain[i + 1].inputs[1].vout = k)
      Own(i, k) == chain[i].outputs[k].owner = p /\ Left(i, k)
  IN Total([i \in DOMAIN chain |->
              Total([k \in DOMAIN chain[i].outputs |->
                       IF Own(i, k) THEN chain[i].outputs[k].value ELSE 0])])

ChangeKept(p) == IF Change(terms, p) >= DUST_LIMIT THEN Change(terms, p) ELSE 0

\* When a contract has ended, each party has its change and what the end of the
\* contract owes it, up to an output that would have been dust: after any
\* settlements and renewals, offered by either party, and for every order of the
\* serial ids.  Whoever published a revoked buffer or settle transaction is left
\* with the change, once the other party has punished it.
EachGetsItsDue ==
  stage = "Closed" =>
    /\ \A p \in Parties : Received(p) > ChangeKept(p) + due[p] - DUST_LIMIT
    /\ chain[Len(chain)].kind = "punish" =>
         LET cheater == Other(chain[Len(chain)].outputs[1].owner)
         IN Received(cheater) = ChangeKept(cheater)

\* None of the assertions, divisions and subtractions of the construction can fail
\* as long as both parties have collateral, and settlements leave each of them
\* an output that is not dust and pays for its punishment.
Punishable(amount, kind) == amount >= PunishFeeOf(kind)
SoundTerms(t) ==
  /\ BothFund(t)
  /\ Punishable(TotalCollateral(t), "buffer")
  /\ \A amount \in SettlePayouts[t] :
       amount <= TotalCollateral(t) =>
         \A share \in {amount, TotalCollateral(t) - amount} :
           share >= DUST_LIMIT /\ Punishable(share, "settle")

SoundTermsNeverPanic == stage = "Panicked" => ~SoundTerms(terms)

=============================================================================
