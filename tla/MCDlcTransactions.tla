------------------------- MODULE MCDlcTransactions -------------------------
(***************************************************************************)
(* Offers for TLC: both parties or one of them fund a contract or a        *)
(* channel, with just enough coins, one satoshi too few, change at the     *)
(* dust limit or above it; with a DLC input; with every order of serials.  *)
(***************************************************************************)
EXTENDS DlcTransactions

\* What an input adds to the fees of the party, in satoshis at rate 1, is
\* irrelevant to the cases: the coin's value is what the party needs, plus or
\* minus the given excess.
Coin(value, serial) == [value |-> value, serial |-> serial, witness |-> 108, dlc |-> FALSE]
DlcCoin(value, serial) == [value |-> value, serial |-> serial, witness |-> 220, dlc |-> TRUE]

PartyWith(collateral, inputs, serial) ==
  [collateral |-> collateral, inputs |-> inputs, changeSerial |-> serial,
   payoutSerial |-> serial]

TermsWith(offer, accept, rate, channel, toAccepter, payouts) ==
  [offer |-> offer, accept |-> accept, rate |-> rate, channel |-> channel,
   toAccepter |-> toAccepter, payouts |-> payouts, fundSerial |-> 2]

\* The same terms with the first coin of each party worth what is needed.
Balanced(t, offerExcess, acceptExcess) ==
  LET Worth(p, excess) ==
        IF t[p].collateral = 0 THEN t[p].inputs
        ELSE [t[p].inputs EXCEPT ![1].value =
                RequiredFunds(t, p) + excess - (InputAmount(t, p) - t[p].inputs[1].value)]
  IN [t EXCEPT !.offer.inputs = Worth("offer", offerExcess),
               !.accept.inputs = Worth("accept", acceptExcess)]

Split(total) == << [offer |-> total, accept |-> 0],
                   [offer |-> total - 1200, accept |-> 1200] >>

Excesses == { <<0, 0>>, <<-1, 0>>, <<999, 1000>>, <<5000, 999>> }

\* One coin each, or a coin and the funding output of an earlier contract.
Offers(offerCollateral, acceptCollateral, rates, channels, inputs) ==
  { Balanced(TermsWith(PartyWith(offerCollateral, inputs, serials[1]),
                       PartyWith(acceptCollateral,
                                 IF acceptCollateral = 0 THEN <<>> ELSE <<Coin(0, 2)>>,
                                 serials[2]),
                       rate, channel, toAccepter,
                       Split(offerCollateral + acceptCollateral)),
             excess[1], excess[2]) :
    serials \in { <<1, 3>>, <<3, 1>> }, rate \in rates, channel \in channels,
    toAccepter \in BOOLEAN, excess \in Excesses }

MCTerms ==
  Offers(5000, 5000, {1, 3}, BOOLEAN, <<Coin(0, 1)>>)
    \union Offers(6000, 1500, {1}, BOOLEAN, <<Coin(0, 3)>>)
    \union Offers(6000, 0, {1}, BOOLEAN, <<Coin(0, 1)>>)
    \union Offers(1000, 500, {1}, {TRUE}, <<Coin(0, 1)>>)
    \union Offers(8000, 3000, {2}, {FALSE}, <<Coin(0, 1), DlcCoin(5000, 4)>>)

\* Settlements that leave a party nothing or dust only where the terms say so.
Amounts(t) ==
  IF t.rate = 3 \/ t.accept.collateral < 5000 THEN {0, 750, 1200, TotalCollateral(t)}
  ELSE {1000, 2500, TotalCollateral(t) - 1000}

MCSettlePayouts == [t \in MCTerms |-> Amounts(t)]
MCRenewPayouts ==
  [t \in MCTerms |-> { Split(TotalCollateral(t)),
                       << [offer |-> 0, accept |-> TotalCollateral(t)],
                          [offer |-> 1, accept |-> TotalCollateral(t)] >> }]

=============================================================================
