------------------------- MODULE MCContractSigning -------------------------
(***************************************************************************)
(* Disjoint contracts for TLC: two legs, each with one oracle, of either   *)
(* kind.  The offerer splices a DLC in and adds a coin, the acceptor adds  *)
(* one.                                                                    *)
(***************************************************************************)
EXTENDS ContractSigning

Leg1(kind) == [kind |-> kind, oracles |-> 1, threshold |-> 1, payouts |-> <<10, 20>>]
Leg2(kind) == [kind |-> kind, oracles |-> 1, threshold |-> 1, payouts |-> <<30, 40, 50>>]

MCDisjoint ==
    {<<Leg1(first), Leg2(second)>> :
        first \in {"enum", "numerical"}, second \in {"enum", "numerical"}}

MCFundingInputs ==
    {[owner |-> "offer", dlc |-> TRUE], [owner |-> "offer", dlc |-> FALSE],
     [owner |-> "accept", dlc |-> FALSE]}

=============================================================================
