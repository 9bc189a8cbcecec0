------------------------- MODULE MCNegotiationOracle -------------------------
(***************************************************************************)
(* What comes before a contract is executed: an oracle announces and later *)
(* attests the event, and two parties negotiate the contract.  The parties *)
(* only read what the oracle answered, so a behaviour takes the steps of   *)
(* Negotiation or those of Kormir and leaves the other one as it began.    *)
(* Tasks and events are interchangeable; outcomes, numbers and the ids of  *)
(* contracts are not taken to be.                                          *)
(***************************************************************************)
EXTENDS Negotiation, Kormir, TLC

VARIABLE part   \* whose steps the behaviour takes

Symmetry == Permutations(Tasks) \cup Permutations(EventIds)

BothInit == Init /\ KormirInit /\ part \in {"negotiation", "oracle"}

EitherNext ==
    \/ part = "negotiation" /\ Next /\ UNCHANGED <<part, kormir>>
    \/ part = "oracle" /\ KormirNext /\ UNCHANGED <<part, vars>>

BothSpec == BothInit /\ [][EitherNext]_<<part, vars, kormir>>

=============================================================================
