----------------------------- MODULE Negotiation -----------------------------
(***************************************************************************)
(* The offer / accept / sign exchange that sets up one DLC                 *)
(* (ddk-manager/src/manager.rs), up to the broadcast of the funding        *)
(* transaction by the accepting party.                                     *)
(*                                                                         *)
(* The stores are keyed.  An offer lives under its temporary id; accepting *)
(* it yields a contract id computed from the funding transaction, and the  *)
(* accepted or signed contract lives under that id.  Sled and Postgres     *)
(* drop the temporary record in the same transaction that writes the new   *)
(* one; MemoryStorage keeps it (DropsTemporary = FALSE).                   *)
(*                                                                         *)
(* Messages are kept in a set: a message that is never read was lost, one  *)
(* that is read twice was duplicated (a nostr relay replays stored events  *)
(* to a client that reconnects).  Messages of one peer are handled one     *)
(* after the other, as the transports do.  A crash between storing and     *)
(* replying is the loss of the reply; the one crash point that matters,    *)
(* between storing Signed and broadcasting, is a step of its own.          *)
(*                                                                         *)
(* The user of the accepting party is assumed to accept only offers it     *)
(* received.                                                               *)
(***************************************************************************)
EXTENDS Naturals, FiniteSets

CONSTANTS Ids,             \* contract ids: one per call of accept_contract_offer
          NoId,
          DropsTemporary   \* update_contract removes the temporary record

ASSUME NegotiationAssumption == /\ NoId \notin Ids
                                /\ DropsTemporary \in BOOLEAN

VARIABLES temp,       \* temp[p]: the record under the temporary id
          rec,        \* rec[p][i]: the record under contract id i
          msgs,       \* every message ever sent
          unsent,     \* accepting party: stored as Signed, fund not sent yet
          fund        \* contract ids whose funding transaction is on the network

vars == <<temp, rec, msgs, unsent, fund>>

Party == {"offer", "accept"}
TempState == {"None", "Offered", "FailedAccept"}
RecState == {"None", "Accepted", "Signed", "FailedSign"}
OfferMsg == [type |-> "Offer", id |-> NoId]
AcceptMsg(i) == [type |-> "Accept", id |-> i]
SignMsg(i) == [type |-> "Sign", id |-> i]
Message == {OfferMsg} \union {AcceptMsg(i) : i \in Ids} \union {SignMsg(i) : i \in Ids}

TypeOK == /\ temp \in [Party -> TempState]
          /\ rec \in [Party -> [Ids -> RecState]]
          /\ msgs \subseteq Message
          /\ unsent \in Ids \union {NoId}
          /\ fund \subseteq Ids

Init == /\ temp = [p \in Party |-> "None"]
        /\ rec = [p \in Party |-> [i \in Ids |-> "None"]]
        /\ msgs = {}
        /\ unsent = NoId
        /\ fund = {}

\* Mutant of UpdateContract: the temporary record survives in every backend.
UpdateContractKeepsTemporary(p, i, state) ==
    /\ rec' = [rec EXCEPT ![p][i] = state]
    /\ UNCHANGED temp

\* Storage::update_contract for a record that moves to contract id i: the
\* temporary record goes when the backend drops it.
UpdateContract(p, i, state) ==
    /\ rec' = [rec EXCEPT ![p][i] = state]
    /\ temp' = IF DropsTemporary /\ state \in {"Accepted", "Signed"}
               THEN [temp EXCEPT ![p] = "None"] ELSE temp

-----------------------------------------------------------------------------
\* send_offer_with_announcements: store the offer, then hand it to the
\* transport.  The temporary id is fresh, so the offer is made once.
SendOffer ==
    /\ temp["offer"] = "None"
    /\ OfferMsg \notin msgs
    /\ temp' = [temp EXCEPT !["offer"] = "Offered"]
    /\ msgs' = msgs \union {OfferMsg}
    /\ UNCHANGED <<rec, unsent, fund>>

\* on_offer_message: refused when a record with the same temporary id exists.
OnOfferMessage ==
    /\ OfferMsg \in msgs
    /\ unsent = NoId
    /\ temp["accept"] = "None"
    /\ temp' = [temp EXCEPT !["accept"] = "Offered"]
    /\ UNCHANGED <<rec, msgs, unsent, fund>>

\* accept_contract_offer: fresh coins and keys give a fresh contract id.
AcceptContractOffer(i) ==
    /\ temp["accept"] = "Offered"
    /\ rec["accept"][i] = "None"
    /\ UpdateContract("accept", i, "Accepted")
    /\ msgs' = msgs \union {AcceptMsg(i)}
    /\ UNCHANGED <<unsent, fund>>

\* Mutant of OnAcceptMessage: the contract need not be in the Offered state.
OnAcceptMessageInAnyState(i) ==
    /\ AcceptMsg(i) \in msgs
    /\ UpdateContract("offer", i, "Signed")
    /\ msgs' = msgs \union {SignMsg(i)}
    /\ UNCHANGED <<unsent, fund>>

\* on_accept_message: verified, signed, stored, and only then answered.
OnAcceptMessage(i) ==
    /\ AcceptMsg(i) \in msgs
    /\ temp["offer"] = "Offered"
    /\ UpdateContract("offer", i, "Signed")
    /\ msgs' = msgs \union {SignMsg(i)}
    /\ UNCHANGED <<unsent, fund>>

\* on_accept_message whose verification or signing fails
\* (accept_fail_on_error): the offer becomes FailedAccept.
AcceptFailOnError(i) ==
    /\ AcceptMsg(i) \in msgs
    /\ temp["offer"] = "Offered"
    /\ temp' = [temp EXCEPT !["offer"] = "FailedAccept"]
    /\ UNCHANGED <<rec, msgs, unsent, fund>>

\* Mutant of OnSignMessage: the broadcast comes before the store, so that a
\* stop in between leaves the contract Accepted.
OnSignMessageBroadcastFirst(i) ==
    /\ SignMsg(i) \in msgs
    /\ unsent = NoId
    /\ rec["accept"][i] = "Accepted"
    /\ unsent' = i
    /\ UNCHANGED <<temp, rec, msgs, fund>>

\* on_sign_message up to the store: Signed is written before the broadcast.
OnSignMessage(i) ==
    /\ SignMsg(i) \in msgs
    /\ unsent = NoId
    /\ rec["accept"][i] = "Accepted"
    /\ UpdateContract("accept", i, "Signed")
    /\ unsent' = i
    /\ UNCHANGED <<msgs, fund>>

\* on_sign_message whose verification fails (sign_fail_on_error).
SignFailOnError(i) ==
    /\ SignMsg(i) \in msgs
    /\ unsent = NoId
    /\ rec["accept"][i] = "Accepted"
    /\ UpdateContract("accept", i, "FailedSign")
    /\ UNCHANGED <<msgs, unsent, fund>>

\* Mutant of SendFund: it runs without a contract to fund.
SendFundUnguarded ==
    /\ fund' = IF fund \subseteq {unsent} THEN fund \union {unsent} ELSE fund
    /\ unsent' = NoId
    /\ UNCHANGED <<temp, rec, msgs>>

\* The rest of on_sign_message: send_transaction(fund_tx).  Funding
\* transactions of one offer spend the same coins, so the network takes one.
SendFund ==
    /\ unsent # NoId
    /\ fund' = IF fund \subseteq {unsent} THEN fund \union {unsent} ELSE fund
    /\ unsent' = NoId
    /\ UNCHANGED <<temp, rec, msgs>>

\* The broadcast fails, or the process stops before it: on_sign_message
\* returns an error and nothing sends the funding transaction again.
SendFundLost ==
    /\ unsent # NoId
    /\ unsent' = NoId
    /\ UNCHANGED <<temp, rec, msgs, fund>>

Next == \/ SendOffer
        \/ OnOfferMessage
        \/ SendFund
        \/ SendFundLost
        \/ \E i \in Ids : \/ AcceptContractOffer(i)
                          \/ OnAcceptMessage(i)
                          \/ AcceptFailOnError(i)
                          \/ OnSignMessage(i)
                          \/ SignFailOnError(i)

Spec == Init /\ [][Next]_vars

-----------------------------------------------------------------------------
(***************************************************************************)
(* Properties                                                              *)
(***************************************************************************)

\* Once a funding transaction is on the network both parties have the signed
\* contract in their store, whatever was lost, duplicated or cut short: each
\* of them can build the refund and the closing transactions that get its
\* collateral out of the funding output.
FundedIsSignedByBoth ==
    \A i \in fund : rec["offer"][i] = "Signed" /\ rec["accept"][i] = "Signed"

SignedIds(p) == {i \in Ids : rec[p][i] = "Signed"}

\* The offering party signs its coins into at most one funding transaction,
\* however often the offer and the acceptances are delivered or repeated: a
\* later AcceptDlc finds no offered record any more.
OffersCoinsOnce == \A i, j \in SignedIds("offer") : i = j

\* A party that has signed never forgets it, and a refused negotiation is
\* never revived by a late or repeated message.
VerdictIsFinal ==
    [][/\ \A p \in Party, i \in Ids :
            rec[p][i] \in {"Signed", "FailedSign"} => rec'[p][i] = rec[p][i]
       /\ temp["offer"] = "FailedAccept" => temp'["offer"] = "FailedAccept"]_vars
=============================================================================
