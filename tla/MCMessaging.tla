----------------------------- MODULE MCMessaging -----------------------------
(* Instances: sizes at the limits of a packet and of the segments.          *)
EXTENDS Messaging

CONSTANTS a, b

Msg(id, type, len) == [id |-> id, type |-> type, len |-> len]

\* With packets of 20 bytes: messages of 18 bytes and less fit, those of 19 to 21 go out in one
\* packet that does not, 22 make two full segments, 23 three with one byte in the last, 35 three
\* full ones.
Offer == Msg("m1", "offer", 1)
Accept == Msg("m2", "accept", 23)
Sign == Msg("m3", "sign", 22)
OfferChannel == Msg("m4", "offer_channel", 35)
AcceptChannel == Msg("m5", "accept_channel", 18)
SettleOffer == Msg("m6", "settle_offer", 22)
RenewOffer == Msg("m7", "renew_offer", 19)
SettleAccept == Msg("m8", "settle_accept", 21)

MCMsgs == {Offer, Accept, Sign, OfferChannel, AcceptChannel, SettleOffer, RenewOffer,
           SettleAccept}

\* One party offers a contract and a settlement, the other a channel and a renewal: two each, so
\* that the in-memory channels can fill up while both listeners have an answer.
MCOpenings == (a :> {Offer, SettleOffer}) @@ (b :> {OfferChannel, RenewOffer})
MCReplies ==
    (Offer :> Accept) @@ (Accept :> Sign) @@ (Sign :> NoReply)
        @@ (OfferChannel :> AcceptChannel) @@ (AcceptChannel :> NoReply)
        @@ (SettleOffer :> SettleAccept) @@ (RenewOffer :> NoReply)
        @@ (SettleAccept :> NoReply)

=============================================================================
