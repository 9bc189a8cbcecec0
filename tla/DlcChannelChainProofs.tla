----------------------- MODULE DlcChannelChainProofs ------------------------
(***************************************************************************)
(* Proofs about DlcChannel and the chain, from the invariants of           *)
(* DlcChannelProofs: what is stored next to a channel, why a channel is    *)
(* closed, and that what the other party publishes is watched.             *)
(***************************************************************************)
EXTENDS DlcChannelProofs

-----------------------------------------------------------------------------
(***************************************************************************)
(* The contract of a channel c, next to the contracts l of the party that  *)
(* are stored as Confirmed; first: that of the setup still is not.         *)
(***************************************************************************)
Offerable == {"SettledOffered", "SettledReceived", "RenewOffered"}

\* An established channel has the contract of its transaction, offered by then.
ContractOf(c, s) == /\ s.st = "Established" => s.con = s.tx.o /\ s.con <= c.ver
                    /\ s.st = "Settled" => s.con = NoTx
Confirmed(s, l, first) == s.st = "Established" => s.con \in l \/ (s.con = 0 /\ first)

\* A renewal accepts a contract under an id that the replaced one does not have,
\* and has it Confirmed before the channel has it.
Contracts(c, l, first) ==
    c.kind = "Signed" =>
        /\ c.s.st \in StableStates => ContractOf(c, c.s) /\ Confirmed(c.s, l, first)
        /\ c.s.st \in Updating => ContractOf(c, c.rb)
        /\ c.s.st \in Offerable => Confirmed(c.rb, l, first)
        /\ Received(c.s) \/ Accepts(c.s) => 0 < c.s.tx.o /\ c.s.tx.o <= c.ver + 1
        /\ c.s.st = "RenewAccepted" => c.s.tx.o \notin l
        /\ c.s.st \in {"RenewConfirmed", "RenewFinalized"} => c.s.tx.o \in l
ContractInv(p) == Contracts(ch[p], live[p], p \in signed)

\* The states of an update, and what they are not.
LEMMA OfferableStates ==
  /\ \A st \in Offerable : st \in Updating /\ st \notin StableStates \union {"RenewAccepted", "RenewConfirmed", "RenewFinalized"}
  /\ \A st \in StableStates : st \notin Updating \union Offerable \union {"RenewAccepted", "RenewConfirmed", "RenewFinalized"}
  /\ \A s : s.st \in StableStates => ~Received(s) /\ ~Accepts(s)
  /\ \A s : s.st \in Offerable => ~Accepts(s)
  /\ \A s : s.st \in HasAccepted \union HasConfirmed =>
        s.st \in Updating /\ s.st \notin StableStates \union Offerable \union {"RenewFinalized"} /\ ~Received(s)
  /\ \A s : s.st = "RenewFinalized" => s.st \notin StableStates \union Offerable \union Updating /\ ~Received(s)
  BY DEF Offerable, StableStates, Updating, SettleStates, RenewStates, Received, Accepts, HasAccepted, HasConfirmed

LEMMA ContractsEnd ==
  ASSUME NEW c, NEW l, NEW first, c.kind # "Signed" \/ c.s.st \in {"Closing", "CollaborativeCloseOffered"}
  PROVE  Contracts(c, l, first)
<1>1. CASE c.kind # "Signed"
  BY <1>1 DEF Contracts
<1>2. CASE c.s.st \in {"Closing", "CollaborativeCloseOffered"}
  <2>1. /\ c.s.st \notin StableStates /\ c.s.st \notin Updating /\ c.s.st \notin Offerable
        /\ c.s.st \notin {"RenewAccepted", "RenewConfirmed", "RenewFinalized"}
    BY <1>2 DEF StableStates, Updating, SettleStates, RenewStates, Offerable
  <2>2. ~Received(c.s) /\ ~Accepts(c.s)
    BY <1>2 DEF Received, Accepts
  <2> QED BY <2>1, <2>2 DEF Contracts
<1> QED BY <1>1, <1>2

LEMMA ContractsOpen ==
  ASSUME NEW d, NEW l, d = Signs(TRUE) \/ d = Signs(FALSE)
  PROVE  Contracts(d, l, TRUE)
<1>1. d.s.st = "Established" /\ d.s.tx = FirstBuffer /\ d.ver = 0 /\ FirstBuffer.o = 0
  BY SignedFields DEF FirstBuffer
<1>2. d.s.con = 0
  <2>1. CASE d = Signs(TRUE)
    BY <2>1, <1>1 DEF Signs, NoChannel, WithContract
  <2>2. CASE d = Signs(FALSE)
    BY <2>2, <1>1 DEF Signs, NoChannel, WithContract
  <2> QED BY <2>1, <2>2
<1>3. ContractOf(d, d.s) /\ Confirmed(d.s, l, TRUE) /\ d.s.st \in StableStates
  BY <1>1, <1>2 DEF ContractOf, Confirmed, StableStates
<1> QED BY <1>3, OfferableStates DEF Contracts

LEMMA ContractsSwap ==
  ASSUME NEW c \in Channel, NEW l, NEW first, NEW s, Contracts(c, l, first), c.kind = "Signed", c.s.st \in StableStates,
         s.st \in Offerable, Received(s) => 0 < s.tx.o /\ s.tx.o <= c.ver + 1
  PROVE  Contracts(Swap(c, s), l, first)
<1> DEFINE d == Swap(c, s)
<1>1. d.kind = "Signed" /\ d.ver = c.ver /\ d.s = s /\ d.rb = c.s
  BY SwapFields DEF Same
<1>2. ContractOf(c, c.s) /\ Confirmed(c.s, l, first)
  BY DEF Contracts
<1> HIDE DEF d
<1>3. ContractOf(d, d.rb) /\ Confirmed(d.rb, l, first)
  BY <1>1, <1>2 DEF ContractOf
<1>4. Contracts(d, l, first)
  BY <1>1, <1>3, OfferableStates DEF Contracts
<1> QED BY <1>4 DEF d

LEMMA ContractsRollBack ==
  ASSUME NEW c \in Channel, NEW l, NEW first, Contracts(c, l, first), c.kind = "Signed", c.s.st \in Offerable,
         c.rb.st \in StableStates
  PROVE  Contracts(RollBack(c), l, first)
<1> DEFINE d == RollBack(c)
<1>1. d.kind = "Signed" /\ d.ver = c.ver /\ d.s = c.rb
  BY RollBackFields DEF Same
<1>2. ContractOf(c, c.rb) /\ Confirmed(c.rb, l, first)
  BY OfferableStates DEF Contracts
<1> HIDE DEF d
<1>3. ContractOf(d, d.s) /\ Confirmed(d.s, l, first)
  BY <1>1, <1>2 DEF ContractOf
<1>4. Contracts(d, l, first)
  BY <1>1, <1>3, OfferableStates DEF Contracts
<1> QED BY <1>4 DEF d

\* A state that accepts or confirms an offer, for the contracts k.
LEMMA ContractsSet ==
  ASSUME NEW c \in Channel, NEW l, NEW k, NEW first, NEW s, Contracts(c, l, first), c.kind = "Signed",
         c.s.st \in Updating, s.st \in HasAccepted \union HasConfirmed,
         s.st \in HasAccepted => 0 < s.tx.o /\ s.tx.o <= c.ver + 1,
         s.st = "RenewAccepted" => s.tx.o \notin k,
         s.st = "RenewConfirmed" => s.tx.o \in k
  PROVE  Contracts([c EXCEPT !.s = s], k, first)
<1> DEFINE d == [c EXCEPT !.s = s]
<1>1. d.kind = "Signed" /\ d.ver = c.ver /\ d.s = s /\ d.rb = c.rb
  BY SetFields DEF Same
<1>2. ContractOf(c, c.rb)
  BY DEF Contracts
<1> HIDE DEF d
<1>3. ContractOf(d, d.rb)
  BY <1>1, <1>2 DEF ContractOf
<1>4. Accepts(s) => s.st \in HasAccepted
  BY Stages DEF Accepts, HasAccepted, HasConfirmed
<1>5. Contracts(d, k, first)
  BY <1>1, <1>3, <1>4, OfferableStates DEF Contracts
<1> QED BY <1>5 DEF d

\* The end of an update.
LEMMA ContractsStable ==
  ASSUME NEW d, NEW k, NEW first, d.s.st \in StableStates, ContractOf(d, d.s), Confirmed(d.s, k, first)
  PROVE  Contracts(d, k, first)
  BY OfferableStates DEF Contracts

-----------------------------------------------------------------------------
(* A step of p leaves it with the channel c and the contracts l.           *)
Books(p, c, l) ==
    /\ ch'[p] = c /\ live'[p] = l
    /\ \A q \in Party \ {p} : ch'[q] = ch[q] /\ live'[q] = live[q] /\ (q \in signed' <=> q \in signed)
Keeps(p) == \E c, l : Books(p, c, l) /\ Contracts(c, l, p \in signed')

LEMMA UpsertBooks ==
  ASSUME Types, NEW p \in Party, NEW c, NEW m, NEW l, Upsert(p, c, m, l),
         \A q \in Party \ {p} : q \in signed' <=> q \in signed
  PROVE  Books(p, c, l)
<1>1. ch \in [Party -> Channel] /\ live \in [Party -> SUBSET Idx]
  BY DEF Types, TypeOK
<1>2. ch' = [ch EXCEPT ![p] = c] /\ live' = [live EXCEPT ![p] = l]
  BY DEF Upsert
<1>3. ch'[p] = c /\ \A q \in Party \ {p} : ch'[q] = ch[q]
  BY <1>1, <1>2
<1>4. live'[p] = l /\ \A q \in Party \ {p} : live'[q] = live[q]
  BY <1>1, <1>2
<1> QED BY <1>3, <1>4 DEF Books

LEMMA FinishKeeps ==
  ASSUME Types, NEW p \in Party, NEW c, NEW m, NEW l, NEW in, NEW out, Finish(p, c, m, l, in, out), signed' = signed,
         Contracts(c, l, p \in signed)
  PROVE  Keeps(p)
<1>1. Books(p, c, l)
  BY UpsertBooks DEF Finish
<1> QED BY <1>1 DEF Keeps

LEMMA FinishPersistKeeps ==
  ASSUME Types, NEW p \in Party, NEW c, NEW m, NEW l, NEW lc, NEW in, NEW out, FinishPersist(p, c, m, l, lc, in, out),
         signed' = signed, Contracts(c, l, p \in signed), Contracts(c, lc, p \in signed)
  PROVE  Keeps(p)
<1>1. Upsert(p, c, m, l) \/ Upsert(p, c, disk[p], lc)
  BY DEF FinishPersist
<1>2. Books(p, c, l) \/ Books(p, c, lc)
  BY <1>1, UpsertBooks
<1> QED BY <1>2 DEF Keeps

\* A party that has its channel and its contracts as they were.
LEMMA SameKeeps ==
  ASSUME Types, NEW p \in Party, NEW m, Upsert(p, ch[p], m, live[p]), signed' = signed, ContractInv(p)
  PROVE  Keeps(p)
<1>1. Books(p, ch[p], live[p])
  BY UpsertBooks
<1>2. Contracts(ch[p], live[p], p \in signed')
  BY DEF ContractInv
<1> QED BY <1>1, <1>2 DEF Keeps

LEMMA SendThenCrashKeeps ==
  ASSUME Types, NEW p \in Party, NEW in, SendThenCrash(p, in), signed' = signed, ContractInv(p)
  PROVE  Keeps(p)
  BY SameKeeps DEF SendThenCrash

LEMMA PanicKeeps ==
  ASSUME Types, NEW p \in Party, NEW what, Panic(p, what), ContractInv(p)
  PROVE  Keeps(p)
  BY SameKeeps DEF Panic

\* What Keeps is for.
LEMMA KeepsContracts ==
  ASSUME NEW p \in Party, Keeps(p), NEW q \in Party, ContractInv(q)
  PROVE  ContractInv(q)'
<1>1. PICK c, l : Books(p, c, l) /\ Contracts(c, l, p \in signed')
  BY DEF Keeps
<1>2. CASE q = p
  <2>1. ch'[q] = c /\ live'[q] = l
    BY <1>1, <1>2 DEF Books
  <2>2. Contracts(ch'[q], live'[q], q \in signed')
    BY <1>1, <1>2, <2>1
  <2> QED BY <2>2 DEF ContractInv
<1>3. CASE q # p
  <2>1. ch'[q] = ch[q] /\ live'[q] = live[q] /\ (q \in signed' <=> q \in signed)
    BY <1>1, <1>3 DEF Books
  <2> QED BY <2>1 DEF ContractInv, Contracts, Confirmed
<1> QED BY <1>2, <1>3

\* A channel that is not signed, or not any more.
LEMMA OfKindContracts ==
  ASSUME Types, NEW p \in Party, NEW k, k # "Signed", NEW l, NEW first
  PROVE  Contracts(OfKind(p, k), l, first)
<1>1. OfKind(p, k).kind = k
  BY Typed DEF OfKind, Channel
<1> QED BY <1>1, ContractsEnd

\* check_signed_contract stores the contract of the setup as Confirmed.
LEMMA FirstConfirmed ==
  ASSUME Types, NEW p \in Party, StateInv(p), ContractInv(p)
  PROVE  Contracts(ch[p], live[p] \union {0}, FALSE)
<1> DEFINE c == ch[p]
           l == live[p] \union {0}
<1>1. \A s : Confirmed(s, live[p], p \in signed) => Confirmed(s, l, FALSE)
  BY DEF Confirmed
<1>2. live[p] \subseteq l /\ \A i : 0 < i /\ i \notin live[p] => i \notin l
  OBVIOUS
<1>3. Contracts(c, live[p], p \in signed)
  BY DEF ContractInv
<1>4. SUFFICES ASSUME c.kind = "Signed" PROVE Contracts(c, l, FALSE)
  BY DEF Contracts
<1> HIDE DEF l
<1>5. c.s.st \in StableStates => Confirmed(c.s, l, FALSE)
  BY <1>1, <1>3, <1>4 DEF Contracts
<1>6. c.s.st \in Offerable => Confirmed(c.rb, l, FALSE)
  BY <1>1, <1>3, <1>4 DEF Contracts
<1>7. c.s.st = "RenewAccepted" => c.s.tx.o \notin l
  BY <1>2, <1>3, <1>4 DEF Contracts, Accepts
<1>8. c.s.st \in {"RenewConfirmed", "RenewFinalized"} => c.s.tx.o \in l
  BY <1>2, <1>3, <1>4 DEF Contracts
<1> QED BY <1>3, <1>4, <1>5, <1>6, <1>7, <1>8 DEF Contracts

LEMMA SetupKeeps ==
  ASSUME Types, OpeningInv, NEW p \in Party, StateInv(p), ContractInv(p)
  PROVE  /\ offer_channel /\ p = "alice" => Keeps(p)
         /\ accept_channel(p) \/ reject_channel(p) => Keeps(p)
         /\ \A m \in msgs : on_offer_channel(p, m) \/ on_accept_channel(p, m) \/ on_sign_channel(p, m) => Keeps(p)
         /\ check_signed_contract(p) => Keeps(p)
<1>1. offer_channel /\ p = "alice" => Keeps(p)
  BY OfKindContracts, FinishKeeps DEF offer_channel, channel_offered
<1>2. accept_channel(p) => Keeps(p)
  BY OfKindContracts, FinishKeeps DEF accept_channel, accept_channel_offer
<1>3. reject_channel(p) => Keeps(p)
  BY OfKindContracts, FinishKeeps DEF reject_channel
<1>4. ASSUME NEW m \in msgs, on_offer_channel(p, m) PROVE Keeps(p)
  BY <1>4, OfKindContracts, FinishKeeps DEF on_offer_channel, channel_offered
<1>5. ASSUME NEW m, NEW k \in {"FailedAccept", "FailedSign"}, Refuse(p, m, k) PROVE Keeps(p)
  <2>1. Upsert(p, OfKind(p, k), mon[p], live[p]) /\ signed' = signed
    BY <1>5 DEF Refuse
  <2>2. Books(p, OfKind(p, k), live[p])
    BY <2>1, UpsertBooks
  <2>3. Contracts(OfKind(p, k), live[p], p \in signed')
    BY OfKindContracts
  <2> QED BY <2>2, <2>3 DEF Keeps
\* The channel is signed, and its contract with it.
<1>6. ASSUME NEW d, d = Signs(TRUE) \/ d = Signs(FALSE), NEW m, NEW in, NEW out,
             FinishPersist(p, d, m, live[p], live[p], in, out), signed' = signed \union {p}
      PROVE  Keeps(p)
  <2>1. Upsert(p, d, m, live[p]) \/ Upsert(p, d, disk[p], live[p])
    BY <1>6 DEF FinishPersist
  <2>2. Books(p, d, live[p])
    BY <1>6, <2>1, UpsertBooks
  <2>3. (p \in signed') = TRUE
    BY <1>6
  <2>4. Contracts(d, live[p], p \in signed')
    BY <1>6, <2>3, ContractsOpen
  <2> QED BY <2>2, <2>4 DEF Keeps
<1>7. ASSUME NEW m \in msgs, on_accept_channel(p, m) PROVE Keeps(p)
  <2>1. verify_and_sign_accepted_channel = Signs(TRUE)
    BY DEF verify_and_sign_accepted_channel, Signs
  <2>2. CASE Refuse(p, m, "FailedAccept")
    BY <1>5, <2>2
  <2>3. CASE /\ FinishPersist(p, verify_and_sign_accepted_channel, add_tx(mon[p], FirstBuffer, "BufferTx"),
                              live[p], live[p], m, Out("SignChannel", p, FirstBuffer, 0))
             /\ signed' = signed \union {p}
    BY <1>6, <2>1, <2>3
  <2> QED BY <1>7, <2>2, <2>3 DEF on_accept_channel
<1>8. ASSUME NEW m \in msgs, on_sign_channel(p, m) PROVE Keeps(p)
  <2>1. verify_signed_channel = Signs(FALSE)
    BY DEF verify_signed_channel, Signs
  <2>2. CASE Refuse(p, m, "FailedSign")
    BY <1>5, <2>2
  <2>3. CASE /\ FinishPersist(p, verify_signed_channel, add_tx(mon[p], FirstBuffer, "BufferTx"),
                              live[p], live[p], m, {})
             /\ signed' = signed \union {p}
    BY <1>6, <2>1, <2>3
  <2>4. CASE SendThenCrash(p, m) /\ signed' = signed
    BY <2>4, SendThenCrashKeeps
  <2> QED BY <1>8, <2>2, <2>3, <2>4 DEF on_sign_channel
<1>9. check_signed_contract(p) => Keeps(p)
  <2> SUFFICES ASSUME check_signed_contract(p) PROVE Keeps(p)
    OBVIOUS
  <2>1. Upsert(p, ch[p], mon[p], live[p] \union {0}) /\ signed' = signed \ {p}
    BY DEF check_signed_contract
  <2>2. Books(p, ch[p], live[p] \union {0}) /\ (p \in signed') = FALSE
    BY <2>1, UpsertBooks
  <2>3. Contracts(ch[p], live[p] \union {0}, p \in signed')
    BY <2>2, FirstConfirmed
  <2> QED BY <2>2, <2>3 DEF Keeps
<1> QED BY <1>1, <1>2, <1>3, <1>4, <1>7, <1>8, <1>9

\* An offer that was received is for the next version at most, and never for the first.
LEMMA OfferBound ==
  ASSUME Types, MessageInv, NEW p \in Party, SaidInv(p), LeadInv(p), NEW m \in msgs, m.to = p, m.type \in Offering,
         ch[p].kind = "Signed", ch[p].s.st \in StableStates
  PROVE  m.tx \in Tx /\ 0 < m.tx.o /\ m.tx.o <= ch[p].ver + 1
<1>1. m.tx \in Tx /\ m.tx.o # 0
  BY DEF MessageInv, Offering
<1>2. m.tx.o <= ch[Other(p)].ver + 1
  BY DEF SaidInv, Says
<1>3. Active(ch[p]) /\ ch[p].s.st \notin Waits
  BY Stages DEF Active
<1>4. ch[Other(p)].ver <= ch[p].ver
  BY <1>3 DEF LeadInv
<1>5. m.tx.o \in Nat /\ ch[p].ver \in Nat /\ ch[Other(p)].ver \in Nat
  BY <1>1, Typed, Parties, Indices DEF Tx
<1> QED BY <1>1, <1>2, <1>4, <1>5

\* Either end of settling: the settled channel has no contract.
LEMMA SettledKeeps ==
  ASSUME Types, NEW p \in Party, ContractInv(p), NEW m, NEW out, FinishSettle(p, settle_channel_finalize(p), m, out)
  PROVE  Keeps(p)
<1> DEFINE d == settle_channel_finalize(p)
           w == add_revoked(mon[p], ch[p].rb.tx, ch[p].ver, ch[p].rb.offer)
           l == live[p] \ {ch[p].rb.con}
<1>1. d.s.st = "Settled" /\ d.s.con = NoTx
  <2>1. d.s = Bare("Settled", ch[p].s.tx)
    BY UpdatedFields
  <2> QED BY <2>1 DEF Bare
<1>2. \A k : Contracts(d, k, p \in signed)
  BY <1>1, ContractsStable DEF StableStates, ContractOf, Confirmed
<1>3. /\ signed' = signed
      /\ FinishPersist(p, d, w, l, l, m, out) \/ Finish(p, ch[p], w, live[p], m, {})
  BY DEF FinishSettle
<1> HIDE DEF d, w, l
<1>4. CASE FinishPersist(p, d, w, l, l, m, out)
  BY <1>2, <1>3, <1>4, FinishPersistKeeps
<1>5. CASE Finish(p, ch[p], w, live[p], m, {})
  BY <1>3, <1>5, FinishKeeps DEF ContractInv
<1> QED BY <1>3, <1>4, <1>5

LEMMA SettleKeeps ==
  ASSUME Types, MessageInv, NEW p \in Party, StateInv(p), ContractInv(p), SaidInv(p), LeadInv(p)
  PROVE  /\ settle_offer(p) \/ accept_settle_offer(p) \/ reject_settle_offer(p) => Keeps(p)
         /\ \A m \in msgs : m.to = p => (
              (on_settle_offer(p, m) \/ on_settle_accept(p, m)
                  \/ on_settle_confirm(p, m) \/ on_settle_finalize(p, m)) => Keeps(p))
<1> DEFINE c == ch[p]
           b == p \in signed
<1>a. c \in Channel /\ Contracts(c, live[p], b)
  BY Typed DEF ContractInv
<1>1. settle_offer(p) => Keeps(p)
  <2> SUFFICES ASSUME settle_offer(p) PROVE Keeps(p)
    OBVIOUS
  <2> DEFINE s == Bare("SettledOffered", Proposal(p, "settle"))
  <2>1. s.st \in Offerable /\ ~Received(s)
    BY DEF Bare, Offerable, Received
  <2>2. c.kind = "Signed" /\ c.s.st \in StableStates
    BY DEF settle_offer, In, StableStates
  <2> HIDE DEF s
  <2>3. Contracts(Swap(c, s), live[p], b)
    BY <1>a, <2>1, <2>2, ContractsSwap
  <2> QED BY <2>3, FinishKeeps DEF settle_offer, settle_channel_offer, s
<1>2. accept_settle_offer(p) => Keeps(p)
  <2> SUFFICES ASSUME accept_settle_offer(p) PROVE Keeps(p)
    OBVIOUS
  <2> DEFINE s == Bare("SettledAccepted", Completed(p))
  <2>1. s.st = "SettledAccepted" /\ s.tx = Completed(p)
    BY DEF Bare
  <2>2. c.kind = "Signed" /\ c.s.st = "SettledReceived" /\ c.ver < MaxUpdates
    BY Typed, Bounded, ChannelAssumption DEF accept_settle_offer, In
  <2>3. Received(c.s) /\ c.s.st \in Updating /\ c.s.tx \in Tx
    BY <2>2 DEF Received, Updating, SettleStates, StateInv, Fits
  <2>4. s.tx.o = c.s.tx.o
    BY <2>1, <2>2, <2>3, NewTxs
  <2> HIDE DEF s
  <2>5. 0 < s.tx.o /\ s.tx.o <= c.ver + 1
    BY <1>a, <2>2, <2>3, <2>4 DEF Contracts
  <2>6. Contracts([c EXCEPT !.s = s], live[p], b)
    BY <1>a, <2>1, <2>2, <2>3, <2>5, ContractsSet DEF HasAccepted
  <2> QED BY <2>6, FinishKeeps DEF accept_settle_offer, settle_channel_accept, s
<1>3. reject_settle_offer(p) => Keeps(p)
  <2> SUFFICES ASSUME reject_settle_offer(p) PROVE Keeps(p)
    OBVIOUS
  <2>1. c.kind = "Signed" /\ c.s.st \in Offerable /\ c.rb.st \in StableStates
    BY OfferableStates DEF reject_settle_offer, In, Offerable, StateInv, Replaces
  <2>2. Contracts(RollBack(c), live[p], b)
    BY <1>a, <2>1, ContractsRollBack
  <2> QED BY <2>2, FinishKeeps DEF reject_settle_offer
<1> SUFFICES ASSUME NEW m \in msgs, m.to = p
             PROVE  (on_settle_offer(p, m) \/ on_settle_accept(p, m)
                        \/ on_settle_confirm(p, m) \/ on_settle_finalize(p, m)) => Keeps(p)
  BY <1>1, <1>2, <1>3
<1>4. on_settle_offer(p, m) => Keeps(p)
  <2> SUFFICES ASSUME on_settle_offer(p, m) PROVE Keeps(p)
    OBVIOUS
  <2>1. CASE Finish(p, c, mon[p], live[p], m, Out("Reject", p, NoTx, 0))
    BY <1>a, <2>1, FinishKeeps DEF on_settle_offer
  <2> DEFINE s == Bare("SettledReceived", m.tx)
  <2>2. CASE In(p, "Established") /\ Finish(p, settle_channel_received(p, m.tx), mon[p], live[p], m, {})
    <3>1. s.st \in Offerable /\ s.tx = m.tx
      BY DEF Bare, Offerable
    <3>2. c.kind = "Signed" /\ c.s.st \in StableStates
      BY <2>2 DEF In, StableStates
    <3>3. 0 < s.tx.o /\ s.tx.o <= c.ver + 1
      BY <3>1, <3>2, OfferBound DEF on_settle_offer, Offering
    <3> HIDE DEF s
    <3>4. Contracts(Swap(c, s), live[p], b)
      BY <1>a, <3>1, <3>2, <3>3, ContractsSwap
    <3> QED BY <2>2, <3>4, FinishKeeps DEF on_settle_offer, settle_channel_received, s
  <2> QED BY <2>1, <2>2 DEF on_settle_offer
<1>5. on_settle_accept(p, m) => Keeps(p)
  <2> SUFFICES ASSUME on_settle_accept(p, m) PROVE Keeps(p)
    OBVIOUS
  <2> DEFINE s == Bare("SettledConfirmed", m.tx)
  <2>1. s.st = "SettledConfirmed" /\ s.st \in HasConfirmed /\ s.st \notin HasAccepted
    BY DEF Bare, HasConfirmed, HasAccepted
  <2>2. c.kind = "Signed" /\ c.s.st \in Updating
    BY DEF on_settle_accept, In, Updating, SettleStates
  <2> HIDE DEF s
  <2>3. Contracts([c EXCEPT !.s = s], live[p], b)
    BY <1>a, <2>1, <2>2, ContractsSet
  <2> QED BY <2>3, FinishKeeps DEF on_settle_accept, settle_channel_confirm, s
<1>6. on_settle_confirm(p, m) => Keeps(p)
  BY SettledKeeps DEF on_settle_confirm
<1>7. on_settle_finalize(p, m) => Keeps(p)
  <2>1. settle_channel_on_finalize(p) = settle_channel_finalize(p)
    BY DEF settle_channel_on_finalize, settle_channel_finalize
  <2> QED BY <2>1, SettledKeeps DEF on_settle_finalize
<1> QED BY <1>4, <1>5, <1>6, <1>7

\* The contract of what a renewal ends is not the new one.
LEMMA NotReplaced ==
  ASSUME Types, NEW p \in Party, StateInv(p), ContractInv(p), ch[p].kind = "Signed",
         ch[p].s.st \in {"RenewAccepted", "RenewConfirmed"}, Replaceable(p)
  PROVE  /\ ch[p].s.tx \in Tx /\ ch[p].s.tx.o # ch[p].rb.con /\ ch[p].s.tx.o <= ch[p].ver + 1
         /\ ch[p].s.st = "RenewAccepted" => 0 < ch[p].s.tx.o
<1> DEFINE c == ch[p]
           o == ch[p].s.tx.o
<1>1. c.s.tx \in Tx /\ o \in Nat /\ o # NoTx /\ c.ver \in Nat
  BY Typed, Indices, ChannelAssumption DEF StateInv, Fits, Tx
<1>2. c.s.st \in Updating /\ ContractOf(c, c.rb)
  BY DEF Updating, RenewStates, SettleStates, ContractInv, Contracts
<1>3. CASE c.s.st = "RenewAccepted"
  <2>1. 0 < o /\ o <= c.ver + 1 /\ o \notin live[p]
    BY <1>3 DEF ContractInv, Contracts, Accepts
  <2> QED BY <1>1, <1>2, <1>3, <2>1 DEF Replaceable, ContractOf
<1>4. CASE c.s.st = "RenewConfirmed"
  <2>1. o = c.ver + 1
    BY <1>4 DEF StateInv, Fits, Offers
  <2>2. CASE c.rb.st = "Settled"
    BY <1>1, <1>2, <1>4, <2>1, <2>2 DEF ContractOf
  <2>3. CASE c.rb.st = "Established"
    BY <1>1, <1>2, <1>4, <2>1, <2>3 DEF ContractOf
  <2> QED BY <2>2, <2>3 DEF Replaceable
<1> QED BY <1>3, <1>4

LEMMA ContractsFinalized ==
  ASSUME NEW d, NEW k, NEW first, d.s.st = "RenewFinalized", d.s.tx.o \in k, 0 < d.s.tx.o, d.s.tx.o <= d.ver + 1
  PROVE  Contracts(d, k, first)
  BY OfferableStates DEF Contracts

LEMMA RenewKeeps ==
  ASSUME Types, MessageInv, NEW p \in Party, StateInv(p), ContractInv(p), SaidInv(p), LeadInv(p)
  PROVE  /\ renew_offer(p) \/ accept_renew_offer(p) \/ reject_renew_offer(p) => Keeps(p)
         /\ \A m \in msgs : m.to = p => (
              (on_renew_offer(p, m) \/ on_renew_accept(p, m) \/ on_renew_confirm(p, m)
                  \/ on_renew_finalize(p, m) \/ on_renew_revoke(p, m) \/ on_reject(p, m)) => Keeps(p))
<1> DEFINE c == ch[p]
           b == p \in signed
<1>a. c \in Channel /\ Contracts(c, live[p], b)
  BY Typed DEF ContractInv
<1>1. renew_offer(p) => Keeps(p)
  <2> SUFFICES ASSUME renew_offer(p) PROVE Keeps(p)
    OBVIOUS
  <2> DEFINE s == Renewal(Proposal(p, "buffer"), TRUE)
  <2>1. s.st \in Offerable /\ ~Received(s)
    BY DEF Renewal, WithContract, Offerable, Received
  <2>2. c.kind = "Signed" /\ c.s.st \in StableStates
    BY DEF renew_offer, In, StableStates
  <2> HIDE DEF s
  <2>3. Contracts(Swap(c, s), live[p], b)
    BY <1>a, <2>1, <2>2, ContractsSwap
  <2> QED BY <2>3, FinishKeeps DEF renew_offer, renew_channel_offer, s
<1>2. accept_renew_offer(p) => Keeps(p)
  <2> SUFFICES ASSUME accept_renew_offer(p) PROVE Keeps(p)
    OBVIOUS
  <2> DEFINE s == WithContract("RenewAccepted", Completed(p), FALSE)
             k == live[p] \ {Completed(p).o}
  <2>1. s.st = "RenewAccepted" /\ s.tx = Completed(p)
    BY DEF WithContract
  <2>2. c.kind = "Signed" /\ c.s.st = "RenewOffered" /\ ~c.s.offer /\ c.ver < MaxUpdates
    BY Typed, Bounded, ChannelAssumption DEF accept_renew_offer, In
  <2>3. Received(c.s) /\ c.s.st \in Updating /\ c.s.tx \in Tx
    BY <2>2 DEF Received, Updating, RenewStates, StateInv, Fits
  <2>4. s.tx.o = c.s.tx.o /\ s.tx.o \notin k
    BY <2>1, <2>2, <2>3, NewTxs
  <2> HIDE DEF s
  <2>5. 0 < s.tx.o /\ s.tx.o <= c.ver + 1
    BY <1>a, <2>2, <2>3, <2>4 DEF Contracts
  <2>6. Contracts([c EXCEPT !.s = s], k, b)
    BY <1>a, <2>1, <2>2, <2>3, <2>4, <2>5, ContractsSet DEF HasAccepted
  <2> QED BY <2>6, FinishKeeps DEF accept_renew_offer, accept_channel_renewal, s
<1>3. reject_renew_offer(p) => Keeps(p)
  <2> SUFFICES ASSUME reject_renew_offer(p) PROVE Keeps(p)
    OBVIOUS
  <2>1. c.kind = "Signed" /\ c.s.st \in Offerable /\ c.rb.st \in StableStates
    BY OfferableStates DEF reject_renew_offer, In, Offerable, StateInv, Replaces
  <2>2. Contracts(RollBack(c), live[p], b)
    BY <1>a, <2>1, ContractsRollBack
  <2> QED BY <2>2, FinishKeeps DEF reject_renew_offer
<1> SUFFICES ASSUME NEW m \in msgs, m.to = p
             PROVE  (on_renew_offer(p, m) \/ on_renew_accept(p, m) \/ on_renew_confirm(p, m)
                        \/ on_renew_finalize(p, m) \/ on_renew_revoke(p, m) \/ on_reject(p, m)) => Keeps(p)
  BY <1>1, <1>2, <1>3
<1>4. on_renew_offer(p, m) => Keeps(p)
  <2> SUFFICES ASSUME on_renew_offer(p, m) PROVE Keeps(p)
    OBVIOUS
  <2>1. CASE Finish(p, c, mon[p], live[p], m, Out("Reject", p, NoTx, 0))
    BY <1>a, <2>1, FinishKeeps DEF on_renew_offer
  <2> DEFINE s == Renewal(m.tx, FALSE)
  <2>2. CASE /\ In(p, "Established") \/ In(p, "Settled")
             /\ Finish(p, renew_channel_received(p, m.tx), mon[p], live[p], m, {})
    <3>1. s.st \in Offerable /\ s.tx = m.tx
      BY DEF Renewal, WithContract, Offerable
    <3>2. c.kind = "Signed" /\ c.s.st \in StableStates
      BY <2>2 DEF In, StableStates
    <3>3. 0 < s.tx.o /\ s.tx.o <= c.ver + 1
      BY <3>1, <3>2, OfferBound DEF on_renew_offer, Offering
    <3> HIDE DEF s
    <3>4. Contracts(Swap(c, s), live[p], b)
      BY <1>a, <3>1, <3>2, <3>3, ContractsSwap
    <3> QED BY <2>2, <3>4, FinishKeeps DEF on_renew_offer, renew_channel_received, s
  <2> QED BY <2>1, <2>2 DEF on_renew_offer
<1>5. on_renew_accept(p, m) => Keeps(p)
  <2> SUFFICES ASSUME on_renew_accept(p, m) PROVE Keeps(p)
    OBVIOUS
  <2> DEFINE s == WithContract("RenewConfirmed", m.tx, TRUE)
             k == live[p] \union {m.tx.o}
  <2>1. s.st = "RenewConfirmed" /\ s.st \in HasConfirmed /\ s.st \notin HasAccepted /\ s.tx.o \in k
    BY DEF WithContract, HasConfirmed, HasAccepted
  <2>2. c.kind = "Signed" /\ c.s.st \in Updating
    BY DEF on_renew_accept, In, Updating, RenewStates
  <2> HIDE DEF s
  <2>3. Contracts([c EXCEPT !.s = s], k, b)
    BY <1>a, <2>1, <2>2, ContractsSet
  <2> QED BY <2>3, FinishKeeps DEF on_renew_accept, verify_renew_accept_and_confirm, s
<1>6. on_renew_confirm(p, m) => Keeps(p)
  <2> SUFFICES ASSUME on_renew_confirm(p, m) PROVE Keeps(p)
    OBVIOUS
  <2> DEFINE d == verify_renew_confirm_and_finalize(p, m.tx)
             k == live[p] \union {m.tx.o}
             w == Replaced(p, add_tx(mon[p], m.tx, "BufferTx"))
  <2>1. /\ c.kind = "Signed" /\ c.s.st = "RenewAccepted" /\ m.tx = c.s.tx /\ Replaceable(p) /\ signed' = signed
        /\ FinishPersist(p, d, w, k \ {c.rb.con}, k, m, Out("RenewFinalize", p, m.tx, c.ver))
    BY DEF on_renew_confirm, In
  <2>2. 0 < m.tx.o /\ m.tx.o <= c.ver + 1 /\ m.tx.o # c.rb.con
    BY <2>1, NotReplaced
  <2>3. d.s.st = "RenewFinalized" /\ d.s.tx = m.tx /\ d.ver = c.ver
    BY FinalizedFields
  <2>4. m.tx.o \in k /\ m.tx.o \in k \ {c.rb.con}
    BY <2>2
  <2> HIDE DEF d, k, w
  <2>5. Contracts(d, k \ {c.rb.con}, b) /\ Contracts(d, k, b)
    BY <2>2, <2>3, <2>4, ContractsFinalized
  <2> QED BY <2>1, <2>5, FinishPersistKeeps
\* The new contract is that of the established channel.
<1>7. ASSUME NEW d, d.s = WithContract("Established", c.s.tx, TRUE), d.ver = c.ver + 1,
             c.s.tx.o <= c.ver + 1, NEW k, c.s.tx.o \in k
      PROVE  Contracts(d, k, b)
  <2>1. d.s.st = "Established" /\ d.s.tx = c.s.tx /\ d.s.con = c.s.tx.o
    BY <1>7 DEF WithContract
  <2>2. ContractOf(d, d.s) /\ Confirmed(d.s, k, b) /\ d.s.st \in StableStates
    BY <1>7, <2>1 DEF ContractOf, Confirmed, StableStates
  <2> QED BY <2>2, ContractsStable
<1>8. on_renew_finalize(p, m) => Keeps(p)
  <2> SUFFICES ASSUME on_renew_finalize(p, m) PROVE Keeps(p)
    OBVIOUS
  <2> DEFINE d == renew_channel_on_finalize(p)
             w == add_tx(Replaced(p, mon[p]), m.tx, "BufferTx")
  <2>1. /\ c.kind = "Signed" /\ c.s.st = "RenewConfirmed" /\ Replaceable(p) /\ signed' = signed
        /\ FinishPersist(p, d, w, live[p] \ {c.rb.con}, live[p], m, Out("RenewRevoke", p, NoTx, c.ver))
    BY DEF on_renew_finalize, In
  <2>2. c.s.tx.o <= c.ver + 1 /\ c.s.tx.o # c.rb.con
    BY <2>1, NotReplaced
  <2>3. d.s = WithContract("Established", c.s.tx, TRUE) /\ d.ver = c.ver + 1
    BY UpdatedFields
  <2>4. c.s.tx.o \in live[p]
    BY <1>a, <2>1 DEF Contracts
  <2> HIDE DEF d, w
  <2>5. Contracts(d, live[p] \ {c.rb.con}, b) /\ Contracts(d, live[p], b)
    BY <1>7, <2>2, <2>3, <2>4
  <2> QED BY <2>1, <2>5, FinishPersistKeeps
<1>9. on_renew_revoke(p, m) => Keeps(p)
  <2> SUFFICES ASSUME on_renew_revoke(p, m) PROVE Keeps(p)
    OBVIOUS
  <2> DEFINE d == renew_channel_on_revoke(p)
  <2>1. /\ c.kind = "Signed" /\ c.s.st = "RenewFinalized" /\ signed' = signed
        /\ Finish(p, d, mon[p], live[p], m, {})
    BY DEF on_renew_revoke, In
  <2>2. c.s.tx.o <= c.ver + 1 /\ c.s.tx.o \in live[p]
    BY <1>a, <2>1 DEF Contracts, Accepts
  <2>3. d.s = WithContract("Established", c.s.tx, TRUE) /\ d.ver = c.ver + 1
    BY UpdatedFields
  <2> HIDE DEF d
  <2>4. Contracts(d, live[p], b)
    BY <1>7, <2>2, <2>3
  <2> QED BY <2>1, <2>4, FinishKeeps
<1>10. on_reject(p, m) => Keeps(p)
  <2> SUFFICES ASSUME on_reject(p, m) PROVE Keeps(p)
    OBVIOUS
  <2>1. CASE Finish(p, OfKind(p, "Cancelled"), mon[p], live[p], m, {})
    BY <2>1, OfKindContracts, FinishKeeps DEF on_reject
  <2>2. CASE Rejectable(p) /\ Finish(p, RollBack(c), mon[p], live[p], m, {})
    <3>1. c.kind = "Signed" /\ c.s.st \in Offerable /\ c.rb.st \in StableStates
      BY <2>2, OfferableStates DEF Rejectable, In, Offerable, StateInv, Replaces
    <3>2. Contracts(RollBack(c), live[p], b)
      BY <1>a, <3>1, ContractsRollBack
    <3> QED BY <2>2, <3>2, FinishKeeps DEF on_reject
  <2> QED BY <2>1, <2>2 DEF on_reject
<1> QED BY <1>4, <1>5, <1>6, <1>8, <1>9, <1>10

LEMMA CloseKeeps ==
  ASSUME Types, NEW p \in Party, ContractInv(p)
  PROVE  /\ offer_collaborative_close(p) \/ accept_collaborative_close(p) => Keeps(p)
         /\ \A m \in msgs : on_collaborative_close_offer(p, m) => Keeps(p)
         /\ force_close_channel_internal(p) => Keeps(p)
<1> DEFINE c == ch[p]
           b == p \in signed
<1>a. c \in Channel
  BY Typed
<1>1. \A t, l : Contracts(close_offered(p, t), l, b)
  <2> TAKE t, l
  <2>1. close_offered(p, t).s = Bare("CollaborativeCloseOffered", t)
    BY <1>a, SwapFields DEF close_offered
  <2>2. close_offered(p, t).s.st = "CollaborativeCloseOffered"
    BY <2>1 DEF Bare
  <2> QED BY <2>2, ContractsEnd
<1>2. offer_collaborative_close(p) => Keeps(p)
  BY <1>1, FinishPersistKeeps DEF offer_collaborative_close
<1>3. accept_collaborative_close(p) => Keeps(p)
  <2> SUFFICES ASSUME accept_collaborative_close(p) PROVE Keeps(p)
    OBVIOUS
  <2>1. CASE Finish(p, OfKind(p, "CollaborativelyClosed"), mon[p], ContractClosed(p), NoTx, {})
    BY <2>1, OfKindContracts, FinishKeeps DEF accept_collaborative_close
  <2>2. CASE SendThenCrash(p, NoTx)
    BY <2>2, SendThenCrashKeeps DEF accept_collaborative_close
  <2> QED BY <2>1, <2>2 DEF accept_collaborative_close
<1>4. ASSUME NEW m \in msgs, on_collaborative_close_offer(p, m) PROVE Keeps(p)
  BY <1>1, <1>4, FinishKeeps DEF on_collaborative_close_offer
<1>5. ASSUME NEW e \in Channel, initiate_unilateral_close_established_channel(p, e), signed' = signed PROVE Keeps(p)
  <2> DEFINE d == initiate_unilateral_close(e)
  <2>1. d.s.st = "Closing"
    BY <1>5, ForceCloseFields
  <2>2. Contracts(d, live[p], b)
    BY <2>1, ContractsEnd
  <2>3. CASE FinishPersist(p, d, remove_tx(mon[p], e.s.tx), live[p], live[p], NoTx, {})
    <3> HIDE DEF d
    <3> QED BY <1>5, <2>2, <2>3, FinishPersistKeeps
  <2>4. CASE SendThenCrash(p, NoTx)
    BY <1>5, <2>4, SendThenCrashKeeps
  <2> QED BY <1>5, <2>3, <2>4 DEF initiate_unilateral_close_established_channel
<1>6. ASSUME NEW e \in Channel, close_settled_channel(p, e), signed' = signed PROVE Keeps(p)
  <2> DEFINE d == [e EXCEPT !.kind = "Closed"]
  <2>1. d.kind = "Closed"
    BY <1>6 DEF Channel
  <2>2. Contracts(d, live[p], b)
    BY <2>1, ContractsEnd
  <2>3. CASE Finish(p, d, cleanup_channel(mon[p]), live[p], NoTx, {})
    <3> HIDE DEF d
    <3> QED BY <1>6, <2>2, <2>3, FinishKeeps
  <2>4. CASE SendThenCrash(p, NoTx)
    BY <1>6, <2>4, SendThenCrashKeeps
  <2> QED BY <1>6, <2>3, <2>4 DEF close_settled_channel
<1>7. Closable(p) \in Channel
  BY <1>a, ChannelTypes DEF Closable
<1>8. force_close_channel_internal(p) => Keeps(p)
  BY <1>5, <1>6, <1>7, PanicKeeps DEF force_close_channel_internal
<1> QED BY <1>2, <1>3, <1>4, <1>8

LEMMA WatchKeeps ==
  ASSUME Types, NEW p \in Party, ContractInv(p)
  PROVE  /\ periodic_chain_monitor(p) \/ process_watched_txs(p) \/ check_for_watched_tx(p) => Keeps(p)
         /\ try_finalize_closing_established_channel(p) => Keeps(p)
         /\ Crash(p) => Keeps(p)
<1> DEFINE c == ch[p]
           b == p \in signed
<1>a. c \in Channel /\ Contracts(c, live[p], b)
  BY Typed DEF ContractInv
<1>b. \A k : k \in ClosedKinds => k # "Signed"
  BY DEF ClosedKinds
<1>c. "Closed" \in ClosedKinds /\ "CounterClosed" \in ClosedKinds /\ "ClosedPunished" \in ClosedKinds
      /\ "CollaborativelyClosed" \in ClosedKinds
  BY DEF ClosedKinds
\* Steps that do not touch channels.
<1>1. ASSUME UNCHANGED <<ch, live, signed>> PROVE Keeps(p)
  BY <1>a, <1>1 DEF Keeps, Books
<1>2. periodic_chain_monitor(p) \/ check_for_watched_tx(p) => Keeps(p)
  BY <1>1 DEF periodic_chain_monitor, check_for_watched_tx
<1>3. Crash(p) => Keeps(p)
  BY SameKeeps DEF Crash
\* A channel that is closed.
<1>4. ASSUME NEW k \in ClosedKinds, NEW m, NEW l, NEW lc, FinishPersist(p, OfKind(p, k), m, l, lc, NoTx, {}),
             signed' = signed
      PROVE  Keeps(p)
  BY <1>b, <1>4, OfKindContracts, FinishPersistKeeps
<1>5. ASSUME NEW w, OnBufferTx(p, w) PROVE Keeps(p)
  <2> DEFINE s == [c.s EXCEPT !.st = "Closing", !.tx = w.tx, !.offer = FALSE]
  <2>1. CASE Panic(p, "contract id")
    BY <2>1, PanicKeeps
  <2>2. CASE FinishPersist(p, Swap(c, s), mon[p], live[p], live[p], NoTx, {}) /\ signed' = signed
    <3>1. s.st = "Closing"
      BY Typed DEF State
    <3> HIDE DEF s
    <3>2. Contracts(Swap(c, s), live[p], b)
      BY <1>a, <3>1, SwapFields, ContractsEnd
    <3> QED BY <2>2, <3>2, FinishPersistKeeps
  <2> QED BY <1>5, <2>1, <2>2 DEF OnBufferTx
<1>6. ASSUME NEW w, OnRevoked(p, w) PROVE Keeps(p)
  <2>1. CASE Panic(p, "per update secret")
    BY <2>1, PanicKeeps
  <2>2. CASE /\ FinishPersist(p, OfKind(p, "ClosedPunished"), cleanup_channel(mon[p]), live[p], live[p], NoTx, {})
             /\ signed' = signed
    BY <1>4, <1>c, <2>2
  <2>3. CASE SendThenCrash(p, NoTx) /\ signed' = signed
    BY <2>3, SendThenCrashKeeps
  <2> QED BY <1>6, <2>1, <2>2, <2>3 DEF OnRevoked
\* The contract of an established channel is closed while the close is
\* offered, and then the channel is not established any more.
<1>7. ASSUME NEW w, OnCollaborativeClose(p, w) PROVE Keeps(p)
  <2> DEFINE l == ContractClosed(p)
  <2>1. signed' = signed /\ (c.rb.st = "Established" => c.s.st = "CollaborativeCloseOffered")
    BY <1>7 DEF OnCollaborativeClose, In
  <2>2. CASE FinishPersist(p, OfKind(p, "CollaborativelyClosed"), cleanup_channel(mon[p]), l, l, NoTx, {})
    BY <1>4, <1>c, <2>1, <2>2
  <2>3. CASE Upsert(p, c, disk[p], l)
    <3>1. Contracts(c, l, b)
      <4>1. CASE c.rb.st = "Established"
        BY <2>1, <4>1, ContractsEnd
      <4>2. CASE c.rb.st # "Established"
        BY <1>a, <4>2 DEF ContractClosed
      <4> QED BY <4>1, <4>2
    <3>2. Books(p, c, l)
      BY <2>1, <2>3, UpsertBooks
    <3>3. (p \in signed') = b
      BY <2>1
    <3> HIDE DEF l
    <3> QED BY <3>1, <3>2, <3>3 DEF Keeps
  <2> QED BY <1>7, <2>2, <2>3 DEF OnCollaborativeClose
<1>8. ASSUME NEW w, OnSettleTx(p, w) PROVE Keeps(p)
  BY <1>4, <1>8, <1>c DEF OnSettleTx
<1>9. OnCet(p) => Keeps(p)
  <2> SUFFICES ASSUME OnCet(p) PROVE Keeps(p)
    OBVIOUS
  <2> DEFINE k == IF In(p, "Closing") /\ ~c.s.offer THEN "CounterClosed" ELSE "Closed"
             l == live[p] \ {c.s.con}
  <2>1. FinishPersist(p, OfKind(p, k), cleanup_channel(mon[p]), l, l, NoTx, {}) /\ signed' = signed
    BY DEF OnCet
  <2>2. k \in ClosedKinds
    BY <1>c
  <2> HIDE DEF k, l
  <2> QED BY <1>4, <2>1, <2>2
<1>10. process_watched_txs(p) => Keeps(p)
  BY <1>5, <1>6, <1>7, <1>8, <1>9 DEF process_watched_txs
<1>11. try_finalize_closing_established_channel(p) => Keeps(p)
  <2> SUFFICES ASSUME try_finalize_closing_established_channel(p) PROVE Keeps(p)
    OBVIOUS
  <2> DEFINE k == IF c.s.offer THEN "Closed" ELSE "CounterClosed"
             l == live[p] \ {c.s.con}
  <2>1. /\ signed' = signed
        /\ Finish(p, OfKind(p, k), cleanup_channel(mon[p]), l, NoTx, {}) \/ SendThenCrash(p, NoTx)
    BY DEF try_finalize_closing_established_channel
  <2>2. k # "Signed"
    <3>1. k = "Closed" \/ k = "CounterClosed"
      OBVIOUS
    <3> HIDE DEF k
    <3> QED BY <3>1
  <2> HIDE DEF k, l
  <2> QED BY <2>1, <2>2, OfKindContracts, FinishKeeps, SendThenCrashKeeps
<1> QED BY <1>2, <1>3, <1>10, <1>11

\* Every step.
LEMMA NextContracts ==
  ASSUME AgreementInv, \A p \in Party : ContractInv(p), Next
  PROVE  \A p \in Party : ContractInv(p)'
<1>1. Types /\ MessageInv /\ OpeningInv /\ \A p \in Party : StateInv(p) /\ SaidInv(p) /\ LeadInv(p)
  BY DEF AgreementInv, ChannelsInv, LocalInv, PairInv
<1>2. ASSUME NEW p \in Party, Keeps(p) PROVE \A q \in Party : ContractInv(q)'
  BY <1>2, KeepsContracts
<1>3. ASSUME NEW p \in Party, Call(p) PROVE Keeps(p)
  BY <1>1, <1>3, SetupKeeps, SettleKeeps, RenewKeeps, CloseKeeps DEF Call, force_close_channel
<1>4. ASSUME NEW p \in Party, Periodic(p) \/ Crash(p) PROVE Keeps(p)
  BY <1>1, <1>4, SetupKeeps, CloseKeeps, WatchKeeps DEF Periodic, check_for_timed_out_channels
<1>5. ASSUME NEW p \in Party, NEW m \in msgs, m.to = p, Receive(p, m) PROVE Keeps(p)
  BY <1>1, <1>5, SetupKeeps, SettleKeeps, RenewKeeps, CloseKeeps DEF Receive
<1>6. CASE offer_channel
  BY <1>1, <1>2, <1>6, SetupKeeps, Parties
<1>7. CASE Mine \/ OracleAttests
  <2>1. UNCHANGED <<ch, live, signed>>
    BY <1>7 DEF Mine, OracleAttests
  <2> QED BY <2>1 DEF ContractInv
<1> QED BY <1>2, <1>3, <1>4, <1>5, <1>6, <1>7 DEF Next

BooksInv == AgreementInv /\ \A p \in Party : ContractInv(p)

LEMMA BooksInvariant == Spec => []BooksInv
<1>1. Init => BooksInv
  <2> SUFFICES ASSUME Init PROVE BooksInv
    OBVIOUS
  <2>1. AgreementInv
    BY InitChannels, InitPair DEF AgreementInv
  <2>2. \A p \in Party : ch[p].kind = "None"
    BY DEF Init, NoChannel
  <2>3. \A p \in Party : ContractInv(p)
    BY <2>2, ContractsEnd DEF ContractInv
  <2> QED BY <2>1, <2>3 DEF BooksInv
<1>2. BooksInv /\ [Next]_<<vars, scenario>> => BooksInv'
  <2> SUFFICES ASSUME BooksInv, [Next]_<<vars, scenario>> PROVE BooksInv'
    OBVIOUS
  <2>1. AgreementInv'
    BY NextPair DEF BooksInv
  <2>2. CASE Next
    BY <2>1, <2>2, NextContracts DEF BooksInv
  <2>3. CASE UNCHANGED <<vars, scenario>>
    BY <2>1, <2>3 DEF BooksInv, ContractInv, vars
  <2> QED BY <2>2, <2>3
<1> QED BY <1>1, <1>2, PTL DEF Spec

\* The contract that an established channel holds is stored as Confirmed, from
\* check_signed_contract on: no renewal that is offered, accepted, given up or cut
\* short by a crash leaves the channel with a contract that
\* try_finalize_closing_established_channel does not find.
THEOREM EstablishedContractIsConfirmed == Spec => []EstablishedIsConfirmed
<1>1. BooksInv => EstablishedIsConfirmed
  <2> SUFFICES ASSUME BooksInv, NEW p \in Party, In(p, "Established"), p \notin signed
               PROVE  ch[p].s.con \in live[p]
    BY DEF EstablishedIsConfirmed
  <2>1. Confirmed(ch[p].s, live[p], p \in signed)
    BY DEF BooksInv, ContractInv, Contracts, In, StableStates
  <2> QED BY <2>1 DEF Confirmed, In
<1> QED BY <1>1, BooksInvariant, PTL

-----------------------------------------------------------------------------
(***************************************************************************)
(* Why a channel is closed.  For p with channel c and a monitor m, when t  *)
(* spends the funding output and K are the versions whose secret the other *)
(* party gave away.                                                        *)
(***************************************************************************)
\* A transaction watched as revoked is one, or its renewal is not over.
RevokedFits(p, c, w, K) ==
    \/ Point(Other(p), w.tx) \in K
    \/ /\ w.idx \notin c.secrets
       /\ Active(c) => c.s.st = "RenewFinalized" /\ Point(Other(p), w.tx) = c.prev
WatchFits(p, c, w, t, K) ==
    /\ w.hit => w.tx = t
    /\ w.type = "SettleTx" => w.tx.kind = "settle"
    /\ w.type = "CollaborativeClose" => w.tx.kind = "close"
    /\ w.type = "Revoked" => RevokedFits(p, c, w, K)
TxoFits(w, t) == w.tx.kind = "buffer" /\ (w.hit => w.tx = t)
MonitorFits(p, c, m, t, K) ==
    /\ \A w \in m.txs : WatchFits(p, c, w, t, K)
    /\ \A w \in m.txos : TxoFits(w, t)
    /\ c.kind \in Opening => m.txs = {}
MonitorInv(p) == /\ MonitorFits(p, ch[p], mon[p], chain.tx, GivenAway(Other(p)))
                 /\ MonitorFits(p, ch[p], disk[p], chain.tx, GivenAway(Other(p)))

\* The secrets a party has are those of versions that are over.
Past(c) == c.kind = "Signed" => \A k \in c.secrets : k < c.ver

\* A party that published t without a crash has left for it: no buffer that it
\* watches is t.
Left(c, t, W) ==
    \/ c.kind \in ClosedKinds
    \/ /\ c.kind = "Signed" /\ t.kind = "buffer" /\ t \notin W
       /\ (c.s.st = "Closing" /\ c.s.offer) \/ c.s.st = "CollaborativeCloseOffered"
SpendInv(p) == chain.tx # NoTx /\ chain.by = p /\ faults = 0 => Left(ch[p], chain.tx, Watched(p))

\* Only applications and time-outs publish a transaction alone.
Alone == scenario.ops \intersect {"force", "timeout"} # {}
AloneInv == chain.tx # NoTx /\ chain.tx.kind # "close" => Alone

\* ClosedForAReason, for p and its kind of channel.
Excused == faults > 0 /\ Alone
Because(p, kind, t, by, excused, K) ==
    /\ kind = "CollaborativelyClosed" => t # NoTx /\ t.kind = "close"
    /\ kind \in {"Closed", "CounterClosed"} => t # NoTx /\ t.kind \in {"buffer", "settle"}
    /\ kind = "CounterClosed" => by # p \/ excused
    /\ kind = "ClosedPunished" => t # NoTx /\ by # p /\ Point(Other(p), t) \in K
ReasonInv(p) ==
    /\ MonitorInv(p) /\ Past(ch[p]) /\ SpendInv(p)
    /\ Because(p, ch[p].kind, chain.tx, chain.by, Excused, GivenAway(Other(p)))

-----------------------------------------------------------------------------
(* What monitors hold.                                                     *)

LEMMA FitsLater ==
  ASSUME NEW p, NEW c, NEW m \in Monitor, NEW t, NEW u, NEW K, NEW L, MonitorFits(p, c, m, t, K),
         t # NoTx => u = t, K \subseteq L
  PROVE  MonitorFits(p, c, m, u, L)
<1>1. \A w \in m.txs : w.tx \in Tx
  BY DEF Monitor, Watch
<1>2. \A w \in m.txos : w.tx \in Tx
  BY DEF Monitor, WatchTxo
<1>3. NoTx \notin Tx
  BY ChannelAssumption
<1>4. ASSUME NEW w \in m.txs PROVE WatchFits(p, c, w, u, L)
  <2>1. WatchFits(p, c, w, t, K)
    BY <1>4 DEF MonitorFits
  <2>2. RevokedFits(p, c, w, K) => RevokedFits(p, c, w, L)
    BY DEF RevokedFits
  <2>3. w.hit => w.tx = u
    BY <1>1, <1>3, <1>4, <2>1 DEF WatchFits
  <2> QED BY <2>1, <2>2, <2>3 DEF WatchFits
<1>5. \A w \in m.txos : TxoFits(w, u)
  BY <1>2, <1>3 DEF MonitorFits, TxoFits
<1> QED BY <1>4, <1>5 DEF MonitorFits

\* Whether something revoked may still be needed depends on these fields.
LEMMA FitsChannel ==
  ASSUME NEW p, NEW c, NEW d, NEW m, NEW t, NEW K, MonitorFits(p, c, m, t, K),
         d.secrets = c.secrets, d.kind \notin Opening,
         Active(d) => Active(c) /\ (c.s.st = "RenewFinalized" => d.s.st = "RenewFinalized" /\ d.prev = c.prev)
  PROVE  MonitorFits(p, d, m, t, K)
<1>1. ASSUME NEW w \in m.txs PROVE WatchFits(p, d, w, t, K)
  <2>1. WatchFits(p, c, w, t, K)
    BY <1>1 DEF MonitorFits
  <2>2. RevokedFits(p, c, w, K) => RevokedFits(p, d, w, K)
    BY DEF RevokedFits
  <2> QED BY <2>1, <2>2 DEF WatchFits
<1> QED BY <1>1 DEF MonitorFits

AllGiven(p, m, K) == \A w \in m.txs : w.type = "Revoked" => Point(Other(p), w.tx) \in K

LEMMA ActiveGiven ==
  ASSUME NEW p, NEW c, NEW m, NEW t, NEW K, MonitorFits(p, c, m, t, K),
         c.kind \in Opening \/ (Active(c) /\ (c.s.st = "RenewFinalized" => c.prev \in K))
  PROVE  AllGiven(p, m, K)
<1>1. CASE c.kind \in Opening
  BY <1>1 DEF MonitorFits, AllGiven
<1>2. CASE Active(c) /\ (c.s.st = "RenewFinalized" => c.prev \in K)
  BY <1>2 DEF MonitorFits, WatchFits, RevokedFits, AllGiven
<1> QED BY <1>1, <1>2

LEMMA FitsGiven ==
  ASSUME NEW p, NEW c, NEW d, NEW m, NEW t, NEW K, MonitorFits(p, c, m, t, K), AllGiven(p, m, K),
         d.kind \in Opening => c.kind \in Opening
  PROVE  MonitorFits(p, d, m, t, K)
<1>1. ASSUME NEW w \in m.txs PROVE WatchFits(p, d, w, t, K)
  <2>1. WatchFits(p, c, w, t, K)
    BY <1>1 DEF MonitorFits
  <2>2. w.type = "Revoked" => RevokedFits(p, d, w, K)
    BY <1>1 DEF AllGiven, RevokedFits
  <2> QED BY <2>1, <2>2 DEF WatchFits
<1> QED BY <1>1 DEF MonitorFits

\* A monitor with a new watch n, and with the outputs O.
LEMMA FitsGrow ==
  ASSUME NEW p, NEW c, NEW m, NEW x, NEW t, NEW K, MonitorFits(p, c, m, t, K), c.kind \notin Opening,
         \A w \in x.txs : w \in m.txs \/ WatchFits(p, c, w, t, K),
         \A w \in x.txos : w \in m.txos \/ TxoFits(w, t)
  PROVE  MonitorFits(p, c, x, t, K)
  BY DEF MonitorFits

LEMMA TxosOf ==
  ASSUME NEW m \in Monitor, NEW t
  PROVE  /\ \A i, b : add_revoked(m, t, i, b).txos = m.txos
         /\ \A type : \A w \in add_tx(m, t, type).txos :
                w \in m.txos \/ (type = "BufferTx" /\ w = [tx |-> t, hit |-> FALSE])
<1> DEFINE r == remove_tx(m, t)
<1>1. r \in Monitor /\ r.txos = m.txos
  BY RemoveTx
<1>2. ASSUME NEW X, NEW Y
      PROVE  [r EXCEPT !.txs = X].txos = m.txos /\ [r EXCEPT !.txs = X, !.txos = Y].txos = Y
  BY <1>1 DEF Monitor
<1>3. ASSUME NEW i, NEW b PROVE add_revoked(m, t, i, b).txos = m.txos
  <2> DEFINE X == r.txs \union {NewWatch(t, "Revoked", i, b)}
  <2>1. add_revoked(m, t, i, b) = [r EXCEPT !.txs = X]
    BY DEF add_revoked, NewWatch
  <2> HIDE DEF X, r
  <2> QED BY <1>2, <2>1
<1>4. ASSUME NEW type, NEW w \in add_tx(m, t, type).txos
      PROVE  w \in m.txos \/ (type = "BufferTx" /\ w = [tx |-> t, hit |-> FALSE])
  <2> DEFINE X == r.txs \union {NewWatch(t, type, 0, FALSE)}
             Y == IF type = "BufferTx" THEN {v \in r.txos : v.tx # t} \union {[tx |-> t, hit |-> FALSE]}
                  ELSE r.txos
  <2>1. add_tx(m, t, type) = [r EXCEPT !.txs = X, !.txos = Y]
    BY DEF add_tx, NewWatch
  <2>2. w \in Y
    <3> HIDE DEF X, Y, r
    <3> QED BY <1>2, <1>4, <2>1
  <2> HIDE DEF r
  <2> QED BY <1>1, <2>2
<1> QED BY <1>3, <1>4

LEMMA FitsRemove ==
  ASSUME NEW p, NEW c, NEW m \in Monitor, NEW t, NEW K, MonitorFits(p, c, m, t, K), c.kind \notin Opening, NEW u
  PROVE  MonitorFits(p, c, remove_tx(m, u), t, K) /\ MonitorFits(p, c, cleanup_channel(m), t, K)
<1>1. remove_tx(m, u).txs \subseteq m.txs /\ remove_tx(m, u).txos = m.txos
  BY RemoveTx
<1>2. cleanup_channel(m).txs = {} /\ cleanup_channel(m).txos = {}
  BY DEF cleanup_channel, Monitor
<1> QED BY <1>1, <1>2, FitsGrow

LEMMA FitsAddTx ==
  ASSUME NEW p, NEW c, NEW m \in Monitor, NEW t, NEW K, MonitorFits(p, c, m, t, K), c.kind \notin Opening, NEW u,
         NEW type \in {"BufferTx", "SettleTx", "CollaborativeClose"},
         u.kind = IF type = "BufferTx" THEN "buffer" ELSE IF type = "SettleTx" THEN "settle" ELSE "close"
  PROVE  MonitorFits(p, c, add_tx(m, u, type), t, K)
<1> DEFINE n == NewWatch(u, type, 0, FALSE)
           o == [tx |-> u, hit |-> FALSE]
           x == add_tx(m, u, type)
<1>1. x.txs = {w \in m.txs : w.tx # u} \union {n}
  BY AddTx
<1>2. \A w \in x.txos : w \in m.txos \/ (type = "BufferTx" /\ w = o)
  BY TxosOf
<1>3. n.tx = u /\ n.type = type /\ n.hit = FALSE /\ o.tx = u /\ o.hit = FALSE
  BY DEF NewWatch
<1> HIDE DEF n, o, x
<1>4. WatchFits(p, c, n, t, K)
  BY <1>3 DEF WatchFits
<1>5. type = "BufferTx" => TxoFits(o, t)
  BY <1>3 DEF TxoFits
<1>6. MonitorFits(p, c, x, t, K)
  BY <1>1, <1>2, <1>4, <1>5, FitsGrow
<1> QED BY <1>6 DEF x

LEMMA FitsAddRevoked ==
  ASSUME NEW p, NEW c, NEW m \in Monitor, NEW t, NEW K, MonitorFits(p, c, m, t, K), c.kind \notin Opening,
         NEW u, NEW i, NEW b, RevokedFits(p, c, NewWatch(u, "Revoked", i, b), K)
  PROVE  MonitorFits(p, c, add_revoked(m, u, i, b), t, K)
<1> DEFINE n == NewWatch(u, "Revoked", i, b)
           x == add_revoked(m, u, i, b)
<1>1. x.txs = {w \in m.txs : w.tx # u} \union {n} /\ x.txos = m.txos
  BY AddRevoked, TxosOf
<1>2. n.type = "Revoked" /\ n.hit = FALSE
  BY DEF NewWatch
<1> HIDE DEF n, x
<1>3. WatchFits(p, c, n, t, K)
  BY <1>2 DEF WatchFits, n
<1>4. MonitorFits(p, c, x, t, K)
  BY <1>1, <1>3, FitsGrow
<1> QED BY <1>4 DEF x

\* What a block marks as seen is what spends the funding output.
LEMMA FitsBlock ==
  ASSUME NEW p, NEW c, NEW m \in Monitor, NEW K, MonitorFits(p, c, m, chain.tx, K)
  PROVE  MonitorFits(p, c, process_block(m), chain.tx, K)
<1> DEFINE seen(w) == [w EXCEPT !.hit = @ \/ (m.done < 1 /\ Blocks >= 1 /\ w.tx = chain.tx)]
           found(w) == [w EXCEPT !.hit = @ \/ (m.done < 2 /\ Blocks = 2 /\ w.tx = chain.tx)]
<1>1. /\ process_block(m).txs = {seen(w) : w \in m.txs}
      /\ process_block(m).txos = {found(w) : w \in m.txos}
  BY DEF process_block
<1>2. \A w \in Watch : /\ seen(w).type = w.type /\ seen(w).tx = w.tx /\ seen(w).idx = w.idx
                       /\ seen(w).hit => w.hit \/ w.tx = chain.tx
  BY DEF Watch
<1>3. \A w \in WatchTxo : found(w).tx = w.tx /\ (found(w).hit => w.hit \/ w.tx = chain.tx)
  BY DEF WatchTxo
<1>4. m.txs \subseteq Watch /\ m.txos \subseteq WatchTxo
  BY DEF Monitor
<1> HIDE DEF seen, found
<1>5. ASSUME NEW w \in m.txs PROVE WatchFits(p, c, seen(w), chain.tx, K)
  <2>1. WatchFits(p, c, w, chain.tx, K)
    BY <1>5 DEF MonitorFits
  <2>2. w \in Watch
    BY <1>4, <1>5
  <2> QED BY <1>2, <2>1, <2>2 DEF WatchFits, RevokedFits
<1>6. \A w \in m.txos : TxoFits(found(w), chain.tx)
  BY <1>3, <1>4 DEF MonitorFits, TxoFits
<1> QED BY <1>1, <1>5, <1>6 DEF MonitorFits

-----------------------------------------------------------------------------
(* What a step leaves of this.                                             *)

\* What is never undone.
Onward == /\ \A q \in Party : revealed[q] \subseteq revealed'[q]
          /\ faults \in Nat /\ faults' \in {faults, faults + 1} /\ scenario' = scenario
\* Only p takes part, and only p may have published something.
Own(p) == \A q \in Party \ {p} : ch'[q] = ch[q] /\ mon'[q] = mon[q] /\ disk'[q] = disk[q]
Spends(p) == /\ chain.tx # NoTx => chain'.tx = chain.tx /\ chain'.by = chain.by
             /\ chain.tx = NoTx /\ chain'.tx # NoTx => chain'.by = p
Unspent == chain'.tx = chain.tx /\ chain'.by = chain.by
Sound(p) == Own(p) /\ Spends(p) /\ AloneInv' /\ ReasonInv(p)'

LEMMA UnspentSpends ==
  ASSUME NEW p, Unspent, Onward, AloneInv
  PROVE  Spends(p) /\ AloneInv'
  BY DEF Unspent, Onward, Spends, AloneInv, Alone

LEMMA OnwardGiven ==
  ASSUME Onward, NEW q \in Party
  PROVE  GivenAway(q) \subseteq GivenAway(q)' /\ (Excused => Excused') /\ (faults' = 0 => faults = 0)
<1>1. GivenAway(q) \subseteq GivenAway(q)'
  BY DEF Onward, GivenAway
<1>2. faults' = 0 => faults = 0
  BY DEF Onward
<1>3. faults > 0 => faults' > 0
  BY DEF Onward
<1>4. Alone => Alone'
  BY DEF Onward, Alone
<1> QED BY <1>1, <1>2, <1>3, <1>4 DEF Excused

LEMMA TurnSound ==
  ASSUME Types', Onward, NEW p \in Party, Own(p), Spends(p), AloneInv',
         NEW c, NEW m, NEW k, ch'[p] = c, mon'[p] = m, disk'[p] = k, Past(c),
         MonitorFits(p, c, m, chain.tx, GivenAway(Other(p))), MonitorFits(p, c, k, chain.tx, GivenAway(Other(p))),
         chain'.tx # NoTx /\ chain'.by = p /\ faults' = 0 => Left(c, chain'.tx, Watched(p)'),
         Because(p, c.kind, chain'.tx, chain'.by, Excused', GivenAway(Other(p)))
  PROVE  Sound(p)
<1> DEFINE K == GivenAway(Other(p))
           L == GivenAway(Other(p))'
<1>1. K \subseteq L /\ (chain.tx # NoTx => chain'.tx = chain.tx)
  BY OnwardGiven, Parties DEF Spends
<1>2. m \in Monitor /\ k \in Monitor
  BY DEF Types, TypeOK
<1>3. Because(p, c.kind, chain'.tx, chain'.by, Excused', L)
  BY <1>1 DEF Because
<1> HIDE DEF K, L
<1>4. MonitorFits(p, c, m, chain'.tx, L) /\ MonitorFits(p, c, k, chain'.tx, L)
  BY <1>1, <1>2, FitsLater DEF K
<1>5. MonitorInv(p)'
  BY <1>4 DEF MonitorInv, L
<1>6. Past(ch[p])'
  BY DEF Past
<1>7. SpendInv(p)'
  BY DEF SpendInv
<1>8. Because(p, ch[p].kind, chain.tx, chain.by, Excused, GivenAway(Other(p)))'
  BY <1>3 DEF L
<1> QED BY <1>5, <1>6, <1>7, <1>8 DEF ReasonInv, Sound

\* The party that does not take part.
LEMMA OtherSound ==
  ASSUME Types, Onward, NEW p \in Party, NEW q \in Party, q # p, Own(p), Spends(p), ReasonInv(q)
  PROVE  ReasonInv(q)'
<1> DEFINE K == GivenAway(Other(q))
           L == GivenAway(Other(q))'
<1>0. ch'[q] = ch[q] /\ mon'[q] = mon[q] /\ disk'[q] = disk[q] /\ mon[q] \in Monitor /\ disk[q] \in Monitor
  BY Typed DEF Own
<1>1. K \subseteq L /\ (chain.tx # NoTx => chain'.tx = chain.tx) /\ (Excused => Excused')
  BY OnwardGiven, Parties DEF Spends
<1> HIDE DEF K, L
<1>2. MonitorFits(q, ch[q], mon[q], chain'.tx, L) /\ MonitorFits(q, ch[q], disk[q], chain'.tx, L)
  BY <1>0, <1>1, FitsLater DEF ReasonInv, MonitorInv, K
<1>3. MonitorInv(q)'
  BY <1>0, <1>2 DEF MonitorInv, L
<1>4. Past(ch[q])'
  BY <1>0 DEF ReasonInv, Past
<1>5. Watched(q)' = Watched(q)
  BY <1>0 DEF Watched
<1>6. chain'.tx # NoTx /\ chain'.by = q /\ faults' = 0 =>
          chain'.tx = chain.tx /\ chain.by = q /\ faults = 0 /\ chain.tx # NoTx
  BY OnwardGiven DEF Spends
<1>7. SpendInv(q)'
  BY <1>0, <1>5, <1>6 DEF ReasonInv, SpendInv
<1>8. Because(q, ch[q].kind, chain'.tx, chain'.by, Excused', L)
  <2>1. Because(q, ch[q].kind, chain.tx, chain.by, Excused, K)
    BY DEF ReasonInv, K
  <2>2. CASE chain.tx # NoTx
    BY <1>1, <2>1, <2>2 DEF Because, Spends
  <2>3. CASE chain.tx = NoTx
    BY <2>1, <2>3 DEF Because
  <2> QED BY <2>2, <2>3
<1>9. Because(q, ch[q].kind, chain.tx, chain.by, Excused, GivenAway(Other(q)))'
  BY <1>0, <1>8 DEF L
<1> QED BY <1>3, <1>4, <1>7, <1>9 DEF ReasonInv

-----------------------------------------------------------------------------
(* How a handler ends, with the channel c and the monitor m.               *)
Stores(p, c, m) ==
    /\ Own(p) /\ ch'[p] = c
    /\ \/ mon'[p] = m /\ disk'[p] = disk[p] /\ faults' = faults
       \/ mon'[p] = m /\ disk'[p] = m /\ faults' = faults
       \/ mon'[p] = disk[p] /\ disk'[p] = disk[p] /\ faults' = faults + 1

LEMMA UpsertStores ==
  ASSUME Types, NEW p \in Party, NEW c, NEW m, NEW l, NEW k, Upsert(p, c, m, l), disk' \in {disk, [disk EXCEPT ![p] = k]}
  PROVE  /\ Own(p) /\ ch'[p] = c /\ mon'[p] = m
         /\ disk' = disk \/ disk'[p] = k
<1>1. ch \in [Party -> Channel] /\ mon \in [Party -> Monitor] /\ disk \in [Party -> Monitor]
  BY DEF Types, TypeOK
<1>2. ch' = [ch EXCEPT ![p] = c] /\ mon' = [mon EXCEPT ![p] = m]
  BY DEF Upsert
<1>3. ch'[p] = c /\ \A q \in Party \ {p} : ch'[q] = ch[q]
  BY <1>1, <1>2
<1>4. mon'[p] = m /\ \A q \in Party \ {p} : mon'[q] = mon[q]
  BY <1>1, <1>2
<1>5. (disk' = disk \/ disk'[p] = k) /\ \A q \in Party \ {p} : disk'[q] = disk[q]
  BY <1>1
<1> QED BY <1>3, <1>4, <1>5 DEF Own

LEMMA FinishStores ==
  ASSUME Types, NEW p \in Party, NEW c, NEW m, NEW l, NEW in, NEW out, Finish(p, c, m, l, in, out)
  PROVE  Stores(p, c, m)
<1>1. Upsert(p, c, m, l) /\ disk' = disk /\ faults' = faults
  BY DEF Finish
<1> QED BY <1>1, UpsertStores DEF Stores

LEMMA FinishPersistStores ==
  ASSUME Types, NEW p \in Party, NEW c, NEW m, NEW l, NEW lc, NEW in, NEW out, FinishPersist(p, c, m, l, lc, in, out)
  PROVE  Stores(p, c, m)
<1>1. CASE Upsert(p, c, m, l) /\ disk' = [disk EXCEPT ![p] = m] /\ faults' = faults
  <2>1. disk'[p] = m
    BY <1>1 DEF Types, TypeOK
  <2> QED BY <1>1, <2>1, UpsertStores DEF Stores
<1>2. CASE Upsert(p, c, disk[p], lc) /\ disk' = disk /\ faults' = faults + 1
  BY <1>2, UpsertStores DEF Stores
<1> QED BY <1>1, <1>2 DEF FinishPersist, Fault

\* The kinds and states of a channel, with or without updates to come.
LEMMA KindsApart ==
  /\ "Signed" \notin ClosedKinds \union Opening
  /\ \A k \in ClosedKinds : k \notin Opening
  /\ \A c : Active(c) => c.kind = "Signed" /\ c.s.st # "Closing" /\ c.s.st # "CollaborativeCloseOffered"
  BY Ends DEF ClosedKinds, Opening, Active, StableStates, Updating, SettleStates, RenewStates

LEMMA NotLeft ==
  ASSUME NEW c, NEW t, NEW W, Left(c, t, W)
  PROVE  c.kind \notin Opening /\ ~Active(c)
  BY KindsApart DEF Left

LEMMA StoresWatched ==
  ASSUME NEW p, NEW c, NEW m, Stores(p, c, m)
  PROVE  Watched(p)' \subseteq Buffers(m) \union Watched(p)
  BY DEF Stores, Watched

LEMMA StoresSound ==
  ASSUME Types', Onward, NEW p \in Party, Spends(p), AloneInv', NEW c, NEW m, Stores(p, c, m), Past(c),
         MonitorFits(p, c, m, chain.tx, GivenAway(Other(p))),
         MonitorFits(p, c, disk[p], chain.tx, GivenAway(Other(p))),
         chain'.tx # NoTx /\ chain'.by = p /\ faults' = 0 => Left(c, chain'.tx, Watched(p)'),
         Because(p, c.kind, chain'.tx, chain'.by, Excused', GivenAway(Other(p)))
  PROVE  Sound(p)
<1>1. Own(p) /\ ch'[p] = c
  BY DEF Stores
<1>2. \/ mon'[p] = m /\ disk'[p] = disk[p]
      \/ mon'[p] = m /\ disk'[p] = m
      \/ mon'[p] = disk[p] /\ disk'[p] = disk[p]
  BY DEF Stores
<1>3. /\ MonitorFits(p, c, mon'[p], chain.tx, GivenAway(Other(p)))
      /\ MonitorFits(p, c, disk'[p], chain.tx, GivenAway(Other(p)))
  BY <1>2
<1> QED BY <1>1, <1>3, TurnSound

\* Setup, and the steps of an update.
LEMMA WorkFits ==
  ASSUME NEW p \in Party, ReasonInv(p), NEW c, c.kind \in Opening => ch[p].kind \in Opening,
         \/ ch[p].kind \in Opening
         \/ Active(ch[p]) /\ (ch[p].s.st = "RenewFinalized" => ch[p].prev \in GivenAway(Other(p)))
  PROVE  /\ MonitorFits(p, c, mon[p], chain.tx, GivenAway(Other(p)))
         /\ MonitorFits(p, c, disk[p], chain.tx, GivenAway(Other(p)))
<1> DEFINE K == GivenAway(Other(p))
           d == ch[p]
<1>1. MonitorFits(p, d, mon[p], chain.tx, K) /\ MonitorFits(p, d, disk[p], chain.tx, K)
  BY DEF ReasonInv, MonitorInv
<1> HIDE DEF K
<1>2. AllGiven(p, mon[p], K) /\ AllGiven(p, disk[p], K)
  BY <1>1, ActiveGiven DEF K
<1>3. MonitorFits(p, c, mon[p], chain.tx, K) /\ MonitorFits(p, c, disk[p], chain.tx, K)
  BY <1>1, <1>2, FitsGiven
<1> QED BY <1>3 DEF K

LEMMA WorkSound ==
  ASSUME Types', Onward, AloneInv, Unspent, NEW p \in Party, ReasonInv(p),
         ch[p].kind \in Opening \/ Active(ch[p]),
         NEW c, NEW m, Stores(p, c, m), c.kind \notin ClosedKinds, Past(c),
         MonitorFits(p, c, m, chain.tx, GivenAway(Other(p))),
         MonitorFits(p, c, disk[p], chain.tx, GivenAway(Other(p)))
  PROVE  Sound(p)
<1>1. Spends(p) /\ AloneInv'
  BY UnspentSpends
<1>2. Because(p, c.kind, chain'.tx, chain'.by, Excused', GivenAway(Other(p)))
  BY DEF Because, ClosedKinds
<1>3. ~(chain'.tx # NoTx /\ chain'.by = p /\ faults' = 0)
  <2> SUFFICES ASSUME chain'.tx # NoTx, chain'.by = p, faults' = 0 PROVE FALSE
    OBVIOUS
  <2>1. Left(ch[p], chain.tx, Watched(p))
    BY OnwardGiven DEF Unspent, ReasonInv, SpendInv
  <2> QED BY <2>1, NotLeft
<1> QED BY <1>1, <1>2, <1>3, StoresSound

\* A party whose channel stays as it is.
LEMMA StaySound ==
  ASSUME Types', Onward, AloneInv, Unspent, NEW p \in Party, ReasonInv(p), NEW m, Stores(p, ch[p], m),
         MonitorFits(p, ch[p], m, chain.tx, GivenAway(Other(p))), Buffers(m) \subseteq Watched(p)
  PROVE  Sound(p)
<1>1. Spends(p) /\ AloneInv'
  BY UnspentSpends
<1>2. Because(p, ch[p].kind, chain'.tx, chain'.by, Excused', GivenAway(Other(p)))
  BY OnwardGiven DEF Unspent, ReasonInv, Because
<1>3. chain'.tx # NoTx /\ chain'.by = p /\ faults' = 0 => Left(ch[p], chain'.tx, Watched(p)')
  <2> SUFFICES ASSUME chain'.tx # NoTx, chain'.by = p, faults' = 0 PROVE Left(ch[p], chain'.tx, Watched(p)')
    OBVIOUS
  <2>1. Left(ch[p], chain.tx, Watched(p)) /\ chain'.tx = chain.tx
    BY OnwardGiven DEF Unspent, ReasonInv, SpendInv
  <2>2. Watched(p)' \subseteq Watched(p)
    BY StoresWatched
  <2> QED BY <2>1, <2>2 DEF Left
<1>4. Past(ch[p]) /\ MonitorFits(p, ch[p], disk[p], chain.tx, GivenAway(Other(p)))
  BY DEF ReasonInv, MonitorInv
<1> QED BY <1>1, <1>2, <1>3, <1>4, StoresSound

\* A party that sent a transaction and then crashed.
LEMMA CrashSound ==
  ASSUME Types, Types', Onward, NEW p \in Party, Spends(p), AloneInv', ReasonInv(p), NEW in, SendThenCrash(p, in),
         ch[p].kind \notin ClosedKinds
  PROVE  Sound(p)
<1>1. Stores(p, ch[p], disk[p]) /\ faults' = faults + 1
  <2>1. Upsert(p, ch[p], disk[p], live[p]) /\ disk' = disk /\ faults' = faults + 1
    BY DEF SendThenCrash, Fault
  <2> QED BY <2>1, UpsertStores DEF Stores
<1>2. faults' # 0
  BY <1>1 DEF Onward
<1>3. Because(p, ch[p].kind, chain'.tx, chain'.by, Excused', GivenAway(Other(p)))
  BY DEF Because, ClosedKinds
<1>4. Past(ch[p]) /\ MonitorFits(p, ch[p], disk[p], chain.tx, GivenAway(Other(p)))
  BY DEF ReasonInv, MonitorInv
<1> QED BY <1>1, <1>2, <1>3, <1>4, StoresSound

\* A channel that is closed.
LEMMA CloseSound ==
  ASSUME Types, Types', Onward, NEW p \in Party, Spends(p), AloneInv', ReasonInv(p),
         NEW c, NEW m, Stores(p, c, m), c.kind \in ClosedKinds, c.secrets = ch[p].secrets,
         ch[p].kind = "Signed", m \in {mon[p], cleanup_channel(mon[p])},
         Because(p, c.kind, chain'.tx, chain'.by, Excused', GivenAway(Other(p)))
  PROVE  Sound(p)
<1> DEFINE K == GivenAway(Other(p))
           e == ch[p]
<1>1. MonitorFits(p, e, mon[p], chain.tx, K) /\ MonitorFits(p, e, disk[p], chain.tx, K)
  BY DEF ReasonInv, MonitorInv
<1>2. c.kind \notin Opening /\ c.kind # "Signed" /\ ~Active(c)
  BY KindsApart
<1> HIDE DEF K
<1>3. MonitorFits(p, c, mon[p], chain.tx, K) /\ MonitorFits(p, c, disk[p], chain.tx, K)
  BY <1>1, <1>2, FitsChannel
<1>4. mon[p] \in Monitor
  BY Typed
<1>5. MonitorFits(p, c, m, chain.tx, K)
  BY <1>2, <1>3, <1>4, FitsRemove
<1>6. Past(c) /\ Left(c, chain'.tx, Watched(p)')
  BY <1>2 DEF Past, Left
<1> QED BY <1>3, <1>5, <1>6, StoresSound DEF K

-----------------------------------------------------------------------------
(* Every step is sound.                                                    *)

LEMMA SameChain ==
  ASSUME Types, chain' = chain \/ \E f : chain' = [chain EXCEPT !.fund = f]
  PROVE  Unspent
  BY DEF Unspent, Types, TypeOK, Chain

LEMMA KindField ==
  ASSUME Types, NEW p \in Party, NEW k
  PROVE  /\ OfKind(p, k).kind = k /\ OfKind(p, k).secrets = ch[p].secrets
         /\ OfKind(p, k).s = ch[p].s
  BY Typed DEF OfKind, Channel

LEMMA OpeningSound ==
  ASSUME Types, Types', Onward, AloneInv, Unspent, NEW p \in Party, ReasonInv(p), ch[p].kind \in Opening,
         NEW k \in Opening, Stores(p, OfKind(p, k), mon[p])
  PROVE  Sound(p)
<1> DEFINE c == OfKind(p, k)
<1>1. c.kind = k /\ k \notin ClosedKinds /\ k # "Signed"
  BY KindField, Ends
<1> HIDE DEF c
<1>2. /\ MonitorFits(p, c, mon[p], chain.tx, GivenAway(Other(p)))
      /\ MonitorFits(p, c, disk[p], chain.tx, GivenAway(Other(p)))
  BY WorkFits
<1>3. Past(c)
  BY <1>1 DEF Past
<1> QED BY <1>1, <1>2, <1>3, WorkSound DEF c

\* The channel is signed, and its buffer transaction is watched.
LEMMA SignSound ==
  ASSUME Types, Types', Onward, AloneInv, Unspent, NEW p \in Party, ReasonInv(p), ch[p].kind \in Opening,
         NEW c, c = Signs(TRUE) \/ c = Signs(FALSE), Stores(p, c, add_tx(mon[p], FirstBuffer, "BufferTx"))
  PROVE  Sound(p)
<1> DEFINE m == add_tx(mon[p], FirstBuffer, "BufferTx")
<1>1. c.kind = "Signed" /\ c.secrets = {}
  BY DEF Signs, NoChannel
<1>2. /\ MonitorFits(p, c, mon[p], chain.tx, GivenAway(Other(p)))
      /\ MonitorFits(p, c, disk[p], chain.tx, GivenAway(Other(p)))
  BY <1>1, Ends, WorkFits
<1>3. MonitorFits(p, c, m, chain.tx, GivenAway(Other(p)))
  BY <1>1, <1>2, Ends, Typed, FirstBufferTx, FitsAddTx
<1>4. Past(c) /\ c.kind \notin ClosedKinds
  BY <1>1, Ends DEF Past
<1> HIDE DEF m
<1> QED BY <1>2, <1>3, <1>4, WorkSound DEF m

LEMMA RefuseSound ==
  ASSUME Types, Types', Onward, AloneInv, NEW p \in Party, ReasonInv(p), ch[p].kind \in Opening,
         NEW m, NEW k \in Opening, Refuse(p, m, k)
  PROVE  Sound(p)
<1> DEFINE c == OfKind(p, k)
<1>1. c.kind = k /\ k \notin ClosedKinds /\ k # "Signed"
  BY KindField, Ends
<1>2. Upsert(p, c, mon[p], live[p]) /\ disk' = disk /\ faults' = faults + 1 /\ chain' = chain
  BY DEF Refuse, Fault
<1> HIDE DEF c
<1>3. Own(p) /\ ch'[p] = c /\ mon'[p] = mon[p] /\ disk'[p] = disk[p]
  BY <1>2, UpsertStores
<1>4. /\ MonitorFits(p, c, mon[p], chain.tx, GivenAway(Other(p)))
      /\ MonitorFits(p, c, disk[p], chain.tx, GivenAway(Other(p)))
  BY WorkFits
<1>5. Past(c) /\ Because(p, c.kind, chain'.tx, chain'.by, Excused', GivenAway(Other(p)))
  BY <1>1 DEF Past, Because, ClosedKinds
<1>6. Spends(p) /\ AloneInv' /\ faults' # 0
  BY <1>2, SameChain, UnspentSpends DEF Onward
<1> QED BY <1>3, <1>4, <1>5, <1>6, TurnSound

LEMMA SetupSound ==
  ASSUME Types, Types', Onward, AloneInv, NEW p \in Party, ReasonInv(p)
  PROVE  /\ offer_channel /\ p = "alice" => Sound(p)
         /\ accept_channel(p) \/ reject_channel(p) => Sound(p)
         /\ \A m \in msgs : on_offer_channel(p, m) \/ on_accept_channel(p, m) \/ on_sign_channel(p, m) => Sound(p)
         /\ check_signed_contract(p) => Sound(p)
<1>a. /\ "None" \in Opening /\ "Offered" \in Opening /\ "Accepted" \in Opening /\ "Cancelled" \in Opening
      /\ "FailedAccept" \in Opening /\ "FailedSign" \in Opening
  BY DEF Opening, ChannelKind, ClosedKinds
<1>1. offer_channel /\ p = "alice" => Sound(p)
  BY <1>a, FinishStores, SameChain, OpeningSound DEF offer_channel, channel_offered
<1>2. accept_channel(p) => Sound(p)
  BY <1>a, FinishStores, SameChain, OpeningSound DEF accept_channel, accept_channel_offer
<1>3. reject_channel(p) => Sound(p)
  BY <1>a, FinishStores, SameChain, OpeningSound DEF reject_channel
<1>4. ASSUME NEW m \in msgs, on_offer_channel(p, m) PROVE Sound(p)
  BY <1>4, <1>a, FinishStores, SameChain, OpeningSound DEF on_offer_channel, channel_offered
<1>5. ASSUME NEW m \in msgs, on_accept_channel(p, m) PROVE Sound(p)
  <2>1. verify_and_sign_accepted_channel = Signs(TRUE)
    BY DEF verify_and_sign_accepted_channel, Signs
  <2>2. CASE Refuse(p, m, "FailedAccept")
    BY <1>5, <1>a, <2>2, RefuseSound DEF on_accept_channel
  <2>3. CASE /\ FinishPersist(p, verify_and_sign_accepted_channel, add_tx(mon[p], FirstBuffer, "BufferTx"),
                              live[p], live[p], m, Out("SignChannel", p, FirstBuffer, 0))
             /\ UNCHANGED chain
    BY <1>5, <1>a, <2>1, <2>3, FinishPersistStores, SameChain, SignSound DEF on_accept_channel
  <2> QED BY <1>5, <2>2, <2>3 DEF on_accept_channel
<1>6. ASSUME NEW m \in msgs, on_sign_channel(p, m) PROVE Sound(p)
  <2>1. verify_signed_channel = Signs(FALSE)
    BY DEF verify_signed_channel, Signs
  <2>2. CASE Refuse(p, m, "FailedSign")
    BY <1>6, <1>a, <2>2, RefuseSound DEF on_sign_channel
  <2>3. CASE /\ chain' = [chain EXCEPT !.fund = IF @ = "none" THEN "mempool" ELSE @]
             /\ FinishPersist(p, verify_signed_channel, add_tx(mon[p], FirstBuffer, "BufferTx"),
                              live[p], live[p], m, {})
    <3>1. Unspent
      BY <2>3, SameChain
    <3> QED BY <1>6, <1>a, <2>1, <2>3, <3>1, FinishPersistStores, SignSound DEF on_sign_channel
  <2>4. CASE chain' = [chain EXCEPT !.fund = IF @ = "none" THEN "mempool" ELSE @] /\ SendThenCrash(p, m)
    <3>1. Unspent
      BY <2>4, SameChain
    <3>2. ch[p].kind \notin ClosedKinds
      BY <1>6, <1>a, Ends DEF on_sign_channel
    <3> QED BY <2>4, <3>1, <3>2, UnspentSpends, CrashSound
  <2> QED BY <1>6, <2>2, <2>3, <2>4 DEF on_sign_channel
<1>7. check_signed_contract(p) => Sound(p)
  <2> SUFFICES ASSUME check_signed_contract(p) PROVE Sound(p)
    OBVIOUS
  <2>1. Upsert(p, ch[p], mon[p], live[p] \union {0}) /\ disk' = disk /\ faults' = faults /\ chain' = chain
    BY DEF check_signed_contract
  <2>2. Stores(p, ch[p], mon[p])
    BY <2>1, UpsertStores DEF Stores
  <2>3. MonitorFits(p, ch[p], mon[p], chain.tx, GivenAway(Other(p))) /\ Buffers(mon[p]) \subseteq Watched(p)
    BY DEF ReasonInv, MonitorInv, Watched
  <2> QED BY <2>1, <2>2, <2>3, SameChain, StaySound
<1> QED BY <1>1, <1>2, <1>3, <1>4, <1>5, <1>6, <1>7

\* A step of an update, other than the last one of RenewFinalized.
LEMMA StepSound ==
  ASSUME Types, Types', Onward, AloneInv, chain' = chain, NEW p \in Party, ReasonInv(p), Active(ch[p]),
         ch[p].s.st = "RenewFinalized" => ch[p].prev \in GivenAway(Other(p)),
         NEW c, NEW m, Stores(p, c, m), c.kind = "Signed", Past(c),
         MonitorFits(p, c, mon[p], chain.tx, GivenAway(Other(p))) =>
             MonitorFits(p, c, m, chain.tx, GivenAway(Other(p)))
  PROVE  Sound(p)
<1>1. c.kind \notin Opening /\ c.kind \notin ClosedKinds /\ Unspent
  BY Ends, SameChain
<1>2. /\ MonitorFits(p, c, mon[p], chain.tx, GivenAway(Other(p)))
      /\ MonitorFits(p, c, disk[p], chain.tx, GivenAway(Other(p)))
  BY <1>1, WorkFits
<1> QED BY <1>1, <1>2, WorkSound

LEMMA SamePast ==
  ASSUME NEW p, ReasonInv(p), NEW c, Same(ch[p], c)
  PROVE  Past(c)
  BY DEF ReasonInv, Past, Same

LEMMA UpdatedPast ==
  ASSUME Types, NEW p \in Party, ch[p].kind = "Signed", ReasonInv(p),
         NEW c, c.ver = ch[p].ver + 1, c.secrets = ch[p].secrets \union {ch[p].ver}
  PROVE  Past(c)
<1>1. ch[p].ver \in Nat /\ ch[p].secrets \subseteq Nat
  BY Typed, Indices DEF Channel
<1>2. \A k \in ch[p].secrets : k < ch[p].ver
  BY DEF ReasonInv, Past
<1>3. \A k \in c.secrets : k < c.ver
  BY <1>1, <1>2
<1> QED BY <1>3 DEF Past

\* A step that leaves the monitor as it is.
LEMMA QuietSound ==
  ASSUME Types, Types', Onward, AloneInv, chain' = chain, NEW p \in Party, ReasonInv(p), Active(ch[p]),
         ch[p].s.st # "RenewFinalized", NEW c, Same(ch[p], c), NEW l, NEW in, NEW out, Finish(p, c, mon[p], l, in, out)
  PROVE  Sound(p)
<1>1. Stores(p, c, mon[p])
  BY FinishStores
<1>2. c.kind = "Signed" /\ Past(c)
  BY SamePast DEF Same, Active
<1> QED BY <1>1, <1>2, StepSound

\* The same, with a watch that fits.
LEMMA AddsSound ==
  ASSUME Types, Types', Onward, AloneInv, chain' = chain, NEW p \in Party, ReasonInv(p), Active(ch[p]),
         ch[p].s.st # "RenewFinalized", NEW c, Same(ch[p], c), NEW u, u.kind = "settle",
         Stores(p, c, add_tx(mon[p], u, "SettleTx"))
  PROVE  Sound(p)
<1> DEFINE m == add_tx(mon[p], u, "SettleTx")
<1>1. c.kind = "Signed" /\ Past(c) /\ c.kind \notin Opening
  BY SamePast, Ends DEF Same, Active
<1>2. MonitorFits(p, c, mon[p], chain.tx, GivenAway(Other(p))) => MonitorFits(p, c, m, chain.tx, GivenAway(Other(p)))
  BY <1>1, Typed, FitsAddTx
<1> HIDE DEF m
<1> QED BY <1>1, <1>2, StepSound DEF m

\* What the other party says it gives away, it has given away.
LEMMA SecretGiven ==
  ASSUME MessageInv, NEW p \in Party, NEW m \in msgs, m.to = p, m.type \in Reveals
  PROVE  m.sec \in GivenAway(Other(p))
  BY DEF MessageInv, GivenAway

\* The transaction that settling or renewing replaces, with the secret that was received.
LEMMA SettledSound ==
  ASSUME Types, Types', Onward, AloneInv, MessageInv, NEW p \in Party, StateInv(p), ReasonInv(p),
         ch[p].kind = "Signed", ch[p].s.st \in {"SettledAccepted", "SettledConfirmed"},
         NEW m \in msgs, m.to = p, m.type \in Reveals,
         NEW out, FinishSettle(p, settle_channel_finalize(p), m, out)
  PROVE  Sound(p)
<1> DEFINE c == ch[p]
           d == settle_channel_finalize(p)
           u == c.rb.tx
           w == add_revoked(mon[p], u, c.ver, c.rb.offer)
           l == live[p] \ {c.rb.con}
<1>1. Active(c) /\ c.s.st \in Updating /\ c.s.st # "RenewFinalized"
  BY DEF Active, Updating, SettleStates
<1>2. Point(Other(p), u) \in GivenAway(Other(p))
  BY <1>1, SecretGiven DEF FinishSettle, StateInv, Replaces
<1>3. d.kind = "Signed" /\ d.ver = c.ver + 1 /\ d.secrets = c.secrets \union {c.ver}
  BY UpdatedFields
<1>4. /\ chain' = chain
      /\ FinishPersist(p, d, w, l, l, m, out) \/ Finish(p, c, w, live[p], m, {})
  BY DEF FinishSettle
<1>5. \A x : x.kind = "Signed" => RevokedFits(p, x, NewWatch(u, "Revoked", c.ver, c.rb.offer), GivenAway(Other(p)))
  BY <1>2 DEF RevokedFits, NewWatch
<1> HIDE DEF d, l, u
<1>6. ASSUME NEW x, x.kind = "Signed", MonitorFits(p, x, mon[p], chain.tx, GivenAway(Other(p)))
      PROVE  MonitorFits(p, x, w, chain.tx, GivenAway(Other(p)))
  BY <1>5, <1>6, Typed, Ends, FitsAddRevoked
<1> HIDE DEF w
<1>7. CASE FinishPersist(p, d, w, l, l, m, out)
  <2>1. Stores(p, d, w) /\ Past(d)
    BY <1>3, <1>7, FinishPersistStores, UpdatedPast
  <2> QED BY <1>1, <1>3, <1>4, <1>6, <2>1, StepSound
<1>8. CASE Finish(p, c, w, live[p], m, {})
  <2>1. Stores(p, c, w) /\ Past(c)
    BY <1>8, FinishStores DEF ReasonInv
  <2> QED BY <1>1, <1>4, <1>6, <2>1, StepSound
<1> QED BY <1>4, <1>7, <1>8

LEMMA SettleSound ==
  ASSUME Types, Types', Onward, AloneInv, MessageInv, NEW p \in Party, StateInv(p), ReasonInv(p)
  PROVE  /\ settle_offer(p) \/ accept_settle_offer(p) \/ reject_settle_offer(p) => Sound(p)
         /\ \A m \in msgs : m.to = p => (
              (on_settle_offer(p, m) \/ on_settle_accept(p, m)
                  \/ on_settle_confirm(p, m) \/ on_settle_finalize(p, m)) => Sound(p))
<1> DEFINE c == ch[p]
<1>a. c \in Channel /\ Same(c, c)
  BY Typed DEF Same
<1>b. \A st \in StableStates \union SettleStates : In(p, st) => Active(c) /\ c.s.st # "RenewFinalized"
  BY DEF In, Active, Updating, SettleStates, StableStates
<1>c. /\ "Established" \in StableStates \union SettleStates /\ "SettledOffered" \in StableStates \union SettleStates
      /\ "SettledReceived" \in StableStates \union SettleStates
  BY DEF StableStates, SettleStates
<1>1. settle_offer(p) => Sound(p)
  <2> SUFFICES ASSUME settle_offer(p) PROVE Sound(p)
    OBVIOUS
  <2>1. Same(c, settle_channel_offer(p)) /\ Active(c) /\ c.s.st # "RenewFinalized"
    BY <1>a, <1>b, <1>c, SwapFields DEF settle_offer, settle_channel_offer
  <2> QED BY <2>1, QuietSound DEF settle_offer
<1>2. accept_settle_offer(p) => Sound(p)
  <2> SUFFICES ASSUME accept_settle_offer(p) PROVE Sound(p)
    OBVIOUS
  <2>1. Same(c, settle_channel_accept(p)) /\ Active(c) /\ c.s.st # "RenewFinalized"
    BY <1>a, <1>b, <1>c, SetFields DEF accept_settle_offer, settle_channel_accept
  <2>2. c.kind = "Signed" /\ c.s.st = "SettledReceived" /\ c.ver < MaxUpdates
    BY Typed, Bounded, ChannelAssumption DEF accept_settle_offer, In
  <2>3. c.s.tx \in Tx /\ c.s.tx.kind = "settle"
    BY <2>2 DEF StateInv, Fits, TxKind, SettleStates
  <2>4. Completed(p).kind = "settle"
    BY <2>2, <2>3, NewTxs
  <2>5. Stores(p, settle_channel_accept(p), add_tx(mon[p], Completed(p), "SettleTx")) /\ chain' = chain
    BY FinishStores DEF accept_settle_offer
  <2> QED BY <2>1, <2>4, <2>5, AddsSound
<1>3. reject_settle_offer(p) => Sound(p)
  <2> SUFFICES ASSUME reject_settle_offer(p) PROVE Sound(p)
    OBVIOUS
  <2>1. Same(c, RollBack(c)) /\ Active(c) /\ c.s.st # "RenewFinalized"
    BY <1>a, <1>b, <1>c, RollBackFields DEF reject_settle_offer
  <2> QED BY <2>1, QuietSound DEF reject_settle_offer
<1> SUFFICES ASSUME NEW m \in msgs, m.to = p
             PROVE  (on_settle_offer(p, m) \/ on_settle_accept(p, m)
                        \/ on_settle_confirm(p, m) \/ on_settle_finalize(p, m)) => Sound(p)
  BY <1>1, <1>2, <1>3
<1>4. on_settle_offer(p, m) => Sound(p)
  <2> SUFFICES ASSUME on_settle_offer(p, m) PROVE Sound(p)
    OBVIOUS
  <2>1. CASE In(p, "SettledOffered") /\ Finish(p, c, mon[p], live[p], m, Out("Reject", p, NoTx, 0))
    BY <1>a, <1>b, <1>c, <2>1, QuietSound DEF on_settle_offer
  <2>2. CASE In(p, "Established") /\ Finish(p, settle_channel_received(p, m.tx), mon[p], live[p], m, {})
    <3>1. Same(c, settle_channel_received(p, m.tx)) /\ Active(c) /\ c.s.st # "RenewFinalized"
      BY <1>a, <1>b, <1>c, <2>2, SwapFields DEF settle_channel_received
    <3> QED BY <2>2, <3>1, QuietSound DEF on_settle_offer
  <2> QED BY <2>1, <2>2 DEF on_settle_offer
<1>5. on_settle_accept(p, m) => Sound(p)
  <2> SUFFICES ASSUME on_settle_accept(p, m) PROVE Sound(p)
    OBVIOUS
  <2>1. Same(c, settle_channel_confirm(p, m.tx)) /\ Active(c) /\ c.s.st # "RenewFinalized"
    BY <1>a, <1>b, <1>c, SetFields DEF on_settle_accept, settle_channel_confirm
  <2>2. m.tx.kind = "settle"
    BY DEF on_settle_accept, MessageInv
  <2>3. Stores(p, settle_channel_confirm(p, m.tx), add_tx(mon[p], m.tx, "SettleTx")) /\ chain' = chain
    BY FinishStores DEF on_settle_accept
  <2> QED BY <2>1, <2>2, <2>3, AddsSound
<1>6. on_settle_confirm(p, m) => Sound(p)
  BY SettledSound DEF on_settle_confirm, In, Reveals
<1>7. on_settle_finalize(p, m) => Sound(p)
  <2>1. settle_channel_on_finalize(p) = settle_channel_finalize(p)
    BY DEF settle_channel_on_finalize, settle_channel_finalize
  <2> QED BY <2>1, SettledSound DEF on_settle_finalize, In, Reveals
<1> QED BY <1>4, <1>5, <1>6, <1>7

LEMMA RenewSound ==
  ASSUME Types, Types', Onward, AloneInv, MessageInv, NEW p \in Party, StateInv(p), ReasonInv(p)
  PROVE  /\ renew_offer(p) \/ accept_renew_offer(p) \/ reject_renew_offer(p) => Sound(p)
         /\ \A m \in msgs : m.to = p => (
              (on_renew_offer(p, m) \/ on_renew_accept(p, m) \/ on_renew_confirm(p, m)
                  \/ on_renew_finalize(p, m) \/ on_renew_revoke(p, m) \/ on_reject(p, m)) => Sound(p))
<1> DEFINE c == ch[p]
           K == GivenAway(Other(p))
           u == c.rb.tx
<1>a. c \in Channel /\ Same(c, c) /\ mon[p] \in Monitor /\ c.ver \in Idx
  BY Typed DEF Same
<1>b. \A st \in StableStates \union (RenewStates \ {"RenewFinalized"}) \union {"SettledOffered"} :
          In(p, st) => Active(c) /\ c.s.st # "RenewFinalized"
  BY DEF In, Active, Updating, SettleStates, RenewStates, StableStates
<1>c. \A st \in {"Established", "Settled", "RenewOffered", "RenewAccepted", "RenewConfirmed", "SettledOffered"} :
          st \in StableStates \union (RenewStates \ {"RenewFinalized"}) \union {"SettledOffered"}
  BY DEF StableStates, RenewStates
<1>d. "BufferTx" \in TxType /\ 0 \in Idx
  BY Typed DEF TxType
<1>1. renew_offer(p) => Sound(p)
  <2> SUFFICES ASSUME renew_offer(p) PROVE Sound(p)
    OBVIOUS
  <2>1. Same(c, renew_channel_offer(p)) /\ Active(c) /\ c.s.st # "RenewFinalized"
    BY <1>a, <1>b, <1>c, SwapFields DEF renew_offer, renew_channel_offer
  <2> QED BY <2>1, QuietSound DEF renew_offer
<1>2. accept_renew_offer(p) => Sound(p)
  <2> SUFFICES ASSUME accept_renew_offer(p) PROVE Sound(p)
    OBVIOUS
  <2>1. Same(c, accept_channel_renewal(p)) /\ Active(c) /\ c.s.st # "RenewFinalized"
    BY <1>a, <1>b, <1>c, SetFields DEF accept_renew_offer, accept_channel_renewal
  <2> QED BY <2>1, QuietSound DEF accept_renew_offer
<1>3. reject_renew_offer(p) => Sound(p)
  <2> SUFFICES ASSUME reject_renew_offer(p) PROVE Sound(p)
    OBVIOUS
  <2>1. Same(c, RollBack(c)) /\ Active(c) /\ c.s.st # "RenewFinalized"
    BY <1>a, <1>b, <1>c, RollBackFields DEF reject_renew_offer
  <2> QED BY <2>1, QuietSound DEF reject_renew_offer
<1> SUFFICES ASSUME NEW m \in msgs, m.to = p
             PROVE  (on_renew_offer(p, m) \/ on_renew_accept(p, m) \/ on_renew_confirm(p, m)
                        \/ on_renew_finalize(p, m) \/ on_renew_revoke(p, m) \/ on_reject(p, m)) => Sound(p)
  BY <1>1, <1>2, <1>3
<1>4. on_renew_offer(p, m) => Sound(p)
  <2> SUFFICES ASSUME on_renew_offer(p, m) PROVE Sound(p)
    OBVIOUS
  <2>1. CASE In(p, "RenewOffered") /\ Finish(p, c, mon[p], live[p], m, Out("Reject", p, NoTx, 0))
    BY <1>a, <1>b, <1>c, <2>1, QuietSound DEF on_renew_offer
  <2>2. CASE /\ In(p, "Established") \/ In(p, "Settled")
             /\ Finish(p, renew_channel_received(p, m.tx), mon[p], live[p], m, {})
    <3>1. Same(c, renew_channel_received(p, m.tx)) /\ Active(c) /\ c.s.st # "RenewFinalized"
      BY <1>a, <1>b, <1>c, <2>2, SwapFields DEF renew_channel_received
    <3> QED BY <2>2, <3>1, QuietSound DEF on_renew_offer
  <2> QED BY <2>1, <2>2 DEF on_renew_offer
<1>5. on_renew_accept(p, m) => Sound(p)
  <2> SUFFICES ASSUME on_renew_accept(p, m) PROVE Sound(p)
    OBVIOUS
  <2>1. Same(c, verify_renew_accept_and_confirm(p, m.tx)) /\ Active(c) /\ c.s.st # "RenewFinalized"
    BY <1>a, <1>b, <1>c, SetFields DEF on_renew_accept, verify_renew_accept_and_confirm
  <2> QED BY <2>1, QuietSound DEF on_renew_accept
\* The new buffer, and the old one as revoked before its secret is known.
<1>6. on_renew_confirm(p, m) => Sound(p)
  <2> SUFFICES ASSUME on_renew_confirm(p, m) PROVE Sound(p)
    OBVIOUS
  <2> DEFINE d == verify_renew_confirm_and_finalize(p, m.tx)
             k == live[p] \union {m.tx.o}
             x == add_tx(mon[p], m.tx, "BufferTx")
             w == Replaced(p, x)
             n == NewWatch(u, "Revoked", c.ver, FALSE)
  <2>1. /\ c.kind = "Signed" /\ c.s.st = "RenewAccepted" /\ m.tx = c.s.tx /\ chain' = chain
        /\ FinishPersist(p, d, w, k \ {c.rb.con}, k, m, Out("RenewFinalize", p, m.tx, c.ver))
    BY DEF on_renew_confirm, In
  <2>2. c.s.st \in Updating /\ Active(c) /\ c.s.st # "RenewFinalized"
    BY <2>1 DEF Active, Updating, RenewStates
  <2>3. m.tx \in Tx /\ m.tx.kind = "buffer"
    BY <2>1 DEF StateInv, Fits, TxKind, SettleStates
  <2>4. Point(Other(p), u) = c.ctr
    BY <2>1, <2>2 DEF StateInv, Replaces
  <2>5. /\ d.kind = "Signed" /\ d.ver = c.ver /\ d.secrets = c.secrets
        /\ d.s.st = "RenewFinalized" /\ d.prev = c.ctr
    BY <2>1, FinalizedFields
  <2>6. x \in Monitor
    BY <1>a, <1>d, <2>3, MonitorTypes
  <2>7. Stores(p, d, w)
    BY <2>1, FinishPersistStores
  <2>8. n.tx = u /\ n.idx = c.ver /\ w = add_revoked(x, u, c.ver, FALSE)
    BY DEF NewWatch, Replaced
  <2> HIDE DEF d, k, x, w, n
  <2>9. Past(d)
    BY <2>1, <2>5 DEF ReasonInv, Past
  <2>10. c.ver \notin d.secrets
    <3>1. \A j \in d.secrets : j < c.ver
      BY <2>5, <2>9 DEF Past
    <3>2. \A j \in Nat : ~(j < j)
      OBVIOUS
    <3>3. c.ver \in Nat
      BY Typed
    <3> QED BY <3>1, <3>2, <3>3
  <2>11. RevokedFits(p, d, n, K)
    BY <2>4, <2>5, <2>8, <2>10 DEF RevokedFits
  <2>12. ASSUME MonitorFits(p, d, mon[p], chain.tx, K) PROVE MonitorFits(p, d, w, chain.tx, K)
    <3>1. MonitorFits(p, d, x, chain.tx, K)
      BY <1>a, <2>3, <2>5, <2>12, Ends, FitsAddTx DEF x
    <3> QED BY <2>5, <2>6, <2>8, <2>11, <3>1, Ends, FitsAddRevoked DEF n
  <2> QED BY <2>1, <2>2, <2>5, <2>7, <2>9, <2>12, StepSound
<1>7. on_renew_finalize(p, m) => Sound(p)
  <2> SUFFICES ASSUME on_renew_finalize(p, m) PROVE Sound(p)
    OBVIOUS
  <2> DEFINE d == renew_channel_on_finalize(p)
             x == Replaced(p, mon[p])
             w == add_tx(x, m.tx, "BufferTx")
             n == NewWatch(u, "Revoked", c.ver, FALSE)
  <2>1. /\ c.kind = "Signed" /\ c.s.st = "RenewConfirmed" /\ m.tx = c.s.tx /\ m.sec = c.ctr /\ chain' = chain
        /\ FinishPersist(p, d, w, live[p] \ {c.rb.con}, live[p], m, Out("RenewRevoke", p, NoTx, c.ver))
    BY DEF on_renew_finalize, In
  <2>2. c.s.st \in Updating /\ Active(c) /\ c.s.st # "RenewFinalized"
    BY <2>1 DEF Active, Updating, RenewStates
  <2>3. m.tx \in Tx /\ m.tx.kind = "buffer"
    BY <2>1 DEF StateInv, Fits, TxKind, SettleStates
  <2>4. Point(Other(p), u) = c.ctr /\ u \in Tx
    BY <2>1, <2>2 DEF StateInv, Replaces
  <2>5. c.ctr \in K
    BY <2>1, SecretGiven DEF on_renew_finalize, Reveals
  <2>6. d.kind = "Signed" /\ d.ver = c.ver + 1 /\ d.secrets = c.secrets \union {c.ver}
    BY <2>1, UpdatedFields
  <2>7. x \in Monitor
    BY <1>a, <2>4, ReplacedWatch
  <2>8. Stores(p, d, w)
    BY <2>1, FinishPersistStores
  <2>9. n.tx = u /\ x = add_revoked(mon[p], u, c.ver, FALSE)
    BY DEF NewWatch, Replaced
  <2> HIDE DEF d, x, w, n
  <2>10. Past(d)
    BY <2>1, <2>6, UpdatedPast
  <2>11. RevokedFits(p, d, n, K)
    BY <2>4, <2>5, <2>9 DEF RevokedFits
  <2>12. ASSUME MonitorFits(p, d, mon[p], chain.tx, K) PROVE MonitorFits(p, d, w, chain.tx, K)
    <3>1. MonitorFits(p, d, x, chain.tx, K)
      BY <1>a, <2>6, <2>9, <2>11, <2>12, Ends, FitsAddRevoked DEF n
    <3> QED BY <2>3, <2>6, <2>7, <3>1, Ends, FitsAddTx DEF w
  <2> QED BY <2>1, <2>2, <2>6, <2>8, <2>10, <2>12, StepSound
<1>8. on_renew_revoke(p, m) => Sound(p)
  <2> SUFFICES ASSUME on_renew_revoke(p, m) PROVE Sound(p)
    OBVIOUS
  <2> DEFINE d == renew_channel_on_revoke(p)
  <2>1. /\ c.kind = "Signed" /\ c.s.st = "RenewFinalized" /\ m.sec = c.prev /\ chain' = chain
        /\ Finish(p, d, mon[p], live[p], m, {})
    BY DEF on_renew_revoke, In
  <2>2. Active(c)
    BY <2>1 DEF Active
  <2>3. c.prev \in K
    BY <2>1, SecretGiven DEF on_renew_revoke, Reveals
  <2>4. d.kind = "Signed" /\ d.ver = c.ver + 1 /\ d.secrets = c.secrets \union {c.ver}
    BY <2>1, UpdatedFields
  <2>5. Stores(p, d, mon[p])
    BY <2>1, FinishStores
  <2> HIDE DEF d
  <2>6. Past(d)
    BY <2>1, <2>4, UpdatedPast
  <2> QED BY <2>1, <2>2, <2>3, <2>4, <2>5, <2>6, StepSound
<1>9. on_reject(p, m) => Sound(p)
  <2> SUFFICES ASSUME on_reject(p, m) PROVE Sound(p)
    OBVIOUS
  <2>1. CASE ch[p].kind = "Offered" /\ Finish(p, OfKind(p, "Cancelled"), mon[p], live[p], m, {})
    <3>1. "Offered" \in Opening /\ "Cancelled" \in Opening
      BY DEF Opening, ChannelKind, ClosedKinds
    <3> QED BY <2>1, <3>1, FinishStores, SameChain, OpeningSound DEF on_reject
  <2>2. CASE Rejectable(p) /\ Finish(p, RollBack(c), mon[p], live[p], m, {})
    <3>1. Same(c, RollBack(c)) /\ Active(c) /\ c.s.st # "RenewFinalized"
      BY <1>a, <1>b, <1>c, <2>2, RollBackFields DEF Rejectable
    <3> QED BY <2>2, <3>1, QuietSound DEF on_reject
  <2> QED BY <2>1, <2>2 DEF on_reject
<1> QED BY <1>4, <1>5, <1>6, <1>7, <1>8, <1>9

\* A channel in which nothing is updated any more.
LEMMA DriftSound ==
  ASSUME Types, Types', Onward, AloneInv, chain' = chain, NEW p \in Party, ReasonInv(p), ch[p].kind = "Signed",
         NEW c, NEW m, Stores(p, c, m), Same(ch[p], c), ~Active(c),
         MonitorFits(p, c, mon[p], chain.tx, GivenAway(Other(p))) =>
             MonitorFits(p, c, m, chain.tx, GivenAway(Other(p))),
         chain.tx # NoTx /\ chain.by = p /\ faults = 0 =>
             c.s.st = "CollaborativeCloseOffered" /\ Buffers(m) \subseteq Watched(p)
  PROVE  Sound(p)
<1> DEFINE K == GivenAway(Other(p))
           e == ch[p]
<1>1. MonitorFits(p, e, mon[p], chain.tx, K) /\ MonitorFits(p, e, disk[p], chain.tx, K)
  BY DEF ReasonInv, MonitorInv
<1>2. c.kind = "Signed" /\ c.secrets = e.secrets /\ c.kind \notin Opening /\ c.kind \notin ClosedKinds
  BY Ends DEF Same
<1> HIDE DEF K
<1>3. MonitorFits(p, c, mon[p], chain.tx, K) /\ MonitorFits(p, c, disk[p], chain.tx, K)
  BY <1>1, <1>2, FitsChannel
<1>4. MonitorFits(p, c, m, chain.tx, K) /\ Past(c)
  BY <1>3, SamePast DEF K
<1>5. Spends(p) /\ AloneInv'
  BY SameChain, UnspentSpends
<1>6. Because(p, c.kind, chain'.tx, chain'.by, Excused', K)
  BY <1>2 DEF Because, ClosedKinds
<1>7. chain'.tx # NoTx /\ chain'.by = p /\ faults' = 0 => Left(c, chain'.tx, Watched(p)')
  <2> SUFFICES ASSUME chain'.tx # NoTx, chain'.by = p, faults' = 0 PROVE Left(c, chain'.tx, Watched(p)')
    OBVIOUS
  <2>1. chain.tx # NoTx /\ chain.by = p /\ faults = 0
    BY OnwardGiven
  <2>2. Left(e, chain.tx, Watched(p))
    BY <2>1 DEF ReasonInv, SpendInv
  <2>3. Watched(p)' \subseteq Watched(p)
    BY <2>1, StoresWatched
  <2> QED BY <1>2, <2>1, <2>2, <2>3, Ends DEF Left
<1> QED BY <1>3, <1>4, <1>5, <1>6, <1>7, StoresSound DEF K

LEMMA PanicSound ==
  ASSUME Types, Types', Onward, AloneInv, NEW p \in Party, ReasonInv(p), NEW what, Panic(p, what)
  PROVE  Sound(p)
<1>1. Upsert(p, ch[p], disk[p], live[p]) /\ disk' = disk /\ faults' = faults /\ chain' = chain
  BY DEF Panic
<1>2. Stores(p, ch[p], disk[p])
  BY <1>1, UpsertStores DEF Stores
<1>3. MonitorFits(p, ch[p], disk[p], chain.tx, GivenAway(Other(p))) /\ Buffers(disk[p]) \subseteq Watched(p)
  BY DEF ReasonInv, MonitorInv, Watched
<1> QED BY <1>1, <1>2, <1>3, SameChain, StaySound

\* What is sent alone, or is a collaborative close.
LEMMA PublishSpends ==
  ASSUME Types, Onward, NEW p, NEW t \in Tx, CanSpend(t), chain' = Spent(p, t), Alone \/ t.kind = "close"
  PROVE  Spends(p) /\ chain'.tx = t /\ AloneInv'
<1>1. chain \in Chain
  BY DEF Types, TypeOK
<1>2. t # NoTx
  BY ChannelAssumption
<1>3. chain'.tx = t /\ Spends(p)
  <2>1. CASE chain.tx = t
    BY <1>2, <2>1 DEF Spent, Spends
  <2>2. CASE chain.tx = NoTx
    <3>1. chain' = [chain EXCEPT !.tx = t, !.by = p]
      BY <1>2, <2>2 DEF Spent
    <3>2. chain'.tx = t /\ chain'.by = p
      BY <1>1, <3>1 DEF Chain
    <3> QED BY <2>2, <3>2 DEF Spends
  <2> QED BY <2>1, <2>2 DEF CanSpend
<1>4. AloneInv'
  BY <1>3 DEF AloneInv, Alone, Onward
<1> QED BY <1>3, <1>4

LEMMA ClosableKind ==
  ASSUME Types, NEW p \in Party, StateInv(p), ch[p].kind = "Signed",
         Closable(p).s.st \in {"Established", "Settled", "RenewFinalized"}
  PROVE  Closable(p).s.tx.kind = TxKind(Closable(p).s.st)
<1> DEFINE c == ch[p]
<1>1. CASE c.s.st \in Direct
  BY <1>1, ClosableFields DEF StateInv, Fits
<1>2. CASE c.s.st \notin Direct
  <2>1. Closable(p).s = c.rb
    BY <1>2, ClosableFields
  <2>2. c.s.st \in Updating \/ c.s.st = "CollaborativeCloseOffered"
    BY <1>2, Typed DEF StateInv, Fits, State, SignedState, Direct, Updating, SettleStates, RenewStates
  <2> QED BY <2>1, <2>2 DEF StateInv, Replaces, Fits
<1> QED BY <1>1, <1>2

LEMMA FinishPersistStored ==
  ASSUME Types, NEW p \in Party, NEW c, NEW m, NEW l, NEW lc, NEW in, NEW out,
         FinishPersist(p, c, m, l, lc, in, out), faults' = faults
  PROVE  mon'[p] = m /\ disk'[p] = m
<1>1. faults' # faults + 1
  BY Bounded
<1>2. Upsert(p, c, m, l) /\ disk' = [disk EXCEPT ![p] = m]
  BY <1>1 DEF FinishPersist, Fault
<1> QED BY <1>2 DEF Upsert, Types, TypeOK

LEMMA ForceCloseSound ==
  ASSUME Types, Types', Onward, AloneInv, NEW p \in Party, StateInv(p), ReasonInv(p), Alone,
         ch[p].kind = "Signed", force_close_channel_internal(p)
  PROVE  Sound(p)
<1> DEFINE c == ch[p]
           e == Closable(p)
           t == e.s.tx
           K == GivenAway(Other(p))
<1>1. e \in Channel /\ Same(c, e)
  BY ClosableFields
<1>2. CASE Panic(p, "rollback state")
  BY <1>2, PanicSound
<1>a. MonitorFits(p, c, mon[p], chain.tx, K) /\ MonitorFits(p, c, disk[p], chain.tx, K)
  BY DEF ReasonInv, MonitorInv
<1>3. CASE initiate_unilateral_close_established_channel(p, e)
  <2> DEFINE d == initiate_unilateral_close(e)
             m == remove_tx(mon[p], t)
  <2>1. /\ e.s.st \in {"Established", "RenewFinalized"} /\ CanSpend(t) /\ chain' = Spent(p, t)
        /\ FinishPersist(p, d, m, live[p], live[p], NoTx, {}) \/ SendThenCrash(p, NoTx)
    BY <1>3 DEF initiate_unilateral_close_established_channel
  <2>2. t \in Tx /\ t.kind = "buffer"
    BY <2>1, ClosableFits, ClosableKind DEF TxKind, SettleStates
  <2> HIDE DEF e, t
  <2>3. Spends(p) /\ chain'.tx = t /\ AloneInv'
    BY <2>1, <2>2, PublishSpends
  <2>4. CASE SendThenCrash(p, NoTx)
    BY <2>3, <2>4, Ends, CrashSound
  <2>5. CASE FinishPersist(p, d, m, live[p], live[p], NoTx, {})
    <3>1. Same(e, d) /\ d.s.st = "Closing" /\ d.s.offer = TRUE
      BY <1>1, ForceCloseFields DEF initiate_unilateral_close, Channel, State
    <3>2. Stores(p, d, m)
      BY <2>5, FinishPersistStores
    <3>3. faults' = faults => mon'[p] = m /\ disk'[p] = m
      BY <2>5, FinishPersistStored
    <3>4. Buffers(m) = Buffers(mon[p]) \ {t} /\ mon[p] \in Monitor
      BY Typed, RemoveBuffers
    <3> HIDE DEF d
    <3>5. Same(c, d) /\ d.kind = "Signed" /\ d.secrets = c.secrets /\ d.kind \notin Opening /\ ~Active(d)
      BY <1>1, <3>1, KindsApart, Ends DEF Same
    <3> HIDE DEF K
    <3>6. MonitorFits(p, d, mon[p], chain.tx, K) /\ MonitorFits(p, d, disk[p], chain.tx, K)
      BY <1>a, <3>5, FitsChannel
    <3>7. MonitorFits(p, d, m, chain.tx, K)
      BY <3>4, <3>5, <3>6, FitsRemove
    <3>8. Past(d)
      BY <3>5, SamePast
    <3>9. Because(p, d.kind, chain'.tx, chain'.by, Excused', K)
      BY <3>5 DEF Because
    <3>10. chain'.tx # NoTx /\ chain'.by = p /\ faults' = 0 => Left(d, chain'.tx, Watched(p)')
      <4> SUFFICES ASSUME faults' = 0 PROVE Left(d, chain'.tx, Watched(p)')
        OBVIOUS
      <4>1. faults' = faults
        BY OnwardGiven
      <4>2. t \notin Watched(p)'
        BY <3>3, <3>4, <4>1 DEF Watched
      <4> QED BY <2>2, <2>3, <3>1, <3>5, <4>2 DEF Left
    <3> HIDE DEF m
    <3> QED BY <2>3, <3>2, <3>6, <3>7, <3>8, <3>9, <3>10, StoresSound DEF K
  <2> QED BY <2>1, <2>4, <2>5
<1>4. CASE close_settled_channel(p, e)
  <2> DEFINE d == [e EXCEPT !.kind = "Closed"]
             m == cleanup_channel(mon[p])
  <2>1. /\ e.s.st = "Settled" /\ CanSpend(t) /\ chain' = Spent(p, t)
        /\ Finish(p, d, m, live[p], NoTx, {}) \/ SendThenCrash(p, NoTx)
    BY <1>4 DEF close_settled_channel
  <2>2. t \in Tx /\ t.kind \in {"buffer", "settle"} /\ t # NoTx
    BY <2>1, ClosableFits, ChannelAssumption
  <2> HIDE DEF e, t
  <2>3. Spends(p) /\ chain'.tx = t /\ AloneInv'
    BY <2>1, <2>2, PublishSpends
  <2>4. CASE SendThenCrash(p, NoTx)
    BY <2>3, <2>4, Ends, CrashSound
  <2>5. CASE Finish(p, d, m, live[p], NoTx, {})
    <3>1. d.kind = "Closed" /\ d.secrets = e.secrets
      BY <1>1 DEF Channel
    <3>2. Stores(p, d, m)
      BY <2>5, FinishStores
    <3> HIDE DEF d
    <3>3. d.kind \in ClosedKinds /\ d.secrets = c.secrets
      BY <1>1, <3>1 DEF ClosedKinds, Same
    <3>4. Because(p, d.kind, chain'.tx, chain'.by, Excused', K)
      BY <2>2, <2>3, <3>1 DEF Because
    <3> QED BY <2>3, <3>2, <3>3, <3>4, CloseSound
  <2> QED BY <2>1, <2>4, <2>5
<1> QED BY <1>2, <1>3, <1>4 DEF force_close_channel_internal

LEMMA ClosingSound ==
  ASSUME Types, Types', Onward, AloneInv, MessageInv, NEW p \in Party, StateInv(p), ReasonInv(p)
  PROVE  /\ offer_collaborative_close(p) \/ accept_collaborative_close(p) => Sound(p)
         /\ \A m \in msgs : on_collaborative_close_offer(p, m) => Sound(p)
         /\ force_close_channel(p) \/ check_for_timed_out_channels(p) => Sound(p)
<1> DEFINE c == ch[p]
<1>a. c \in Channel /\ mon[p] \in Monitor
  BY Typed
<1>b. ASSUME NEW t PROVE LET d == close_offered(p, t) IN Same(c, d) /\ d.s.st = "CollaborativeCloseOffered" /\ ~Active(d)
  <2> DEFINE s == Bare("CollaborativeCloseOffered", t)
             d == Swap(c, s)
  <2>1. s.st = "CollaborativeCloseOffered"
    BY DEF Bare
  <2> HIDE DEF s
  <2>2. Same(c, d) /\ d.s = s
    BY <1>a, SwapFields
  <2> HIDE DEF d
  <2>3. ~Active(d)
    BY <2>1, <2>2, KindsApart
  <2> QED BY <2>1, <2>2, <2>3 DEF close_offered, d, s
<1>1. offer_collaborative_close(p) => Sound(p)
  <2> SUFFICES ASSUME offer_collaborative_close(p) PROVE Sound(p)
    OBVIOUS
  <2> DEFINE t == CloseTx(p)
             d == close_offered(p, t)
             m == add_tx(mon[p], t, "CollaborativeClose")
  <2>1. c.kind = "Signed" /\ chain' = chain
    BY DEF offer_collaborative_close
  <2>2. Stores(p, d, m)
    BY FinishPersistStores DEF offer_collaborative_close
  <2>3. t.kind = "close"
    BY DEF CloseTx
  <2> HIDE DEF t
  <2>4. Buffers(m) \subseteq Watched(p)
    BY <1>a, AddOther DEF Watched
  <2>5. Same(c, d) /\ d.s.st = "CollaborativeCloseOffered" /\ ~Active(d)
    BY <1>b
  <2> HIDE DEF d
  <2>6. d.kind \notin Opening
    BY <2>1, <2>5, Ends DEF Same
  <2>7. MonitorFits(p, d, mon[p], chain.tx, GivenAway(Other(p))) => MonitorFits(p, d, m, chain.tx, GivenAway(Other(p)))
    BY <1>a, <2>3, <2>6, FitsAddTx
  <2> HIDE DEF m
  <2> QED BY <2>1, <2>2, <2>4, <2>5, <2>7, DriftSound
<1>2. ASSUME NEW m \in msgs, on_collaborative_close_offer(p, m) PROVE Sound(p)
  <2> DEFINE d == close_offered(p, m.tx)
  <2>1. c.kind = "Signed" /\ chain' = chain
    BY <1>2 DEF on_collaborative_close_offer, CanReceiveClose
  <2>2. Stores(p, d, mon[p])
    BY <1>2, FinishStores DEF on_collaborative_close_offer
  <2>3. Buffers(mon[p]) \subseteq Watched(p)
    BY DEF Watched
  <2>4. Same(c, d) /\ d.s.st = "CollaborativeCloseOffered" /\ ~Active(d)
    BY <1>b
  <2> HIDE DEF d
  <2> QED BY <2>1, <2>2, <2>3, <2>4, DriftSound
<1>3. accept_collaborative_close(p) => Sound(p)
  <2> SUFFICES ASSUME accept_collaborative_close(p) PROVE Sound(p)
    OBVIOUS
  <2> DEFINE t == c.s.tx
             d == OfKind(p, "CollaborativelyClosed")
  <2>1. /\ In(p, "CollaborativeCloseOffered") /\ CanSpend(t) /\ chain' = Spent(p, t)
        /\ Finish(p, d, mon[p], ContractClosed(p), NoTx, {}) \/ SendThenCrash(p, NoTx)
    BY DEF accept_collaborative_close, accept_collaborative_close_offer
  <2>2. t \in Tx /\ t.kind = "close" /\ t # NoTx
    BY <2>1, ChannelAssumption DEF StateInv, Fits, In, TxKind, SettleStates
  <2>3. Spends(p) /\ chain'.tx = t /\ AloneInv'
    BY <2>1, <2>2, PublishSpends
  <2>4. d.kind = "CollaborativelyClosed" /\ d.secrets = c.secrets /\ d.kind \in ClosedKinds
    BY KindField DEF ClosedKinds
  <2>5. CASE SendThenCrash(p, NoTx)
    BY <2>1, <2>3, <2>5, Ends, CrashSound DEF In
  <2>6. CASE Finish(p, d, mon[p], ContractClosed(p), NoTx, {})
    <3>1. Stores(p, d, mon[p])
      BY <2>6, FinishStores
    <3>2. Because(p, d.kind, chain'.tx, chain'.by, Excused', GivenAway(Other(p)))
      BY <2>2, <2>3, <2>4 DEF Because
    <3> QED BY <2>1, <2>3, <2>4, <3>1, <3>2, CloseSound DEF In
  <2> QED BY <2>1, <2>5, <2>6
<1>4. force_close_channel(p) \/ check_for_timed_out_channels(p) => Sound(p)
  <2>1. "force" \in scenario.ops \/ "timeout" \in scenario.ops => Alone
    BY DEF Alone
  <2> QED BY <2>1, ForceCloseSound DEF force_close_channel, check_for_timed_out_channels
<1> QED BY <1>1, <1>2, <1>3, <1>4

\* Who did not leave for what is on the chain did not publish it, or crashed.
LEMMA NotOwn ==
  ASSUME Types, Onward, Unspent, AloneInv, NEW p \in Party, ReasonInv(p), chain.tx # NoTx, chain.tx.kind # "close",
         ~Left(ch[p], chain.tx, Watched(p))
  PROVE  chain'.by # p \/ Excused'
<1> SUFFICES ASSUME chain'.by = p PROVE Excused'
  OBVIOUS
<1>1. faults # 0
  BY DEF ReasonInv, SpendInv, Unspent
<1>2. Alone
  BY DEF AloneInv
<1>3. faults > 0
  BY <1>1, Bounded
<1> QED BY <1>2, <1>3, OnwardGiven DEF Excused

\* The channel is closed for what is on the chain.
LEMMA EndSound ==
  ASSUME Types, Types', Onward, AloneInv, Unspent, NEW p \in Party, ReasonInv(p), ch[p].kind = "Signed",
         NEW k \in ClosedKinds, Because(p, k, chain'.tx, chain'.by, Excused', GivenAway(Other(p))),
         Stores(p, OfKind(p, k), cleanup_channel(mon[p])) \/ SendThenCrash(p, NoTx)
  PROVE  Sound(p)
<1>1. Spends(p) /\ AloneInv'
  BY UnspentSpends
<1>2. OfKind(p, k).kind = k /\ OfKind(p, k).secrets = ch[p].secrets
  BY KindField
<1> QED BY <1>1, <1>2, Ends, CloseSound, CrashSound

\* What a watch that was hit says.
LEMMA HitFits ==
  ASSUME Types, NEW p \in Party, ReasonInv(p)
  PROVE  /\ \A w \in mon[p].txs : w.hit => /\ WatchFits(p, ch[p], w, chain.tx, GivenAway(Other(p)))
                                          /\ w.tx = chain.tx /\ w.tx \in Tx /\ w.tx # NoTx
         /\ \A w \in mon[p].txos : w.hit => w.tx = chain.tx /\ chain.tx # NoTx /\ w.tx.kind = "buffer"
<1>1. /\ \A w \in mon[p].txs : WatchFits(p, ch[p], w, chain.tx, GivenAway(Other(p))) /\ w.tx \in Tx
      /\ \A w \in mon[p].txos : TxoFits(w, chain.tx) /\ w.tx \in Tx
  BY Typed DEF ReasonInv, MonitorInv, MonitorFits, Monitor, Watch, WatchTxo
<1>2. NoTx \notin Tx
  BY ChannelAssumption
<1> QED BY <1>1, <1>2 DEF WatchFits, TxoFits

LEMMA WatchedSound ==
  ASSUME Types, Types', Onward, AloneInv, NEW p \in Party, ReasonInv(p)
  PROVE  process_watched_txs(p) => Sound(p)
<1> SUFFICES ASSUME process_watched_txs(p) PROVE Sound(p)
  OBVIOUS
<1> DEFINE c == ch[p]
           K == GivenAway(Other(p))
           clean == cleanup_channel(mon[p])
<1>a. c \in Channel /\ c.kind = "Signed"
  BY Typed DEF process_watched_txs
<1>b. "Closed" \in ClosedKinds /\ "CounterClosed" \in ClosedKinds /\ "ClosedPunished" \in ClosedKinds
      /\ "CollaborativelyClosed" \in ClosedKinds
  BY DEF ClosedKinds
<1>c. ASSUME NEW x, chain' = [chain EXCEPT !.next = x] PROVE Unspent
  BY <1>c, Typed DEF Unspent, Chain
<1>1. ASSUME NEW w \in mon[p].txs, w.hit, OnBufferTx(p, w) PROVE Sound(p)
  <2>1. CASE Panic(p, "contract id")
    BY <2>1, PanicSound
  <2> DEFINE s == [c.s EXCEPT !.st = "Closing", !.tx = w.tx, !.offer = FALSE]
             d == Swap(c, s)
  <2>2. CASE FinishPersist(p, d, mon[p], live[p], live[p], NoTx, {}) /\ chain' = chain
    <3>1. s.st = "Closing"
      BY Typed DEF State
    <3>2. chain.tx \in Watched(p)
      BY <1>1, HitFits, BuffersDef DEF OnBufferTx, Watched
    <3>3. chain.tx # NoTx /\ chain.by = p /\ faults = 0 => FALSE
      BY <1>a, <3>2, KindsApart DEF ReasonInv, SpendInv, Left
    <3> HIDE DEF s
    <3>4. Same(c, d) /\ d.s.st = "Closing"
      BY <1>a, <3>1, SwapFields
    <3>5. Stores(p, d, mon[p])
      BY <2>2, FinishPersistStores
    <3> HIDE DEF d
    <3>6. ~Active(d)
      BY <3>4, KindsApart
    <3> QED BY <1>a, <2>2, <3>3, <3>4, <3>5, <3>6, DriftSound
  <2> QED BY <1>1, <2>1, <2>2 DEF OnBufferTx
<1>2. ASSUME NEW w \in mon[p].txs, w.hit, OnRevoked(p, w) PROVE Sound(p)
  <2>1. CASE Panic(p, "per update secret")
    BY <2>1, PanicSound
  <2>2. CASE /\ w.idx \in c.secrets /\ chain.by # p
             /\ chain' = [chain EXCEPT !.next = [w.tx EXCEPT !.kind = "punish"]]
             /\ \/ FinishPersist(p, OfKind(p, "ClosedPunished"), clean, live[p], live[p], NoTx, {})
                \/ SendThenCrash(p, NoTx)
    <3>1. Unspent
      BY <1>c, <2>2
    <3>2. w.tx = chain.tx /\ chain.tx # NoTx /\ Point(Other(p), w.tx) \in K
      BY <1>2, <2>2, HitFits DEF OnRevoked, WatchFits, RevokedFits
    <3>3. Because(p, "ClosedPunished", chain'.tx, chain'.by, Excused', K)
      BY <2>2, <3>1, <3>2 DEF Because, Unspent
    <3>4. Stores(p, OfKind(p, "ClosedPunished"), clean) \/ SendThenCrash(p, NoTx)
      BY <2>2, FinishPersistStores
    <3> QED BY <1>a, <1>b, <3>1, <3>3, <3>4, EndSound
  <2> QED BY <1>2, <2>1, <2>2 DEF OnRevoked
<1>3. ASSUME NEW w \in mon[p].txs, w.hit, OnCollaborativeClose(p, w) PROVE Sound(p)
  <2> DEFINE l == ContractClosed(p)
  <2>1. chain' = chain /\ Unspent
    BY <1>3, SameChain DEF OnCollaborativeClose
  <2>2. CASE FinishPersist(p, OfKind(p, "CollaborativelyClosed"), clean, l, l, NoTx, {})
    <3>1. w.tx = chain.tx /\ chain.tx # NoTx /\ w.tx.kind = "close"
      BY <1>3, HitFits DEF OnCollaborativeClose, WatchFits
    <3>2. Because(p, "CollaborativelyClosed", chain'.tx, chain'.by, Excused', K)
      BY <2>1, <3>1 DEF Because
    <3>3. Stores(p, OfKind(p, "CollaborativelyClosed"), clean)
      BY <2>2, FinishPersistStores
    <3> QED BY <1>a, <1>b, <2>1, <3>2, <3>3, EndSound
  <2>3. CASE Fault /\ Upsert(p, c, disk[p], l) /\ UNCHANGED disk
    <3>1. Stores(p, c, disk[p])
      BY <2>3, UpsertStores DEF Stores, Fault
    <3>2. MonitorFits(p, c, disk[p], chain.tx, K) /\ Buffers(disk[p]) \subseteq Watched(p)
      BY DEF ReasonInv, MonitorInv, Watched
    <3> QED BY <2>1, <3>1, <3>2, StaySound
  <2> QED BY <1>3, <2>2, <2>3 DEF OnCollaborativeClose
<1>4. ASSUME NEW w \in mon[p].txs, w.hit, OnSettleTx(p, w) PROVE Sound(p)
  <2>1. chain' = chain /\ Unspent
    BY <1>4, SameChain DEF OnSettleTx
  <2>2. chain.tx # NoTx /\ chain.tx.kind = "settle"
    BY <1>4, HitFits DEF OnSettleTx, WatchFits
  <2>3. ~Left(c, chain.tx, Watched(p))
    BY <1>a, <2>2, KindsApart DEF Left
  <2>4. Because(p, "CounterClosed", chain'.tx, chain'.by, Excused', K)
    BY <2>1, <2>2, <2>3, NotOwn DEF Because
  <2>5. Stores(p, OfKind(p, "CounterClosed"), clean)
    BY <1>4, FinishPersistStores DEF OnSettleTx
  <2> QED BY <1>a, <1>b, <2>1, <2>4, <2>5, EndSound
<1>5. ASSUME OnCet(p) PROVE Sound(p)
  <2> DEFINE k == IF In(p, "Closing") /\ ~c.s.offer THEN "CounterClosed" ELSE "Closed"
             l == live[p] \ {c.s.con}
  <2>1. /\ FinishPersist(p, OfKind(p, k), clean, l, l, NoTx, {}) /\ chain' = chain
        /\ \E w \in mon[p].txos : w.hit
    BY <1>5 DEF OnCet
  <2>2. chain.tx # NoTx /\ chain.tx.kind = "buffer" /\ Unspent
    BY <2>1, HitFits, SameChain
  <2>3. In(p, "Closing") /\ ~c.s.offer => ~Left(c, chain.tx, Watched(p))
    BY <1>a, KindsApart DEF Left, In
  <2>4. Because(p, k, chain'.tx, chain'.by, Excused', K)
    <3>1. CASE In(p, "Closing") /\ ~c.s.offer
      BY <2>1, <2>2, <2>3, <3>1, NotOwn DEF Because
    <3>2. CASE ~(In(p, "Closing") /\ ~c.s.offer)
      BY <2>1, <2>2, <3>2 DEF Because
    <3> QED BY <3>1, <3>2
  <2>5. k \in ClosedKinds
    BY <1>b
  <2> HIDE DEF k, l
  <2>6. Stores(p, OfKind(p, k), clean)
    BY <2>1, FinishPersistStores
  <2> QED BY <1>a, <2>2, <2>4, <2>5, <2>6, EndSound
<1> QED BY <1>1, <1>2, <1>3, <1>4, <1>5 DEF process_watched_txs

LEMMA PeriodicSound ==
  ASSUME Types, Types', Onward, AloneInv, NEW p \in Party, StateInv(p), ReasonInv(p)
  PROVE  /\ periodic_chain_monitor(p) \/ check_for_watched_tx(p) \/ Crash(p) => Sound(p)
         /\ try_finalize_closing_established_channel(p) => Sound(p)
<1> DEFINE c == ch[p]
           K == GivenAway(Other(p))
<1>a. /\ MonitorFits(p, c, mon[p], chain.tx, K) /\ MonitorFits(p, c, disk[p], chain.tx, K)
      /\ Buffers(mon[p]) \subseteq Watched(p) /\ Buffers(disk[p]) \subseteq Watched(p)
  BY DEF ReasonInv, MonitorInv, Watched
<1>b. mon \in [Party -> Monitor] /\ disk \in [Party -> Monitor] /\ mon[p] \in Monitor
  BY DEF Types, TypeOK
<1>1. periodic_chain_monitor(p) => Sound(p)
  <2> SUFFICES ASSUME periodic_chain_monitor(p) PROVE Sound(p)
    OBVIOUS
  <2> DEFINE m == process_block(mon[p])
  <2>1. mon' = [mon EXCEPT ![p] = m] /\ ch' = ch /\ disk' = disk /\ faults' = faults /\ chain' = chain
    BY DEF periodic_chain_monitor
  <2>2. MonitorFits(p, c, m, chain.tx, K) /\ Buffers(m) \subseteq Watched(p)
    BY <1>a, <1>b, FitsBlock, RemoveBuffers
  <2> HIDE DEF m
  <2>3. mon'[p] = m /\ \A q \in Party \ {p} : mon'[q] = mon[q]
    BY <1>b, <2>1
  <2>4. Stores(p, c, m)
    BY <2>1, <2>3 DEF Stores, Own
  <2> QED BY <2>1, <2>2, <2>4, SameChain, StaySound
<1>2. check_for_watched_tx(p) => Sound(p)
  <2> SUFFICES ASSUME check_for_watched_tx(p) PROVE Sound(p)
    OBVIOUS
  <2>1. disk' = [disk EXCEPT ![p] = mon[p]] /\ ch' = ch /\ mon' = mon /\ faults' = faults /\ chain' = chain
    BY DEF check_for_watched_tx
  <2>2. disk'[p] = mon[p] /\ \A q \in Party \ {p} : disk'[q] = disk[q]
    BY <1>b, <2>1
  <2>3. Stores(p, c, mon[p])
    BY <2>1, <2>2 DEF Stores, Own
  <2> QED BY <1>a, <2>1, <2>3, SameChain, StaySound
<1>3. Crash(p) => Sound(p)
  <2> SUFFICES ASSUME Crash(p) PROVE Sound(p)
    OBVIOUS
  <2>1. Upsert(p, c, disk[p], live[p]) /\ disk' = disk /\ faults' = faults + 1 /\ chain' = chain
    BY DEF Crash, Fault
  <2>2. Stores(p, c, disk[p])
    BY <2>1, UpsertStores DEF Stores
  <2> QED BY <1>a, <2>1, <2>2, SameChain, StaySound
<1>4. try_finalize_closing_established_channel(p) => Sound(p)
  <2> SUFFICES ASSUME try_finalize_closing_established_channel(p) PROVE Sound(p)
    OBVIOUS
  <2> DEFINE k == IF c.s.offer THEN "Closed" ELSE "CounterClosed"
             l == live[p] \ {c.s.con}
             m == cleanup_channel(mon[p])
  <2>1. /\ In(p, "Closing") /\ chain.tx = c.s.tx
        /\ chain' = [chain EXCEPT !.next = [c.s.tx EXCEPT !.kind = "cet"]]
        /\ Finish(p, OfKind(p, k), m, l, NoTx, {}) \/ SendThenCrash(p, NoTx)
    BY DEF try_finalize_closing_established_channel
  <2>2. Unspent
    BY <2>1, Typed DEF Unspent, Chain
  <2>3. chain.tx # NoTx /\ chain.tx.kind = "buffer"
    BY <2>1, ChannelAssumption DEF In, StateInv, Fits, TxKind, SettleStates
  <2>4. ~c.s.offer => ~Left(c, chain.tx, Watched(p))
    BY <2>1, KindsApart DEF Left, In
  <2>5. Because(p, k, chain'.tx, chain'.by, Excused', K)
    <3>1. CASE ~c.s.offer
      BY <2>2, <2>3, <2>4, <3>1, NotOwn DEF Because, Unspent
    <3>2. CASE c.s.offer
      BY <2>2, <2>3, <3>2 DEF Because, Unspent
    <3> QED BY <3>1, <3>2
  <2>6. k \in ClosedKinds
    BY DEF ClosedKinds
  <2> HIDE DEF k, l, m
  <2>7. Stores(p, OfKind(p, k), m) \/ SendThenCrash(p, NoTx)
    BY <2>1, FinishStores
  <2> QED BY <2>1, <2>2, <2>5, <2>6, <2>7, EndSound DEF In, m
<1> QED BY <1>1, <1>2, <1>3, <1>4

LEMMA MoveOnward ==
  ASSUME Types, NEW p \in Party, Move(p), scenario' = scenario
  PROVE  Onward
<1>1. ASSUME NEW d, NEW out, NEW new, Turn(p, d, out, new) PROVE Onward
  <2>1. \A q \in Party : revealed[q] \subseteq revealed'[q]
    BY <1>1, TurnFacts
  <2>2. faults \in Nat /\ faults' \in {faults, faults + 1}
    BY <1>1, Bounded DEF Turn
  <2> QED BY <2>1, <2>2 DEF Onward
<1> QED BY <1>1 DEF Move, Idle, Setup, Open, Propose, GetOffer, Withdraw, Accept, Confirm, Settle, Finalize,
                    Renew, Revoke, OfferClose, ForceClose, SeeBuffer, Close

ReasonsInv == AgreementInv /\ AloneInv /\ \A p \in Party : ReasonInv(p)

\* What does not concern the channels.
LEMMA ApartSound ==
  ASSUME AloneInv, Apart, NEW p \in Party, ReasonInv(p)
  PROVE  AloneInv' /\ ReasonInv(p)'
<1>1. /\ ch' = ch /\ mon' = mon /\ disk' = disk /\ revealed' = revealed /\ faults' = faults /\ scenario' = scenario
      /\ chain'.tx = chain.tx /\ chain'.by = chain.by
  BY DEF Apart
<1>2. AloneInv'
  BY <1>1 DEF AloneInv, Alone
<1>3. MonitorInv(p)' /\ Past(ch[p])'
  BY <1>1 DEF ReasonInv, MonitorInv, Past, GivenAway
<1>4. SpendInv(p)'
  BY <1>1 DEF ReasonInv, SpendInv, Watched
<1>5. Because(p, ch[p].kind, chain.tx, chain.by, Excused, GivenAway(Other(p)))'
  BY <1>1 DEF ReasonInv, Because, Excused, Alone, GivenAway
<1> QED BY <1>2, <1>3, <1>4, <1>5 DEF ReasonInv

LEMMA NextSound ==
  ASSUME ReasonsInv, Types', Onward, Next
  PROVE  Mine \/ OracleAttests \/ \E p \in Party : Sound(p)
<1>1. Types /\ MessageInv /\ AloneInv /\ \A p \in Party : StateInv(p) /\ ReasonInv(p)
  BY DEF ReasonsInv, AgreementInv, ChannelsInv, LocalInv
<1>2. ASSUME NEW p \in Party, Call(p) PROVE Sound(p)
  BY <1>1, <1>2, SetupSound, SettleSound, RenewSound, ClosingSound DEF Call
<1>3. ASSUME NEW p \in Party, Periodic(p) \/ Crash(p) PROVE Sound(p)
  BY <1>1, <1>3, SetupSound, ClosingSound, WatchedSound, PeriodicSound DEF Periodic
<1>4. ASSUME NEW p \in Party, NEW m \in msgs, m.to = p, Receive(p, m) PROVE Sound(p)
  BY <1>1, <1>4, SetupSound, SettleSound, RenewSound, ClosingSound DEF Receive
<1>5. CASE offer_channel
  BY <1>1, <1>5, SetupSound, Parties
<1> QED BY <1>2, <1>3, <1>4, <1>5 DEF Next

LEMMA NextReasons == ReasonsInv /\ [Next]_<<vars, scenario>> => ReasonsInv'
<1> SUFFICES ASSUME ReasonsInv, [Next]_<<vars, scenario>> PROVE ReasonsInv'
  OBVIOUS
<1>1. AgreementInv' /\ Types'
  BY NextPair DEF ReasonsInv, AgreementInv, ChannelsInv
<1>2. Types /\ MessageInv /\ UseInv /\ OpeningInv /\ AloneInv /\ \A p \in Party : StateInv(p) /\ ReasonInv(p)
  BY DEF ReasonsInv, AgreementInv, ChannelsInv, LocalInv
<1>3. ASSUME Apart PROVE ReasonsInv'
  BY <1>1, <1>2, <1>3, ApartSound, Parties DEF ReasonsInv
<1>4. ASSUME NEW p \in Party, Sound(p), Onward PROVE ReasonsInv'
  <2>1. AloneInv' /\ ReasonInv(p)' /\ Own(p) /\ Spends(p)
    BY <1>4 DEF Sound
  <2>2. ASSUME NEW q \in Party PROVE ReasonInv(q)'
    BY <1>2, <1>4, <2>1, OtherSound
  <2> QED BY <1>1, <2>1, <2>2 DEF ReasonsInv
<1>5. CASE Next
  <2>1. scenario' = scenario
    BY <1>5 DEF Next
  <2>2. CASE Elsewhere
    BY <1>3, <2>1, <2>2 DEF Elsewhere, Apart
  <2>3. CASE Mine \/ OracleAttests
    <3>1. CASE OracleAttests
      BY <1>3, <2>1, <3>1 DEF OracleAttests, Apart
    <3>2. CASE Mine
      BY <1>2, <1>3, <2>1, <3>2 DEF Mine, FundConfirms, MineSpend, MineNext, Apart, Types, TypeOK, Chain
    <3> QED BY <2>3, <3>1, <3>2
  <2>4. ASSUME NEW p \in Party, Move(p) PROVE ReasonsInv'
    <3>1. Onward
      BY <1>2, <2>1, <2>4, MoveOnward
    <3> QED BY <1>1, <1>4, <1>5, <2>3, <3>1, NextSound
  <2> QED BY <1>2, <1>5, <2>2, <2>4, NextMoves
<1>6. CASE UNCHANGED <<vars, scenario>>
  <2>1. Apart
    BY <1>6 DEF Apart, vars
  <2> QED BY <1>3, <2>1
<1> QED BY <1>5, <1>6

LEMMA InitReasons == Init => ReasonsInv
<1> SUFFICES ASSUME Init PROVE ReasonsInv
  OBVIOUS
<1>1. AgreementInv
  BY InitChannels, InitPair DEF AgreementInv
<1>2. chain.tx = NoTx
  BY DEF Init
<1>3. AloneInv
  BY <1>2 DEF AloneInv
<1>4. ASSUME NEW p \in Party PROVE ReasonInv(p)
  <2>1. ch[p].kind = "None" /\ mon[p] = NoMonitor /\ disk[p] = NoMonitor
    BY DEF Init, NoChannel
  <2>2. MonitorInv(p)
    BY <2>1 DEF MonitorInv, MonitorFits, NoMonitor
  <2>3. Past(ch[p]) /\ SpendInv(p)
    BY <1>2, <2>1 DEF Past, SpendInv
  <2>4. Because(p, ch[p].kind, chain.tx, chain.by, Excused, GivenAway(Other(p)))
    BY <2>1 DEF Because
  <2> QED BY <2>2, <2>3, <2>4 DEF ReasonInv
<1> QED BY <1>1, <1>3, <1>4 DEF ReasonsInv

LEMMA ReasonsInvariant == Spec => []ReasonsInv
  BY InitReasons, NextReasons, PTL DEF Spec

\* A channel is closed for a reason that is on the chain, whatever crashes and
\* messages do: CollaborativelyClosed after a close transaction, CounterClosed after
\* what the other party published (or the party itself, before it crashed), and
\* ClosedPunished after a transaction of the other party whose secret it had given
\* away.
THEOREM ClosesHaveAReason == Spec => []ClosedForAReason
<1>1. ReasonsInv => ClosedForAReason
  <2> SUFFICES ASSUME ReasonsInv, NEW p \in Party
               PROVE  LET k == ch[p].kind
                      IN  /\ k = "CollaborativelyClosed" => chain.tx # NoTx /\ chain.tx.kind = "close"
                          /\ k \in {"Closed", "CounterClosed"} =>
                                chain.tx # NoTx /\ chain.tx.kind \in {"buffer", "settle"}
                          /\ k = "CounterClosed" => chain.by # p \/ Excused
                          /\ k = "ClosedPunished" => /\ chain.tx # NoTx /\ chain.by # p
                                                     /\ Point(chain.by, chain.tx) \in GivenAway(chain.by)
    BY DEF ClosedForAReason, Excused, Alone
  <2>1. Because(p, ch[p].kind, chain.tx, chain.by, Excused, GivenAway(Other(p)))
    BY DEF ReasonsInv, ReasonInv
  <2>2. chain.by \in Party
    BY Typed, Parties DEF ReasonsInv, AgreementInv, ChannelsInv, Chain
  <2>3. chain.by # p => chain.by = Other(p)
    BY <2>2 DEF Party, Other
  <2> QED BY <2>1, <2>3 DEF Because
<1> QED BY <1>1, ReasonsInvariant, PTL

\* What is stored of a channel always fits what is on the chain: the types, the
\* reason of each close (process_watched_txs, accept_collaborative_close,
\* try_finalize_closing_established_channel, force_close_channel_internal), and the
\* stored contract of an established channel.
THEOREM StoredFitsTheChain == Spec => []ChannelInv
  BY ChannelIsWellTyped, ClosesHaveAReason, EstablishedContractIsConfirmed, PTL DEF ChannelInv

-----------------------------------------------------------------------------
(***************************************************************************)
(* What a party watches, as long as nothing crashes and no collaborative   *)
(* close is offered: for p with channel c, monitor m and stored monitor k, *)
(* when t spends the funding output.                                       *)
(***************************************************************************)
Clean == faults = 0 /\ "collaborative" \notin scenario.ops
Txs(m) == {w.tx : w \in m.txs}
Lasting == {"BufferTx", "Revoked"}

\* The current transaction, and the next one, of p itself.
Guards(c, m, k, t) ==
    /\ Txs(k) \subseteq Txs(m)
    /\ \A w \in m.txs : w.type \in Lasting => w.tx \in Txs(k)
    /\ Current(c).kind = "buffer" => Current(c) \in Txs(k)
    /\ c.s.st = "RenewFinalized" => c.s.tx \in Txs(k)
    /\ t = NoTx => /\ Current(c) \in Txs(m)
                   /\ c.s.st \in {"SettledAccepted", "SettledConfirmed"} => c.s.tx \in Txs(m)
\* The next buffer is only watched once RenewFinalize came.
Sees(c, m, t) == t \in Txs(m) \/ (c.s.st = "RenewConfirmed" /\ c.s.tx = t)
\* What a party with channel d can publish.
Publishable(d, t) == t = Current(d) \/ (d.s.st = "RenewFinalized" /\ t = d.s.tx)
Looks(c, m, d) == \A t : Publishable(d, t) => Sees(c, m, t)

GuardInv(p) ==
    /\ chain.tx = NoTx => ch[p].kind \in Opening \/ Active(ch[p])
    /\ Active(ch[p]) => Guards(ch[p], mon[p], disk[p], chain.tx)
LookInv(p) ==
    Active(ch[p]) =>
        IF chain.tx = NoTx THEN Active(ch[Other(p)]) => Looks(ch[p], mon[p], ch[Other(p)])
                           ELSE Sees(ch[p], mon[p], chain.tx)
SightInv == Clean => /\ chain.tx # NoTx => chain.fund # "none"
                     /\ \A p \in Party : GuardInv(p) /\ LookInv(p)

-----------------------------------------------------------------------------
(* What monitors watch.                                                    *)

LEMMA TxsDef ==
  ASSUME NEW m, NEW x
  PROVE  x \in Txs(m) <=> \E w \in m.txs : w.tx = x
  BY DEF Txs

LEMMA TxsGrow ==
  ASSUME NEW m \in Monitor, NEW n, NEW v, n.txs = {w \in m.txs : w.tx # v.tx} \union {v}
  PROVE  Txs(n) = Txs(m) \union {v.tx} /\ \A w \in n.txs : w = v \/ w \in m.txs
<1>1. ASSUME NEW x PROVE x \in Txs(n) <=> x \in Txs(m) \/ x = v.tx
  BY TxsDef
<1> QED BY <1>1

LEMMA RevokedWatches ==
  ASSUME NEW m \in Monitor, NEW t, NEW i, NEW b
  PROVE  /\ Txs(add_revoked(m, t, i, b)) = Txs(m) \union {t}
         /\ \A w \in add_revoked(m, t, i, b).txs : w.tx = t \/ w \in m.txs
<1> DEFINE n == add_revoked(m, t, i, b)
           v == NewWatch(t, "Revoked", i, b)
<1>1. n.txs = {w \in m.txs : w.tx # t} \union {v}
  BY AddRevoked
<1>2. v.tx = t
  BY DEF NewWatch
<1> HIDE DEF n, v
<1>3. Txs(n) = Txs(m) \union {t} /\ \A w \in n.txs : w.tx = t \/ w \in m.txs
  BY <1>1, <1>2, TxsGrow
<1> QED BY <1>3 DEF n

LEMMA AddedWatches ==
  ASSUME NEW m \in Monitor, NEW t, NEW type
  PROVE  /\ Txs(add_tx(m, t, type)) = Txs(m) \union {t}
         /\ \A w \in add_tx(m, t, type).txs : w.type = type \/ w \in m.txs
<1> DEFINE n == add_tx(m, t, type)
           v == NewWatch(t, type, 0, FALSE)
<1>1. n.txs = {w \in m.txs : w.tx # t} \union {v}
  BY AddTx
<1>2. v.tx = t /\ v.type = type
  BY DEF NewWatch
<1> HIDE DEF n, v
<1>3. Txs(n) = Txs(m) \union {t} /\ \A w \in n.txs : w.type = type \/ w \in m.txs
  BY <1>1, <1>2, TxsGrow
<1> QED BY <1>3 DEF n

\* A block changes nothing of that.
LEMMA BlockWatches ==
  ASSUME NEW m \in Monitor
  PROVE  /\ Txs(process_block(m)) = Txs(m)
         /\ \A w \in process_block(m).txs : \E v \in m.txs : w.tx = v.tx /\ w.type = v.type
<1> DEFINE seen(w) == [w EXCEPT !.hit = @ \/ (m.done < 1 /\ Blocks >= 1 /\ w.tx = chain.tx)]
           n == process_block(m)
<1>1. n.txs = {seen(w) : w \in m.txs}
  BY DEF process_block
<1>2. \A w \in m.txs : seen(w).type = w.type /\ seen(w).tx = w.tx
  BY DEF Monitor, Watch
<1> HIDE DEF seen, n
<1>3. ASSUME NEW x PROVE x \in Txs(n) <=> x \in Txs(m)
  BY <1>1, <1>2, TxsDef
<1>4. \A w \in n.txs : \E v \in m.txs : w.tx = v.tx /\ w.type = v.type
  BY <1>1, <1>2
<1> QED BY <1>3, <1>4 DEF n

-----------------------------------------------------------------------------
(* What a step of p leaves of this: p rests, leaves the channel for what it *)
(* published, or goes on with it.                                           *)

\* What p saw, it sees, as far as it matters.
Follows(c, m, e, n, t) ==
    /\ \A x : t \in {NoTx, x} /\ Sees(c, m, x) => Sees(e, n, x)
    /\ e.s.st \in Waits => Current(e) = Current(c)

Rests(p) == /\ ~Active(ch'[p]) /\ chain'.tx = chain.tx
            /\ chain.tx = NoTx => ch'[p].kind \in Opening
Leaves(p) == /\ ~Active(ch'[p]) /\ chain.tx = NoTx /\ chain'.tx # NoTx
             /\ Active(ch[p]) /\ Publishable(ch[p], chain'.tx)
Works(p) == /\ Active(ch'[p]) /\ chain'.tx = chain.tx
            /\ Guards(ch'[p], mon'[p], disk'[p], chain.tx)
            /\ \/ Active(ch[p]) /\ Follows(ch[p], mon[p], ch'[p], mon'[p], chain.tx)
               \/ chain.tx = NoTx /\ ch'[p].ver = 0 /\ ch'[p].s.st = "Established"
Alert(p) == /\ Own(p)
            /\ Rests(p) \/ Leaves(p) \/ Works(p)
            /\ chain'.tx # NoTx => chain'.fund # "none"

\* The stored monitor stays: what lasts was in it.
LEMMA GuardsKept ==
  ASSUME NEW c, NEW m, NEW k, NEW t, NEW e, NEW n, Guards(c, m, k, t), Txs(m) \subseteq Txs(n),
         \A w \in n.txs : w.type \in Lasting => w.tx \in Txs(k),
         Current(e) = Current(c) \/ (Current(e) \in Txs(k) /\ e.s.st \notin Waits),
         c.s.st = "RenewConfirmed" \/ e.s.st = "RenewFinalized" => e.s = c.s,
         t = NoTx /\ e.s.st \in {"SettledAccepted", "SettledConfirmed"} => e.s.tx \in Txs(n)
  PROVE  Guards(e, n, k, t) /\ Follows(c, m, e, n, t)
<1>1. Guards(e, n, k, t)
  BY DEF Guards
<1>2. Follows(c, m, e, n, t)
  BY DEF Follows, Sees
<1> QED BY <1>1, <1>2

\* The monitor is stored.
LEMMA GuardsStored ==
  ASSUME NEW n, NEW e, NEW t, Current(e).kind = "buffer" => Current(e) \in Txs(n),
         e.s.st = "RenewFinalized" => e.s.tx \in Txs(n),
         t = NoTx => /\ Current(e) \in Txs(n)
                     /\ e.s.st \in {"SettledAccepted", "SettledConfirmed"} => e.s.tx \in Txs(n)
  PROVE  Guards(e, n, n, t)
<1>1. \A w \in n.txs : w.tx \in Txs(n)
  BY TxsDef
<1> QED BY <1>1 DEF Guards

LEMMA FinishStored ==
  ASSUME Types, NEW p \in Party, NEW c, NEW m, NEW l, NEW in, NEW out, Finish(p, c, m, l, in, out)
  PROVE  Own(p) /\ ch'[p] = c /\ mon'[p] = m /\ disk'[p] = disk[p]
<1>1. Upsert(p, c, m, l) /\ disk' = disk
  BY DEF Finish
<1> QED BY <1>1, UpsertStores

\* Without a crash a handler that stores the monitor ends.
LEMMA PersistStored ==
  ASSUME Types, faults' = 0, NEW p \in Party
  PROVE  /\ ~Fault
         /\ \A c, m, l, lc, in, out : FinishPersist(p, c, m, l, lc, in, out) =>
                Own(p) /\ ch'[p] = c /\ mon'[p] = m /\ disk'[p] = m
<1>1. ~Fault
  BY Bounded DEF Fault
<1>2. ASSUME NEW c, NEW m, NEW l, NEW lc, NEW in, NEW out, FinishPersist(p, c, m, l, lc, in, out)
      PROVE  Own(p) /\ ch'[p] = c /\ mon'[p] = m /\ disk'[p] = m
  <2>1. Stores(p, c, m) /\ faults' = faults
    BY <1>1, <1>2, FinishPersistStores DEF FinishPersist
  <2>2. mon'[p] = m /\ disk'[p] = m
    BY <1>2, <2>1, FinishPersistStored
  <2> QED BY <2>1, <2>2 DEF Stores
<1> QED BY <1>1, <1>2

\* p, after its step, sees what the other party d can publish.
LEMMA SeesOther ==
  ASSUME NEW c, NEW d, NEW e, NEW m, NEW n, NEW l, d.ver \in Nat, Guards(e, n, l, NoTx), Together(e, d),
         (Looks(c, m, d) /\ Follows(c, m, e, n, NoTx)) \/ (e.ver = 0 /\ e.s.st = "Established")
  PROVE  Looks(e, n, d)
<1>1. CASE Looks(c, m, d) /\ Follows(c, m, e, n, NoTx)
  BY <1>1 DEF Looks, Follows
<1>2. CASE e.ver = 0 /\ e.s.st = "Established"
  <2>1. e.s.st \notin Waits /\ e.s.st \notin HasConfirmed
    BY <1>2, Stages DEF StableStates
  <2>2. ~Ahead(e, d) /\ ~Ahead(d, e)
    BY <1>2, <2>1 DEF Ahead
  <2>3. Current(d) = Current(e) /\ d.s.st # "RenewFinalized"
    BY <2>1, <2>2 DEF Together, Level, Finished
  <2> QED BY <2>3 DEF Guards, Looks, Publishable, Sees
<1> QED BY <1>1, <1>2

\* The other party, with channel d, sees what p can publish after its step.
LEMMA SeenByOther ==
  ASSUME NEW c, NEW d, NEW e, NEW m, NEW k, Guards(d, m, k, NoTx), Together(e, d),
         \/ Looks(d, m, c) /\ (e.s.st \in Waits => Current(e) = Current(c))
         \/ e.s.st = "Established"
  PROVE  Looks(d, m, e)
<1> SUFFICES ASSUME NEW x, Publishable(e, x) PROVE Sees(d, m, x)
  BY DEF Looks
<1>a. d.s.st \in Waits => Sees(d, m, d.s.tx)
  BY Stages DEF HasConfirmed, Guards, Sees
<1>b. Sees(d, m, Current(d))
  BY DEF Guards, Sees
<1>c. "RenewFinalized" \in Waits /\ \A st \in HasConfirmed : st \in Waits
  BY Stages
<1>1. CASE Level(e, d)
  <2>1. x = Current(d) \/ (d.s.st \in HasConfirmed /\ x = d.s.tx)
    BY <1>1 DEF Publishable, Level, Finished
  <2> QED BY <1>a, <1>b, <1>c, <2>1
<1>2. CASE Ahead(e, d)
  <2>1. x = d.s.tx /\ d.s.st \in Waits
    BY <1>2, <1>c DEF Publishable, Ahead
  <2> QED BY <1>a, <2>1
<1>3. CASE Ahead(d, e)
  <2>1. e.s.st \in Waits /\ e.s.tx = Current(d)
    BY <1>3 DEF Ahead
  <2>2. Looks(d, m, c) /\ Current(e) = Current(c)
    BY <2>1, Stages DEF StableStates
  <2>3. Sees(d, m, Current(e))
    BY <2>2 DEF Looks, Publishable
  <2> QED BY <1>b, <2>1, <2>3 DEF Publishable
<1> QED BY <1>1, <1>2, <1>3 DEF Together

LEMMA AlertKeeps ==
  ASSUME Types', NEW p \in Party, Alert(p), TogetherInv(p)',
         chain.tx # NoTx => chain.fund # "none", \A q \in Party : GuardInv(q) /\ LookInv(q)
  PROVE  /\ chain'.tx # NoTx => chain'.fund # "none"
         /\ \A q \in Party : GuardInv(q)' /\ LookInv(q)'
<1> DEFINE q == Other(p)
           c == ch[p]
           d == ch[q]
           e == ch'[p]
           m == mon[q]
           k == disk[q]
           t == chain.tx
           u == chain'.tx
<1>a. /\ q \in Party /\ q # p /\ Other(q) = p /\ \A r \in Party : r = p \/ r = q
      /\ ch'[q] = d /\ mon'[q] = m /\ disk'[q] = k
  <2>1. q \in Party /\ q # p /\ Other(q) = p /\ \A r \in Party : r = p \/ r = q
    BY DEF Party, Other
  <2>2. ch'[q] = d /\ mon'[q] = m /\ disk'[q] = k
    BY <2>1 DEF Alert, Own
  <2> QED BY <2>1, <2>2
<1>b. ch'[q].ver \in Nat
  <2>1. ch'[q] \in Channel
    BY <1>a DEF Types, TypeOK
  <2> QED BY <2>1, Indices DEF Channel
<1>c. /\ t = NoTx => c.kind \in Opening \/ Active(c)
      /\ t = NoTx => d.kind \in Opening \/ Active(d)
      /\ Active(c) => Guards(c, mon[p], disk[p], t)
      /\ Active(d) => Guards(d, m, k, t)
      /\ Active(c) /\ t = NoTx /\ Active(d) => Looks(c, mon[p], d) /\ Looks(d, m, c)
      /\ Active(c) /\ t # NoTx => Sees(c, mon[p], t)
      /\ Active(d) /\ t # NoTx => Sees(d, m, t)
  BY <1>a DEF GuardInv, LookInv
<1>d. Active(e) /\ Active(d) => Together(e, d)
  BY <1>a DEF TogetherInv
<1>e. /\ Rests(p) \/ Leaves(p) \/ Works(p)
      /\ chain'.tx # NoTx => chain'.fund # "none"
  BY DEF Alert
<1>1. GuardInv(p)'
  <2>1. u = NoTx => e.kind \in Opening \/ Active(e)
    BY <1>e DEF Rests, Leaves, Works
  <2>2. Active(e) => Guards(e, mon'[p], disk'[p], u)
    BY <1>e DEF Rests, Leaves, Works
  <2> QED BY <2>1, <2>2 DEF GuardInv
<1>2. GuardInv(q)'
  <2>1. u = t \/ (t = NoTx /\ u # NoTx)
    BY <1>e DEF Rests, Leaves, Works
  <2>2. Active(d) => Guards(d, m, k, u)
    BY <1>c, <2>1 DEF Guards
  <2> QED BY <1>a, <1>c, <2>1, <2>2 DEF GuardInv
<1>3. LookInv(p)'
  <2>1. CASE ~Active(e)
    BY <2>1 DEF LookInv
  <2>2. CASE Works(p) /\ t # NoTx
    <3>1. Sees(e, mon'[p], u)
      BY <1>c, <2>2 DEF Works, Follows
    <3> QED BY <2>2, <3>1 DEF LookInv, Works
  <2>3. CASE Works(p) /\ t = NoTx
    <3>1. ASSUME Active(d) PROVE Looks(e, mon'[p], d)
      BY <1>a, <1>b, <1>c, <1>d, <2>3, <3>1, SeesOther DEF Works
    <3> QED BY <1>a, <2>3, <3>1 DEF LookInv, Works
  <2> QED BY <1>e, <2>1, <2>2, <2>3 DEF Rests, Leaves
<1>4. LookInv(q)'
  <2> SUFFICES ASSUME Active(d)
               PROVE  IF u = NoTx THEN Active(e) => Looks(d, m, e) ELSE Sees(d, m, u)
    BY <1>a DEF LookInv
  <2>1. CASE u = t /\ t # NoTx
    BY <1>c, <2>1
  <2>2. CASE Leaves(p)
    BY <1>c, <2>2 DEF Leaves, Looks
  <2>3. CASE u = t /\ t = NoTx /\ Active(e)
    <3>1. Works(p)
      BY <1>e, <2>3 DEF Rests, Leaves
    <3>2. Looks(d, m, e)
      BY <1>c, <1>d, <2>3, <3>1, SeenByOther DEF Works, Follows
    <3> QED BY <2>3, <3>2
  <2>4. CASE u = t /\ t = NoTx /\ ~Active(e)
    BY <2>4
  <2> QED BY <1>e, <2>1, <2>2, <2>3, <2>4 DEF Rests, Works
<1> QED BY <1>1, <1>2, <1>3, <1>4, <1>a, <1>e

-----------------------------------------------------------------------------
(* The steps, as long as nothing crashes.                                  *)
Wary(p) == GuardInv(p) /\ (chain.tx # NoTx => chain.fund # "none")

LEMMA RestAlert ==
  ASSUME NEW p, Wary(p), Quiet, Own(p), ~Active(ch'[p]),
         chain.tx # NoTx \/ ch'[p].kind \in Opening
  PROVE  Alert(p)
  BY DEF Wary, Quiet, Alert, Rests

\* A step of an update that leaves the stored monitor.
LEMMA StepAlert ==
  ASSUME NEW p, Wary(p), Quiet, Active(ch[p]), NEW e, NEW n, Active(e),
         Own(p), ch'[p] = e, mon'[p] = n, disk'[p] = disk[p], Txs(mon[p]) \subseteq Txs(n),
         \A w \in n.txs : w \in mon[p].txs \/ w.type \notin Lasting \/ w.tx \in Txs(disk[p]),
         Current(e) = Current(ch[p]) \/ (Current(e) \in Txs(disk[p]) /\ e.s.st \notin Waits),
         ch[p].s.st = "RenewConfirmed" \/ e.s.st = "RenewFinalized" => e.s = ch[p].s,
         chain.tx = NoTx /\ e.s.st \in {"SettledAccepted", "SettledConfirmed"} => e.s.tx \in Txs(n)
  PROVE  Alert(p)
<1>1. Guards(ch[p], mon[p], disk[p], chain.tx)
  BY DEF Wary, GuardInv
<1>2. \A w \in n.txs : w.type \in Lasting => w.tx \in Txs(disk[p])
  BY <1>1 DEF Guards
<1>3. Guards(e, n, disk[p], chain.tx) /\ Follows(ch[p], mon[p], e, n, chain.tx)
  BY <1>1, <1>2, GuardsKept
<1> QED BY <1>3 DEF Wary, Quiet, Alert, Works

\* One that stores it.
LEMMA StoreAlert ==
  ASSUME NEW p, Wary(p), Quiet, Active(ch[p]), NEW e, NEW n, Active(e),
         Own(p), ch'[p] = e, mon'[p] = n, disk'[p] = n, Txs(mon[p]) \subseteq Txs(n),
         Current(e).kind = "buffer" => Current(e) \in Txs(n),
         e.s.st = "RenewFinalized" => e.s.tx \in Txs(n),
         chain.tx = NoTx => /\ Current(e) \in Txs(n)
                            /\ e.s.st \in {"SettledAccepted", "SettledConfirmed"} => e.s.tx \in Txs(n),
         ch[p].s.st = "RenewConfirmed" => e.s = ch[p].s \/ ch[p].s.tx \in Txs(n),
         e.s.st \in Waits => Current(e) = Current(ch[p])
  PROVE  Alert(p)
<1>1. Guards(e, n, n, chain.tx)
  BY GuardsStored
<1>2. Follows(ch[p], mon[p], e, n, chain.tx)
  BY DEF Follows, Sees
<1> QED BY <1>1, <1>2 DEF Wary, Quiet, Alert, Works

\* The channel stays, and what lasts of the monitor.
LEMMA StayAlert ==
  ASSUME NEW p, Wary(p), Quiet, Own(p), ch'[p] = ch[p], NEW n, mon'[p] = n, disk'[p] = disk[p],
         Txs(mon[p]) \subseteq Txs(n),
         \A w \in n.txs : w \in mon[p].txs \/ w.type \notin Lasting \/ w.tx \in Txs(disk[p])
  PROVE  Alert(p)
<1>1. CASE Active(ch[p])
  <2>1. Guards(ch[p], mon[p], disk[p], chain.tx)
    BY <1>1 DEF Wary, GuardInv
  <2>2. chain.tx = NoTx /\ ch[p].s.st \in {"SettledAccepted", "SettledConfirmed"} => ch[p].s.tx \in Txs(n)
    BY <2>1 DEF Guards
  <2> QED BY <1>1, <2>2, StepAlert
<1>2. CASE ~Active(ch[p])
  BY <1>2, RestAlert DEF Wary, GuardInv
<1> QED BY <1>1, <1>2

LEMMA OpeningAlert ==
  ASSUME Types, NEW p \in Party, Wary(p), chain' = chain, NEW k \in Opening, NEW in, NEW out, NEW l,
         Finish(p, OfKind(p, k), mon[p], l, in, out)
  PROVE  Alert(p)
<1>1. Own(p) /\ ch'[p] = OfKind(p, k)
  BY FinishStored
<1>2. ch'[p].kind = k
  BY <1>1, KindField
<1>3. ~Active(ch'[p])
  BY <1>2, KindsApart
<1> QED BY <1>1, <1>2, <1>3, QuietChain, RestAlert

\* The channel is signed, before there is a funding output.
LEMMA SignAlert ==
  ASSUME Types, NEW p \in Party, OpeningInv, faults = 0, faults' = 0, Wary(p), ch[p].kind \in Opening,
         chain'.tx = chain.tx, NEW e, e = Signs(TRUE) \/ e = Signs(FALSE),
         NEW l, NEW lc, NEW in, NEW out,
         FinishPersist(p, e, add_tx(mon[p], FirstBuffer, "BufferTx"), l, lc, in, out)
  PROVE  Alert(p)
<1> DEFINE n == add_tx(mon[p], FirstBuffer, "BufferTx")
<1>1. Own(p) /\ ch'[p] = e /\ mon'[p] = n /\ disk'[p] = n
  BY PersistStored
<1>2. chain.tx = NoTx
  <2>1. ~Opened(p)
    BY KindsApart DEF Opened
  <2>2. chain.fund = "none"
    BY <2>1 DEF OpeningInv, Party
  <2> QED BY <2>2 DEF Wary
<1>3. e.kind = "Signed" /\ e.s.st = "Established" /\ e.s.tx = FirstBuffer /\ e.ver = 0
  BY SignedFields
<1>4. Active(e) /\ Current(e) = FirstBuffer
  BY <1>3 DEF Active, Current, StableStates
<1>5. FirstBuffer \in Txs(n)
  <2>1. mon[p] \in Monitor
    BY Stored
  <2> QED BY <2>1, AddedWatches
<1> HIDE DEF n
<1>6. Guards(e, n, n, chain.tx)
  BY <1>3, <1>4, <1>5, GuardsStored
<1> QED BY <1>1, <1>2, <1>3, <1>4, <1>6 DEF Alert, Works

LEMMA SetupAlert ==
  ASSUME Types, OpeningInv, faults = 0, faults' = 0, NEW p \in Party, Wary(p)
  PROVE  /\ offer_channel /\ p = "alice" => Alert(p)
         /\ accept_channel(p) \/ reject_channel(p) => Alert(p)
         /\ \A m \in msgs : on_offer_channel(p, m) \/ on_accept_channel(p, m) \/ on_sign_channel(p, m) => Alert(p)
         /\ check_signed_contract(p) => Alert(p)
<1>a. /\ "None" \in Opening /\ "Offered" \in Opening /\ "Accepted" \in Opening /\ "Cancelled" \in Opening
  BY DEF Opening, ChannelKind, ClosedKinds
<1>b. ~Fault
  BY PersistStored
<1>1. offer_channel /\ p = "alice" => Alert(p)
  BY <1>a, OpeningAlert DEF offer_channel, channel_offered
<1>2. accept_channel(p) => Alert(p)
  BY <1>a, OpeningAlert DEF accept_channel, accept_channel_offer
<1>3. reject_channel(p) => Alert(p)
  BY <1>a, OpeningAlert DEF reject_channel
<1>4. ASSUME NEW m \in msgs, on_offer_channel(p, m) PROVE Alert(p)
  BY <1>4, <1>a, OpeningAlert DEF on_offer_channel, channel_offered
<1>5. ASSUME NEW m \in msgs, on_accept_channel(p, m) PROVE Alert(p)
  <2>1. verify_and_sign_accepted_channel = Signs(TRUE)
    BY DEF verify_and_sign_accepted_channel, Signs
  <2>2. /\ FinishPersist(p, verify_and_sign_accepted_channel, add_tx(mon[p], FirstBuffer, "BufferTx"),
                         live[p], live[p], m, Out("SignChannel", p, FirstBuffer, 0))
        /\ UNCHANGED chain /\ ch[p].kind = "Offered"
    BY <1>5, <1>b DEF on_accept_channel, Refuse
  <2> QED BY <1>a, <2>1, <2>2, SignAlert
<1>6. ASSUME NEW m \in msgs, on_sign_channel(p, m) PROVE Alert(p)
  <2>1. verify_signed_channel = Signs(FALSE)
    BY DEF verify_signed_channel, Signs
  <2>2. /\ chain' = [chain EXCEPT !.fund = IF @ = "none" THEN "mempool" ELSE @]
        /\ FinishPersist(p, verify_signed_channel, add_tx(mon[p], FirstBuffer, "BufferTx"),
                         live[p], live[p], m, {})
        /\ ch[p].kind = "Accepted"
    BY <1>6, <1>b DEF on_sign_channel, Refuse, SendThenCrash
  <2>3. chain'.tx = chain.tx
    BY <2>2, SameChain DEF Unspent
  <2> QED BY <1>a, <2>1, <2>2, <2>3, SignAlert
<1>7. check_signed_contract(p) => Alert(p)
  <2> SUFFICES ASSUME check_signed_contract(p) PROVE Alert(p)
    OBVIOUS
  <2>1. Upsert(p, ch[p], mon[p], live[p] \union {0}) /\ disk' = disk /\ chain' = chain
    BY DEF check_signed_contract
  <2>2. Own(p) /\ ch'[p] = ch[p] /\ mon'[p] = mon[p] /\ disk'[p] = disk[p]
    BY <2>1, UpsertStores
  <2> QED BY <2>1, <2>2, QuietChain, StayAlert
<1> QED BY <1>1, <1>2, <1>3, <1>4, <1>5, <1>6, <1>7

\* An update begins.
LEMMA SwapAlert ==
  ASSUME Types, NEW p \in Party, Wary(p), chain' = chain, ch[p].kind = "Signed", ch[p].s.st \in StableStates,
         NEW s, s.st \in {"SettledOffered", "SettledReceived", "RenewOffered"},
         NEW l, NEW in, NEW out, Finish(p, Swap(ch[p], s), mon[p], l, in, out)
  PROVE  Alert(p)
<1> DEFINE c == ch[p]
           e == Swap(c, s)
<1>1. e.kind = "Signed" /\ e.s = s /\ e.rb = c.s
  BY Stored, SwapFields DEF Same
<1>2. Own(p) /\ ch'[p] = e /\ mon'[p] = mon[p] /\ disk'[p] = disk[p]
  BY FinishStored
<1> HIDE DEF e
<1>3. s.st \in Updating /\ s.st \notin StableStates /\ s.st # "RenewFinalized" /\ c.s.st # "RenewConfirmed"
  BY Stages DEF Waits, HasConfirmed, StableStates
<1>4. Active(c) /\ Active(e) /\ Current(e) = Current(c)
  BY <1>1, <1>3 DEF Active, Current
<1> QED BY <1>1, <1>2, <1>3, <1>4, QuietChain, StepAlert

\* It is withdrawn.
LEMMA BackAlert ==
  ASSUME Types, NEW p \in Party, Wary(p), StateInv(p), chain' = chain, ch[p].kind = "Signed",
         ch[p].s.st \in {"SettledOffered", "SettledReceived", "RenewOffered"},
         NEW l, NEW in, NEW out, Finish(p, RollBack(ch[p]), mon[p], l, in, out)
  PROVE  Alert(p)
<1> DEFINE c == ch[p]
           e == RollBack(c)
<1>1. e.kind = "Signed" /\ e.s = c.rb
  BY Stored, RollBackFields DEF Same
<1>2. Own(p) /\ ch'[p] = e /\ mon'[p] = mon[p] /\ disk'[p] = disk[p]
  BY FinishStored
<1> HIDE DEF e
<1>3. c.s.st \in Updating /\ c.s.st \notin StableStates /\ c.s.st # "RenewConfirmed"
  BY Stages DEF Waits, HasConfirmed
<1>4. c.rb.st \in StableStates
  BY <1>3 DEF StateInv, Replaces
<1>5. Active(c) /\ Active(e) /\ Current(e) = Current(c)
  BY <1>1, <1>3, <1>4 DEF Active, Current
<1>6. e.s.st \notin {"RenewFinalized", "SettledAccepted", "SettledConfirmed"}
  BY <1>1, <1>4 DEF StableStates
<1> QED BY <1>1, <1>2, <1>3, <1>5, <1>6, QuietChain, StepAlert

\* It goes on: a settlement that was accepted is watched.
LEMMA SetAlert ==
  ASSUME Types, NEW p \in Party, Wary(p), chain' = chain, ch[p].kind = "Signed", ch[p].s.st \in Updating,
         ch[p].s.st # "RenewConfirmed", NEW s, s.st \in Updating,
         NEW n, n = mon[p] \/ n = add_tx(mon[p], s.tx, "SettleTx"),
         s.st \in {"SettledAccepted", "SettledConfirmed"} => n = add_tx(mon[p], s.tx, "SettleTx"),
         NEW l, NEW in, NEW out, Finish(p, [ch[p] EXCEPT !.s = s], n, l, in, out)
  PROVE  Alert(p)
<1> DEFINE c == ch[p]
           e == [c EXCEPT !.s = s]
           x == add_tx(mon[p], s.tx, "SettleTx")
<1>1. e.kind = "Signed" /\ e.s = s /\ e.rb = c.rb
  BY Stored, SetFields DEF Same
<1>2. Own(p) /\ ch'[p] = e /\ mon'[p] = n /\ disk'[p] = disk[p]
  BY FinishStored
<1> HIDE DEF e
<1>3. s.st \notin StableStates /\ c.s.st \notin StableStates /\ s.st # "RenewFinalized"
  BY Stages DEF Updating
<1>4. Active(c) /\ Active(e) /\ Current(e) = Current(c)
  BY <1>1, <1>3 DEF Active, Current
<1>5. /\ Txs(x) = Txs(mon[p]) \union {s.tx}
      /\ \A w \in x.txs : w.type = "SettleTx" \/ w \in mon[p].txs
  BY Stored, AddedWatches
<1> HIDE DEF x
<1>6. /\ Txs(mon[p]) \subseteq Txs(n)
      /\ s.st \in {"SettledAccepted", "SettledConfirmed"} => s.tx \in Txs(n)
      /\ \A w \in n.txs : w \in mon[p].txs \/ w.type \notin Lasting
  BY <1>5 DEF Lasting, x
<1> QED BY <1>1, <1>2, <1>3, <1>4, <1>6, QuietChain, StepAlert

\* A settlement ends, or its contract is not Confirmed.
LEMMA SettledAlert ==
  ASSUME Types, faults' = 0, NEW p \in Party, Wary(p), StateInv(p), ch[p].kind = "Signed",
         ch[p].s.st \in {"SettledAccepted", "SettledConfirmed"}, NEW m, NEW out,
         FinishSettle(p, settle_channel_finalize(p), m, out)
  PROVE  Alert(p)
<1> DEFINE c == ch[p]
           d == settle_channel_finalize(p)
           u == c.rb.tx
           n == add_revoked(mon[p], u, c.ver, c.rb.offer)
           l == live[p] \ {c.rb.con}
<1>1. c.s.st \in Updating /\ c.s.st \notin StableStates /\ c.s.st # "RenewConfirmed"
  BY DEF Updating, SettleStates, StableStates
<1>2. Active(c) /\ Current(c) = u
  BY <1>1 DEF Active, Current
<1>3. d.kind = "Signed" /\ d.s.st = "Settled" /\ d.s.tx = c.s.tx
  <2>1. d.kind = c.kind /\ d.s = Bare("Settled", c.s.tx)
    BY UpdatedFields
  <2>2. \A t : Bare("Settled", t).st = "Settled" /\ Bare("Settled", t).tx = t
    BY DEF Bare
  <2> HIDE DEF d
  <2> QED BY <2>1, <2>2
<1>4. /\ chain' = chain /\ c.rb.st = "Established"
      /\ FinishPersist(p, d, n, l, l, m, out) \/ Finish(p, c, n, live[p], m, {})
  BY DEF FinishSettle
<1>5. Txs(n) = Txs(mon[p]) \union {u} /\ \A w \in n.txs : w.tx = u \/ w \in mon[p].txs
  BY Stored, RevokedWatches
<1>6. c.s.tx.kind = "settle" /\ u.kind = "buffer"
  BY <1>1, <1>4 DEF StateInv, Fits, Replaces, TxKind, SettleStates
<1>7. Guards(c, mon[p], disk[p], chain.tx)
  BY <1>2 DEF Wary, GuardInv
<1> HIDE DEF d, n, l, u
<1>8. CASE FinishPersist(p, d, n, l, l, m, out)
  <2>1. Own(p) /\ ch'[p] = d /\ mon'[p] = n /\ disk'[p] = n
    BY <1>8, PersistStored
  <2>2. Active(d) /\ Current(d) = c.s.tx /\ d.s.st \notin Waits
    BY <1>3, Stages DEF Active, Current, StableStates
  <2>3. chain.tx = NoTx => c.s.tx \in Txs(n)
    BY <1>5, <1>7 DEF Guards
  <2> QED BY <1>1, <1>2, <1>3, <1>4, <1>5, <1>6, <2>1, <2>2, <2>3, QuietChain, StoreAlert
<1>9. CASE Finish(p, c, n, live[p], m, {})
  <2>1. Own(p) /\ ch'[p] = c /\ mon'[p] = n /\ disk'[p] = disk[p]
    BY <1>9, FinishStored
  <2>2. u \in Txs(disk[p])
    BY <1>2, <1>6, <1>7 DEF Guards
  <2>3. Txs(mon[p]) \subseteq Txs(n) /\ \A w \in n.txs : w \in mon[p].txs \/ w.tx \in Txs(disk[p])
    BY <1>5, <2>2
  <2> QED BY <1>4, <2>1, <2>3, QuietChain, StayAlert
<1> QED BY <1>4, <1>8, <1>9

LEMMA SettleAlert ==
  ASSUME Types, faults' = 0, NEW p \in Party, Wary(p), StateInv(p)
  PROVE  /\ settle_offer(p) \/ accept_settle_offer(p) \/ reject_settle_offer(p) => Alert(p)
         /\ \A m \in msgs : (on_settle_offer(p, m) \/ on_settle_accept(p, m)
                                \/ on_settle_confirm(p, m) \/ on_settle_finalize(p, m)) => Alert(p)
<1> DEFINE c == ch[p]
<1>a. \A st, t : Bare(st, t).st = st /\ Bare(st, t).tx = t
  BY DEF Bare
<1>b. \A st \in SettleStates : st \in Updating /\ st # "RenewConfirmed"
  BY DEF Updating, SettleStates
<1>c. /\ "Established" \in StableStates /\ "SettledReceived" \in SettleStates /\ "SettledOffered" \in SettleStates
      /\ "SettledAccepted" \in SettleStates /\ "SettledConfirmed" \in SettleStates
  BY DEF StableStates, SettleStates
<1>1. settle_offer(p) => Alert(p)
  BY <1>a, <1>c, SwapAlert DEF settle_offer, settle_channel_offer, In
<1>2. accept_settle_offer(p) => Alert(p)
  <2> SUFFICES ASSUME accept_settle_offer(p) PROVE Alert(p)
    OBVIOUS
  <2> DEFINE s == Bare("SettledAccepted", Completed(p))
             n == add_tx(mon[p], s.tx, "SettleTx")
  <2>1. s.st = "SettledAccepted" /\ s.tx = Completed(p)
    BY <1>a
  <2>2. /\ c.kind = "Signed" /\ c.s.st = "SettledReceived" /\ chain' = chain
        /\ Finish(p, [c EXCEPT !.s = s], n, live[p], NoTx, Out("SettleAccept", p, Completed(p), 0))
    BY <2>1 DEF accept_settle_offer, settle_channel_accept, In
  <2> HIDE DEF s
  <2> QED BY <1>b, <1>c, <2>1, <2>2, SetAlert
<1>3. reject_settle_offer(p) => Alert(p)
  BY BackAlert DEF reject_settle_offer, In
<1> SUFFICES ASSUME NEW m \in msgs
             PROVE  (on_settle_offer(p, m) \/ on_settle_accept(p, m)
                        \/ on_settle_confirm(p, m) \/ on_settle_finalize(p, m)) => Alert(p)
  BY <1>1, <1>2, <1>3
<1>4. on_settle_offer(p, m) => Alert(p)
  <2> SUFFICES ASSUME on_settle_offer(p, m) PROVE Alert(p)
    OBVIOUS
  <2>1. CASE Finish(p, c, mon[p], live[p], m, Out("Reject", p, NoTx, 0))
    <3>1. Own(p) /\ ch'[p] = c /\ mon'[p] = mon[p] /\ disk'[p] = disk[p]
      BY <2>1, FinishStored
    <3> QED BY <3>1, QuietChain, StayAlert DEF on_settle_offer
  <2>2. CASE In(p, "Established") /\ Finish(p, settle_channel_received(p, m.tx), mon[p], live[p], m, {})
    BY <1>a, <1>c, <2>2, SwapAlert DEF on_settle_offer, settle_channel_received, In
  <2> QED BY <2>1, <2>2 DEF on_settle_offer
<1>5. on_settle_accept(p, m) => Alert(p)
  <2> SUFFICES ASSUME on_settle_accept(p, m) PROVE Alert(p)
    OBVIOUS
  <2> DEFINE s == Bare("SettledConfirmed", m.tx)
             n == add_tx(mon[p], s.tx, "SettleTx")
  <2>1. s.st = "SettledConfirmed" /\ s.tx = m.tx
    BY <1>a
  <2>2. /\ c.kind = "Signed" /\ c.s.st = "SettledOffered" /\ chain' = chain
        /\ Finish(p, [c EXCEPT !.s = s], n, live[p], m, Out("SettleConfirm", p, m.tx, c.ver))
    BY <2>1 DEF on_settle_accept, settle_channel_confirm, In
  <2> HIDE DEF s
  <2> QED BY <1>b, <1>c, <2>1, <2>2, SetAlert
<1>6. on_settle_confirm(p, m) => Alert(p)
  BY SettledAlert DEF on_settle_confirm, In
<1>7. on_settle_finalize(p, m) => Alert(p)
  <2>1. settle_channel_on_finalize(p) = settle_channel_finalize(p)
    BY DEF settle_channel_on_finalize, settle_channel_finalize
  <2> QED BY <2>1, SettledAlert DEF on_settle_finalize, In
<1> QED BY <1>4, <1>5, <1>6, <1>7

LEMMA ReplacedWatches ==
  ASSUME NEW p, NEW m \in Monitor
  PROVE  Txs(Replaced(p, m)) = Txs(m) \union {ch[p].rb.tx}
<1> DEFINE n == Replaced(p, m)
           t == ch[p].rb.tx
           i == ch[p].ver
           b == FALSE
<1>1. n = add_revoked(m, t, i, b)
  BY DEF Replaced
<1> HIDE DEF n, t, i, b
<1>2. Txs(n) = Txs(m) \union {t}
  BY <1>1, RevokedWatches
<1> QED BY <1>2 DEF n, t

LEMMA RenewedFields ==
  ASSUME Types, NEW p \in Party, NEW d, d \in {renew_channel_on_finalize(p), renew_channel_on_revoke(p)}
  PROVE  d.kind = ch[p].kind /\ d.s.st = "Established" /\ d.s.tx = ch[p].s.tx
<1>1. d.kind = ch[p].kind /\ d.s = WithContract("Established", ch[p].s.tx, TRUE)
  BY UpdatedFields
<1>2. \A t : WithContract("Established", t, TRUE).st = "Established" /\ WithContract("Established", t, TRUE).tx = t
  BY DEF WithContract
<1> QED BY <1>1, <1>2

LEMMA RenewAlert ==
  ASSUME Types, MessageInv, faults' = 0, NEW p \in Party, Wary(p), StateInv(p)
  PROVE  /\ renew_offer(p) \/ accept_renew_offer(p) \/ reject_renew_offer(p) => Alert(p)
         /\ \A m \in msgs : (on_renew_offer(p, m) \/ on_renew_accept(p, m) \/ on_renew_confirm(p, m)
                                \/ on_renew_finalize(p, m) \/ on_renew_revoke(p, m) \/ on_reject(p, m)) => Alert(p)
<1> DEFINE c == ch[p]
           u == c.rb.tx
<1>a. \A st, t, b : WithContract(st, t, b).st = st /\ WithContract(st, t, b).tx = t
  BY DEF WithContract
<1>b. \A t, b : Renewal(t, b).st = "RenewOffered"
  BY DEF Renewal, WithContract
<1>c. \A st \in {"RenewOffered", "RenewAccepted", "RenewConfirmed"} : st \in Updating /\ st \notin StableStates
  BY DEF Updating, RenewStates, StableStates
<1>d. "Established" \in StableStates /\ "Settled" \in StableStates /\ mon[p] \in Monitor /\ c.ver \in Idx
  BY Typed DEF StableStates
<1>1. renew_offer(p) => Alert(p)
  <2> SUFFICES ASSUME renew_offer(p) PROVE Alert(p)
    OBVIOUS
  <2> DEFINE s == Renewal(Proposal(p, "buffer"), TRUE)
             o == Out("RenewOffer", p, Proposal(p, "buffer"), 0)
  <2>1. s.st = "RenewOffered"
    BY <1>b
  <2>2. /\ c.kind = "Signed" /\ c.s.st \in StableStates /\ chain' = chain
        /\ Finish(p, Swap(c, s), mon[p], live[p], NoTx, o)
    BY <1>d DEF renew_offer, renew_channel_offer, In
  <2> HIDE DEF s, o
  <2> QED BY <2>1, <2>2, SwapAlert
<1>2. accept_renew_offer(p) => Alert(p)
  <2> SUFFICES ASSUME accept_renew_offer(p) PROVE Alert(p)
    OBVIOUS
  <2> DEFINE s == WithContract("RenewAccepted", Completed(p), FALSE)
             l == live[p] \ {Completed(p).o}
  <2>1. s.st = "RenewAccepted"
    BY <1>a
  <2>2. /\ c.kind = "Signed" /\ c.s.st = "RenewOffered" /\ chain' = chain
        /\ Finish(p, [c EXCEPT !.s = s], mon[p], l, NoTx, Out("RenewAccept", p, Completed(p), 0))
    BY DEF accept_renew_offer, accept_channel_renewal, In
  <2> HIDE DEF s, l
  <2> QED BY <1>c, <2>1, <2>2, SetAlert
<1>3. reject_renew_offer(p) => Alert(p)
  BY BackAlert DEF reject_renew_offer, In
<1> SUFFICES ASSUME NEW m \in msgs
             PROVE  (on_renew_offer(p, m) \/ on_renew_accept(p, m) \/ on_renew_confirm(p, m)
                        \/ on_renew_finalize(p, m) \/ on_renew_revoke(p, m) \/ on_reject(p, m)) => Alert(p)
  BY <1>1, <1>2, <1>3
<1>4. on_renew_offer(p, m) => Alert(p)
  <2> SUFFICES ASSUME on_renew_offer(p, m) PROVE Alert(p)
    OBVIOUS
  <2>1. CASE Finish(p, c, mon[p], live[p], m, Out("Reject", p, NoTx, 0))
    <3>1. Own(p) /\ ch'[p] = c /\ mon'[p] = mon[p] /\ disk'[p] = disk[p]
      BY <2>1, FinishStored
    <3> QED BY <3>1, QuietChain, StayAlert DEF on_renew_offer
  <2>2. CASE /\ In(p, "Established") \/ In(p, "Settled")
             /\ Finish(p, renew_channel_received(p, m.tx), mon[p], live[p], m, {})
    <3> DEFINE s == Renewal(m.tx, FALSE)
    <3>1. s.st = "RenewOffered"
      BY <1>b
    <3>2. /\ c.kind = "Signed" /\ c.s.st \in StableStates /\ chain' = chain
          /\ Finish(p, Swap(c, s), mon[p], live[p], m, {})
      BY <1>d, <2>2 DEF on_renew_offer, renew_channel_received, In
    <3> HIDE DEF s
    <3> QED BY <3>1, <3>2, SwapAlert
  <2> QED BY <2>1, <2>2 DEF on_renew_offer
<1>5. on_renew_accept(p, m) => Alert(p)
  <2> SUFFICES ASSUME on_renew_accept(p, m) PROVE Alert(p)
    OBVIOUS
  <2> DEFINE s == WithContract("RenewConfirmed", m.tx, TRUE)
             l == live[p] \union {m.tx.o}
  <2>1. s.st = "RenewConfirmed"
    BY <1>a
  <2>2. /\ c.kind = "Signed" /\ c.s.st = "RenewOffered" /\ chain' = chain
        /\ Finish(p, [c EXCEPT !.s = s], mon[p], l, m, Out("RenewConfirm", p, m.tx, 0))
    BY DEF on_renew_accept, verify_renew_accept_and_confirm, In
  <2> HIDE DEF s, l
  <2> QED BY <1>c, <2>1, <2>2, SetAlert
\* Both the new buffer and the old one are watched from now on.
<1>6. on_renew_confirm(p, m) => Alert(p)
  <2> SUFFICES ASSUME on_renew_confirm(p, m) PROVE Alert(p)
    OBVIOUS
  <2> DEFINE d == verify_renew_confirm_and_finalize(p, m.tx)
             k == live[p] \union {m.tx.o}
             x == add_tx(mon[p], m.tx, "BufferTx")
             n == Replaced(p, x)
  <2>1. /\ c.kind = "Signed" /\ c.s.st = "RenewAccepted" /\ m.tx = c.s.tx /\ chain' = chain
        /\ FinishPersist(p, d, n, k \ {c.rb.con}, k, m, Out("RenewFinalize", p, m.tx, c.ver))
    BY DEF on_renew_confirm, In
  <2>2. d.kind = "Signed" /\ d.s.st = "RenewFinalized" /\ d.s.tx = c.s.tx /\ d.rb = c.rb
    BY <2>1, FinalizedFields
  <2>3. m.tx \in Tx
    BY <1>c, <2>1 DEF StateInv, Fits
  <2>4. x \in Monitor /\ Txs(x) = Txs(mon[p]) \union {m.tx}
    BY <1>d, <2>3, MonitorTypes, Typed, AddedWatches DEF TxType
  <2> HIDE DEF d, k, x
  <2>6. Txs(n) = Txs(x) \union {u}
    BY <2>4, ReplacedWatches
  <2> HIDE DEF n
  <2>7. Active(c) /\ Current(c) = u /\ Active(d) /\ Current(d) = u
    BY <1>c, <2>1, <2>2 DEF Active, Current, StableStates
  <2>8. Own(p) /\ ch'[p] = d /\ mon'[p] = n /\ disk'[p] = n
    BY <2>1, PersistStored
  <2> QED BY <2>1, <2>2, <2>4, <2>6, <2>7, <2>8, QuietChain, StoreAlert
<1>7. on_renew_finalize(p, m) => Alert(p)
  <2> SUFFICES ASSUME on_renew_finalize(p, m) PROVE Alert(p)
    OBVIOUS
  <2> DEFINE d == renew_channel_on_finalize(p)
             x == Replaced(p, mon[p])
             n == add_tx(x, m.tx, "BufferTx")
  <2>1. /\ c.kind = "Signed" /\ c.s.st = "RenewConfirmed" /\ m.tx = c.s.tx /\ chain' = chain
        /\ FinishPersist(p, d, n, live[p] \ {c.rb.con}, live[p], m, Out("RenewRevoke", p, NoTx, c.ver))
    BY DEF on_renew_finalize, In
  <2>2. d.kind = "Signed" /\ d.s.st = "Established" /\ d.s.tx = c.s.tx
    BY <2>1, RenewedFields
  <2>3. u \in Tx
    BY <1>c, <2>1 DEF StateInv, Replaces
  <2>4. x \in Monitor /\ Txs(x) = Txs(mon[p]) \union {u}
    BY <1>d, <2>3, ReplacedWatch, ReplacedWatches
  <2> HIDE DEF d, x
  <2>5. Txs(n) = Txs(x) \union {m.tx}
    BY <2>4, AddedWatches
  <2> HIDE DEF n
  <2>6. Active(c) /\ Active(d) /\ Current(d) = c.s.tx /\ d.s.st \notin Waits
    BY <1>c, <2>1, <2>2, Stages DEF Active, Current, StableStates
  <2>7. Own(p) /\ ch'[p] = d /\ mon'[p] = n /\ disk'[p] = n
    BY <2>1, PersistStored
  <2> QED BY <2>1, <2>2, <2>4, <2>5, <2>6, <2>7, QuietChain, StoreAlert
<1>8. on_renew_revoke(p, m) => Alert(p)
  <2> SUFFICES ASSUME on_renew_revoke(p, m) PROVE Alert(p)
    OBVIOUS
  <2> DEFINE d == renew_channel_on_revoke(p)
  <2>1. /\ c.kind = "Signed" /\ c.s.st = "RenewFinalized" /\ chain' = chain
        /\ Finish(p, d, mon[p], live[p], m, {})
    BY DEF on_renew_revoke, In
  <2>2. d.kind = "Signed" /\ d.s.st = "Established" /\ d.s.tx = c.s.tx
    BY <2>1, RenewedFields
  <2> HIDE DEF d
  <2>3. Active(c) /\ Active(d) /\ Current(d) = c.s.tx /\ d.s.st \notin Waits
    BY <2>1, <2>2, Stages DEF Active, Current, StableStates
  <2>4. c.s.tx \in Txs(disk[p])
    BY <2>1, <2>3 DEF Wary, GuardInv, Guards
  <2>5. Own(p) /\ ch'[p] = d /\ mon'[p] = mon[p] /\ disk'[p] = disk[p]
    BY <2>1, FinishStored
  <2> QED BY <2>1, <2>2, <2>3, <2>4, <2>5, QuietChain, StepAlert
<1>9. on_reject(p, m) => Alert(p)
  <2> SUFFICES ASSUME on_reject(p, m) PROVE Alert(p)
    OBVIOUS
  <2>1. CASE Finish(p, OfKind(p, "Cancelled"), mon[p], live[p], m, {})
    <3>1. "Cancelled" \in Opening
      BY DEF Opening, ChannelKind, ClosedKinds
    <3> QED BY <2>1, <3>1, OpeningAlert DEF on_reject
  <2>2. CASE Rejectable(p) /\ Finish(p, RollBack(c), mon[p], live[p], m, {})
    BY <2>2, BackAlert DEF Rejectable, on_reject, In
  <2> QED BY <2>1, <2>2 DEF on_reject
<1> QED BY <1>4, <1>5, <1>6, <1>7, <1>8, <1>9

\* A party publishes what it can publish, and has left then.
LEMMA PublishAlert ==
  ASSUME Types, NEW p \in Party, Wary(p), ch[p].kind = "Signed", Own(p), ~Active(ch'[p]),
         NEW t \in Tx, CanSpend(t), chain' = Spent(p, t), Active(ch[p]) => Publishable(ch[p], t)
  PROVE  Alert(p)
<1>1. chain \in Chain /\ t # NoTx
  BY ChannelAssumption DEF Types, TypeOK
<1>2. chain'.tx = t /\ chain'.fund = chain.fund /\ chain.fund # "none"
  BY <1>1 DEF CanSpend, Spent, Chain
<1>3. CASE chain.tx = NoTx
  BY <1>1, <1>2, <1>3, KindsApart DEF Wary, GuardInv, Alert, Leaves
<1>4. CASE chain.tx = t
  BY <1>1, <1>2, <1>4 DEF Alert, Rests
<1> QED BY <1>3, <1>4 DEF CanSpend

\* What a party closes the channel with is what it can publish.
LEMMA ClosablePublishes ==
  ASSUME Types, NEW p \in Party, StateInv(p), ch[p].kind = "Signed", ~In(p, "CollaborativeCloseOffered")
  PROVE  Closable(p).s.st \in Direct /\ (Active(ch[p]) => Publishable(ch[p], Closable(p).s.tx))
<1> DEFINE c == ch[p]
<1>1. CASE c.s.st \in Direct
  <2>1. Closable(p) = c
    BY <1>1, ClosableFields
  <2>2. Active(c) => c.s.st \in StableStates \/ c.s.st = "RenewFinalized"
    BY <1>1, KindsApart DEF Direct, StableStates
  <2> QED BY <1>1, <2>1, <2>2 DEF Publishable, Current
<1>2. CASE c.s.st \notin Direct
  <2>1. Closable(p).s = c.rb
    BY <1>2, ClosableFields
  <2>2. c.s.st \in Updating
    BY <1>2, Typed DEF StateInv, Fits, State, SignedState, Direct, Updating, SettleStates, RenewStates, In
  <2>3. c.rb.st \in StableStates
    BY <2>2 DEF StateInv, Replaces
  <2>4. c.s.st \notin StableStates
    BY <1>2 DEF Direct, StableStates
  <2> QED BY <2>1, <2>3, <2>4 DEF Publishable, Current, Direct, StableStates
<1> QED BY <1>1, <1>2

LEMMA ForceCloseAlert ==
  ASSUME Types, faults' = 0, NEW p \in Party, Wary(p), StateInv(p), ch[p].kind = "Signed",
         ~In(p, "CollaborativeCloseOffered"), force_close_channel_internal(p)
  PROVE  Alert(p)
<1> DEFINE c == ch[p]
           e == Closable(p)
           t == e.s.tx
<1>1. e \in Channel /\ e.s.st \in Direct /\ (Active(c) => Publishable(c, t))
  BY ClosableFields, ClosablePublishes
<1>a. ~Fault
  BY PersistStored
<1>2. CASE initiate_unilateral_close_established_channel(p, e)
  <2> DEFINE d == initiate_unilateral_close(e)
             m == remove_tx(mon[p], t)
  <2>1. /\ e.s.st \in {"Established", "RenewFinalized"} /\ CanSpend(t) /\ chain' = Spent(p, t)
        /\ FinishPersist(p, d, m, live[p], live[p], NoTx, {})
    BY <1>2, <1>a DEF initiate_unilateral_close_established_channel, SendThenCrash
  <2>2. t \in Tx
    BY <2>1, ClosableFits
  <2>3. d.s.st = "Closing"
    BY <1>1, ForceCloseFields
  <2> HIDE DEF d, m, e, t
  <2>4. Own(p) /\ ch'[p] = d
    BY <2>1, PersistStored
  <2>5. ~Active(ch'[p])
    BY <2>3, <2>4, KindsApart
  <2> QED BY <1>1, <2>1, <2>2, <2>4, <2>5, PublishAlert
<1>3. CASE close_settled_channel(p, e)
  <2> DEFINE d == [e EXCEPT !.kind = "Closed"]
             m == cleanup_channel(mon[p])
  <2>1. /\ e.s.st = "Settled" /\ CanSpend(t) /\ chain' = Spent(p, t)
        /\ Finish(p, d, m, live[p], NoTx, {})
    BY <1>3, <1>a DEF close_settled_channel, SendThenCrash
  <2>2. t \in Tx
    BY <2>1, ClosableFits
  <2>3. d.kind = "Closed"
    BY <1>1 DEF Channel
  <2> HIDE DEF d, m, e, t
  <2>4. Own(p) /\ ch'[p] = d
    BY <2>1, FinishStored
  <2>5. ~Active(ch'[p])
    BY <2>3, <2>4, KindsApart
  <2> QED BY <1>1, <2>1, <2>2, <2>4, <2>5, PublishAlert
<1>4. ~(e.s.st \notin Direct /\ Panic(p, "rollback state"))
  BY <1>1
<1> QED BY <1>2, <1>3, <1>4 DEF force_close_channel_internal

\* The monitor is read again after a panic.
LEMMA PanicAlert ==
  ASSUME Types, NEW p \in Party, Wary(p), ReasonInv(p), NEW w \in mon[p].txs, w.hit, w.type \in Lasting,
         NEW what, Panic(p, what)
  PROVE  Alert(p)
<1> DEFINE c == ch[p]
           k == disk[p]
<1>1. Own(p) /\ ch'[p] = c /\ mon'[p] = k /\ disk'[p] = k /\ chain' = chain
  <2>1. Upsert(p, c, k, live[p]) /\ disk' = disk /\ chain' = chain
    BY DEF Panic
  <2> QED BY <2>1, UpsertStores
<1>2. w.tx = chain.tx /\ chain.tx # NoTx
  BY HitFits
<1>3. CASE Active(c)
  <2>1. Guards(c, mon[p], k, chain.tx) /\ chain.tx \in Txs(k)
    BY <1>2, <1>3 DEF Wary, GuardInv, Guards
  <2>2. Guards(c, k, k, chain.tx)
    BY <1>2, <2>1, GuardsStored DEF Guards
  <2>3. Follows(c, mon[p], c, k, chain.tx)
    BY <1>2, <2>1 DEF Follows, Sees
  <2> QED BY <1>1, <1>3, <2>2, <2>3 DEF Alert, Works, Wary
<1>4. CASE ~Active(c)
  BY <1>1, <1>2, <1>4, QuietChain, RestAlert
<1> QED BY <1>3, <1>4

\* The channel is closed for what is on the chain.
LEMMA EndAlert ==
  ASSUME Types, faults' = 0, NEW p \in Party, Wary(p), chain.tx # NoTx,
         chain'.tx = chain.tx, chain'.fund = chain.fund, NEW e, ~Active(e),
         NEW m, NEW l, NEW lc, NEW in, NEW out, FinishPersist(p, e, m, l, lc, in, out) \/ Finish(p, e, m, l, in, out)
  PROVE  Alert(p)
<1>1. Own(p) /\ ch'[p] = e
  BY PersistStored, FinishStored
<1> QED BY <1>1 DEF Alert, Rests, Wary

LEMMA WatchedAlert ==
  ASSUME Types, faults' = 0, NEW p \in Party, Wary(p), ReasonInv(p), process_watched_txs(p)
  PROVE  Alert(p)
<1> DEFINE c == ch[p]
           clean == cleanup_channel(mon[p])
<1>a. c \in Channel /\ chain \in Chain /\ ~Fault
  BY Typed, PersistStored
<1>b. \A k \in ClosedKinds : ~Active(OfKind(p, k))
  BY KindField, KindsApart DEF Active
<1>c. /\ "Closed" \in ClosedKinds /\ "CounterClosed" \in ClosedKinds /\ "ClosedPunished" \in ClosedKinds
      /\ "CollaborativelyClosed" \in ClosedKinds
  BY DEF ClosedKinds
<1>d. ASSUME NEW x, chain' = [chain EXCEPT !.next = x] \/ chain' = chain
      PROVE  chain'.tx = chain.tx /\ chain'.fund = chain.fund
  BY <1>a, <1>d DEF Chain
<1>1. ASSUME NEW w \in mon[p].txs, w.hit, OnBufferTx(p, w) PROVE Alert(p)
  <2>1. CASE Panic(p, "contract id")
    BY <1>1, <2>1, PanicAlert DEF OnBufferTx, Lasting
  <2> DEFINE s == [c.s EXCEPT !.st = "Closing", !.tx = w.tx, !.offer = FALSE]
             d == Swap(c, s)
  <2>2. CASE FinishPersist(p, d, mon[p], live[p], live[p], NoTx, {}) /\ chain' = chain
    <3>1. s.st = "Closing"
      BY Typed DEF State
    <3> HIDE DEF s
    <3>2. d.s.st = "Closing"
      BY <1>a, <3>1, SwapFields
    <3> HIDE DEF d
    <3>3. ~Active(d) /\ chain.tx # NoTx
      BY <1>1, <3>2, KindsApart, HitFits
    <3> QED BY <1>d, <2>2, <3>3, EndAlert
  <2> QED BY <1>1, <2>1, <2>2 DEF OnBufferTx
<1>2. ASSUME NEW w \in mon[p].txs, w.hit, OnRevoked(p, w) PROVE Alert(p)
  <2>1. CASE Panic(p, "per update secret")
    BY <1>2, <2>1, PanicAlert DEF OnRevoked, Lasting
  <2>2. CASE /\ chain' = [chain EXCEPT !.next = [w.tx EXCEPT !.kind = "punish"]]
             /\ FinishPersist(p, OfKind(p, "ClosedPunished"), clean, live[p], live[p], NoTx, {})
    <3>1. chain.tx # NoTx /\ ~Active(OfKind(p, "ClosedPunished"))
      BY <1>2, <1>b, <1>c, HitFits
    <3> QED BY <1>d, <2>2, <3>1, EndAlert
  <2> QED BY <1>a, <1>2, <2>1, <2>2 DEF OnRevoked, SendThenCrash
<1>3. ASSUME NEW w \in mon[p].txs, w.hit, OnCollaborativeClose(p, w) PROVE Alert(p)
  <2> DEFINE l == ContractClosed(p)
  <2>1. FinishPersist(p, OfKind(p, "CollaborativelyClosed"), clean, l, l, NoTx, {}) /\ chain' = chain
    BY <1>a, <1>3 DEF OnCollaborativeClose
  <2>2. chain.tx # NoTx /\ ~Active(OfKind(p, "CollaborativelyClosed"))
    BY <1>3, <1>b, <1>c, HitFits
  <2> QED BY <1>d, <2>1, <2>2, EndAlert
<1>4. ASSUME NEW w \in mon[p].txs, w.hit, OnSettleTx(p, w) PROVE Alert(p)
  <2>1. FinishPersist(p, OfKind(p, "CounterClosed"), clean, live[p], live[p], NoTx, {}) /\ chain' = chain
    BY <1>4 DEF OnSettleTx
  <2>2. chain.tx # NoTx /\ ~Active(OfKind(p, "CounterClosed"))
    BY <1>4, <1>b, <1>c, HitFits
  <2> QED BY <1>d, <2>1, <2>2, EndAlert
<1>5. ASSUME OnCet(p) PROVE Alert(p)
  <2> DEFINE k == IF In(p, "Closing") /\ ~c.s.offer THEN "CounterClosed" ELSE "Closed"
             l == live[p] \ {c.s.con}
  <2>1. FinishPersist(p, OfKind(p, k), clean, l, l, NoTx, {}) /\ chain' = chain /\ \E w \in mon[p].txos : w.hit
    BY <1>5 DEF OnCet
  <2>2. k \in ClosedKinds
    BY <1>c
  <2> HIDE DEF k, l
  <2>3. chain.tx # NoTx /\ ~Active(OfKind(p, k))
    BY <1>b, <2>1, <2>2, HitFits
  <2> QED BY <1>d, <2>1, <2>3, EndAlert
<1> QED BY <1>1, <1>2, <1>3, <1>4, <1>5 DEF process_watched_txs

LEMMA PeriodicAlert ==
  ASSUME Types, faults' = 0, NEW p \in Party, Wary(p), StateInv(p)
  PROVE  /\ periodic_chain_monitor(p) \/ check_for_watched_tx(p) \/ Crash(p) => Alert(p)
         /\ try_finalize_closing_established_channel(p) => Alert(p)
<1> DEFINE c == ch[p]
<1>a. /\ mon \in [Party -> Monitor] /\ disk \in [Party -> Monitor] /\ mon[p] \in Monitor /\ chain \in Chain
      /\ ~Fault
  BY PersistStored DEF Types, TypeOK
<1>1. periodic_chain_monitor(p) => Alert(p)
  <2> SUFFICES ASSUME periodic_chain_monitor(p) PROVE Alert(p)
    OBVIOUS
  <2> DEFINE n == process_block(mon[p])
  <2>1. mon' = [mon EXCEPT ![p] = n] /\ ch' = ch /\ disk' = disk /\ chain' = chain
    BY DEF periodic_chain_monitor
  <2>2. Txs(n) = Txs(mon[p]) /\ \A w \in n.txs : \E v \in mon[p].txs : w.tx = v.tx /\ w.type = v.type
    BY <1>a, BlockWatches
  <2> HIDE DEF n
  <2>3. Own(p) /\ ch'[p] = c /\ mon'[p] = n /\ disk'[p] = disk[p]
    BY <1>a, <2>1 DEF Own
  <2>4. CASE Active(c)
    <3>1. \A w \in n.txs : w.type \in Lasting => w.tx \in Txs(disk[p])
      BY <2>2, <2>4 DEF Wary, GuardInv, Guards
    <3> QED BY <2>1, <2>2, <2>3, <3>1, QuietChain, StayAlert
  <2>5. CASE ~Active(c)
    BY <2>1, <2>3, <2>5, QuietChain, RestAlert DEF Wary, GuardInv
  <2> QED BY <2>4, <2>5
<1>2. check_for_watched_tx(p) => Alert(p)
  <2> SUFFICES ASSUME check_for_watched_tx(p) PROVE Alert(p)
    OBVIOUS
  <2> DEFINE n == mon[p]
  <2>1. disk' = [disk EXCEPT ![p] = n] /\ ch' = ch /\ mon' = mon /\ chain' = chain
    BY DEF check_for_watched_tx
  <2>2. Own(p) /\ ch'[p] = c /\ mon'[p] = n /\ disk'[p] = n
    BY <1>a, <2>1 DEF Own
  <2>3. CASE Active(c)
    <3>1. Guards(c, n, disk[p], chain.tx)
      BY <2>3 DEF Wary, GuardInv
    <3>2. Guards(c, n, n, chain.tx)
      BY <3>1, GuardsStored DEF Guards
    <3>3. Follows(c, n, c, n, chain.tx)
      BY DEF Follows
    <3> QED BY <2>1, <2>2, <2>3, <3>2, <3>3 DEF Alert, Works, Wary
  <2>4. CASE ~Active(c)
    BY <2>1, <2>2, <2>4, QuietChain, RestAlert DEF Wary, GuardInv
  <2> QED BY <2>3, <2>4
<1>3. ~Crash(p)
  BY <1>a DEF Crash
<1>4. try_finalize_closing_established_channel(p) => Alert(p)
  <2> SUFFICES ASSUME try_finalize_closing_established_channel(p) PROVE Alert(p)
    OBVIOUS
  <2> DEFINE k == IF c.s.offer THEN "Closed" ELSE "CounterClosed"
             l == live[p] \ {c.s.con}
             m == cleanup_channel(mon[p])
  <2>1. /\ In(p, "Closing") /\ chain.tx = c.s.tx
        /\ chain' = [chain EXCEPT !.next = [c.s.tx EXCEPT !.kind = "cet"]]
        /\ Finish(p, OfKind(p, k), m, l, NoTx, {})
    BY <1>a DEF try_finalize_closing_established_channel, SendThenCrash
  <2>2. chain'.tx = chain.tx /\ chain'.fund = chain.fund
    BY <1>a, <2>1 DEF Chain
  <2>3. chain.tx # NoTx
    BY <2>1, ChannelAssumption DEF In, StateInv, Fits
  <2>4. k \in ClosedKinds
    BY DEF ClosedKinds
  <2> HIDE DEF k, l, m
  <2>5. ~Active(OfKind(p, k))
    BY <2>4, KindField, KindsApart
  <2> QED BY <2>1, <2>2, <2>3, <2>5, EndAlert
<1> QED BY <1>1, <1>2, <1>3, <1>4

\* Applications that close nothing collaboratively.
LEMMA ClosingAlert ==
  ASSUME Types, UseInv, faults' = 0, "collaborative" \notin scenario.ops, NEW p \in Party, Wary(p), StateInv(p)
  PROVE  /\ ~offer_collaborative_close(p) /\ ~accept_collaborative_close(p)
         /\ \A m \in msgs : ~on_collaborative_close_offer(p, m)
         /\ force_close_channel(p) \/ check_for_timed_out_channels(p) => Alert(p)
<1>1. (\A m \in msgs : m.type # "CollaborativeCloseOffer") /\ ~In(p, "CollaborativeCloseOffered")
  BY DEF UseInv
<1>2. /\ ~offer_collaborative_close(p) /\ ~accept_collaborative_close(p)
      /\ \A m \in msgs : ~on_collaborative_close_offer(p, m)
  BY <1>1 DEF offer_collaborative_close, accept_collaborative_close, accept_collaborative_close_offer,
              on_collaborative_close_offer
<1>3. force_close_channel(p) \/ check_for_timed_out_channels(p) => Alert(p)
  BY <1>1, ForceCloseAlert DEF force_close_channel, check_for_timed_out_channels
<1> QED BY <1>2, <1>3

LEMMA NextAlert ==
  ASSUME ReasonsInv, faults = 0, faults' = 0, "collaborative" \notin scenario.ops, Next, \A p \in Party : Wary(p)
  PROVE  Mine \/ OracleAttests \/ \E p \in Party : Alert(p)
<1>1. /\ Types /\ MessageInv /\ UseInv /\ OpeningInv
      /\ \A p \in Party : StateInv(p) /\ ReasonInv(p)
  BY DEF ReasonsInv, AgreementInv, ChannelsInv, LocalInv
<1>2. ASSUME NEW p \in Party, Call(p) PROVE Alert(p)
  <2>1. accept_channel(p) \/ reject_channel(p) => Alert(p)
    BY <1>1, SetupAlert
  <2>2. settle_offer(p) \/ accept_settle_offer(p) \/ reject_settle_offer(p) => Alert(p)
    BY <1>1, SettleAlert
  <2>3. renew_offer(p) \/ accept_renew_offer(p) \/ reject_renew_offer(p) => Alert(p)
    BY <1>1, RenewAlert
  <2>4. /\ ~offer_collaborative_close(p) /\ ~accept_collaborative_close(p)
        /\ force_close_channel(p) => Alert(p)
    BY <1>1, ClosingAlert
  <2> QED BY <1>2, <2>1, <2>2, <2>3, <2>4 DEF Call
<1>3. ASSUME NEW p \in Party, Periodic(p) \/ Crash(p) PROVE Alert(p)
  <2>1. check_signed_contract(p) => Alert(p)
    BY <1>1, SetupAlert
  <2>2. check_for_timed_out_channels(p) => Alert(p)
    BY <1>1, ClosingAlert
  <2>3. process_watched_txs(p) => Alert(p)
    BY <1>1, WatchedAlert
  <2>4. /\ periodic_chain_monitor(p) \/ check_for_watched_tx(p) \/ Crash(p) => Alert(p)
        /\ try_finalize_closing_established_channel(p) => Alert(p)
    BY <1>1, PeriodicAlert
  <2> QED BY <1>3, <2>1, <2>2, <2>3, <2>4 DEF Periodic
<1>4. ASSUME NEW p \in Party, NEW m \in msgs, Receive(p, m) PROVE Alert(p)
  <2>1. on_offer_channel(p, m) \/ on_accept_channel(p, m) \/ on_sign_channel(p, m) => Alert(p)
    BY <1>1, SetupAlert
  <2>2. (on_settle_offer(p, m) \/ on_settle_accept(p, m)
            \/ on_settle_confirm(p, m) \/ on_settle_finalize(p, m)) => Alert(p)
    BY <1>1, SettleAlert
  <2>3. (on_renew_offer(p, m) \/ on_renew_accept(p, m) \/ on_renew_confirm(p, m)
            \/ on_renew_finalize(p, m) \/ on_renew_revoke(p, m) \/ on_reject(p, m)) => Alert(p)
    BY <1>1, RenewAlert
  <2>4. ~on_collaborative_close_offer(p, m)
    BY <1>1, ClosingAlert
  <2> QED BY <1>4, <2>1, <2>2, <2>3, <2>4 DEF Receive
<1>5. CASE offer_channel
  BY <1>1, <1>5, SetupAlert, Parties
<1> QED BY <1>2, <1>3, <1>4, <1>5 DEF Next

-----------------------------------------------------------------------------
WatchfulInv == ReasonsInv /\ SightInv

\* What does not concern the channels.
LEMMA ApartSight ==
  ASSUME Apart, \A p \in Party : GuardInv(p) /\ LookInv(p)
  PROVE  \A p \in Party : GuardInv(p)' /\ LookInv(p)'
<1>1. ch' = ch /\ mon' = mon /\ disk' = disk /\ chain'.tx = chain.tx
  BY DEF Apart
<1>2. ASSUME NEW p \in Party PROVE GuardInv(p)'
  BY <1>1 DEF GuardInv
<1>3. ASSUME NEW p \in Party PROVE LookInv(p)'
  BY <1>1 DEF LookInv
<1> QED BY <1>2, <1>3

LEMMA NextOnward ==
  ASSUME ReasonsInv, Next
  PROVE  faults' \in {faults, faults + 1} /\ scenario' = scenario
<1>1. scenario' = scenario
  BY DEF Next
<1>2. Types /\ MessageInv /\ UseInv /\ OpeningInv /\ \A p \in Party : StateInv(p)
  BY DEF ReasonsInv, AgreementInv, ChannelsInv, LocalInv
<1>3. ASSUME NEW p \in Party, Move(p) PROVE faults' \in {faults, faults + 1}
  BY <1>1, <1>2, <1>3, MoveOnward DEF Onward
<1>4. CASE Elsewhere
  BY <1>1, <1>4 DEF Elsewhere
<1> QED BY <1>1, <1>2, <1>3, <1>4, NextMoves

LEMMA NextSight == WatchfulInv /\ [Next]_<<vars, scenario>> => WatchfulInv'
<1> SUFFICES ASSUME WatchfulInv, [Next]_<<vars, scenario>> PROVE WatchfulInv'
  OBVIOUS
<1>1. ReasonsInv /\ ReasonsInv'
  BY NextReasons DEF WatchfulInv
<1>2. Types /\ Types' /\ \A p \in Party : TogetherInv(p)'
  BY <1>1 DEF ReasonsInv, AgreementInv, ChannelsInv, PairInv
<1> SUFFICES ASSUME Clean'
             PROVE  /\ chain'.tx # NoTx => chain'.fund # "none"
                    /\ \A p \in Party : GuardInv(p)' /\ LookInv(p)'
  BY <1>1 DEF WatchfulInv, SightInv
<1>3. scenario' = scenario /\ faults = 0 /\ faults' = 0 /\ "collaborative" \notin scenario.ops
  <2>1. CASE Next
    <3>1. faults' \in {faults, faults + 1} /\ scenario' = scenario
      BY <1>1, <2>1, NextOnward
    <3>2. faults \in Nat
      BY <1>2, Bounded
    <3> QED BY <3>1, <3>2 DEF Clean
  <2>2. CASE UNCHANGED <<vars, scenario>>
    BY <2>2 DEF vars, Clean
  <2> QED BY <2>1, <2>2
<1>4. (chain.tx # NoTx => chain.fund # "none") /\ \A p \in Party : GuardInv(p) /\ LookInv(p) /\ Wary(p)
  BY <1>3 DEF WatchfulInv, SightInv, Clean, Wary
<1>5. CASE \E p \in Party : Alert(p)
  BY <1>2, <1>4, <1>5, AlertKeeps
<1>6. CASE Mine
  <2>1. chain \in Chain
    BY <1>2 DEF Types, TypeOK
  <2>2. chain'.tx = chain.tx /\ (chain'.fund = chain.fund \/ chain'.fund = "confirmed")
    BY <1>6, <2>1 DEF Mine, FundConfirms, MineSpend, MineNext, Chain
  <2>3. Apart
    BY <1>3, <1>6, <2>1 DEF Mine, FundConfirms, MineSpend, MineNext, Apart, Chain
  <2> QED BY <1>4, <2>2, <2>3, ApartSight
<1>7. CASE OracleAttests \/ UNCHANGED <<vars, scenario>>
  <2>1. Apart /\ chain' = chain
    BY <1>3, <1>7 DEF OracleAttests, Apart, vars
  <2> QED BY <1>4, <2>1, ApartSight
<1> QED BY <1>1, <1>3, <1>4, <1>5, <1>6, <1>7, NextAlert

LEMMA InitSight == Init => WatchfulInv
<1> SUFFICES ASSUME Init PROVE SightInv
  BY InitReasons DEF WatchfulInv
<1>1. chain.tx = NoTx
  BY DEF Init
<1>2. ASSUME NEW p \in Party PROVE GuardInv(p) /\ LookInv(p)
  <2>1. ch[p].kind = "None"
    BY <1>2 DEF Init, NoChannel
  <2>2. "None" \in Opening
    BY DEF Opening, ChannelKind, ClosedKinds
  <2> QED BY <2>1, <2>2 DEF GuardInv, LookInv, Active
<1> QED BY <1>1, <1>2 DEF SightInv

\* A party that has not left the channel watches what the other one published, unless
\* it waits for RenewFinalize (on_renew_finalize is what adds the new buffer): whatever
\* is delayed, repeated or refused, as long as nothing crashes and no collaborative
\* close is offered.
THEOREM WatchesWhatIsPublished == Spec => []PublishedIsWatched
<1>1. WatchfulInv => PublishedIsWatched
  <2> SUFFICES ASSUME WatchfulInv, NEW p \in Party, chain.tx # NoTx, faults = 0,
                      "collaborative" \notin scenario.ops,
                      ch[p].kind = "Signed", ~In(p, "Closing"), ~In(p, "RenewConfirmed")
               PROVE  \E w \in mon[p].txs : w.tx = chain.tx
    BY DEF PublishedIsWatched
  <2>1. Types /\ StateInv(p) /\ ~In(p, "CollaborativeCloseOffered")
    BY DEF WatchfulInv, ReasonsInv, AgreementInv, ChannelsInv, LocalInv, UseInv
  <2>2. Active(ch[p])
    BY <2>1, Typed DEF StateInv, Fits, State, SignedState, Active, Updating, StableStates, SettleStates,
                       RenewStates, In
  <2>3. Sees(ch[p], mon[p], chain.tx)
    BY <2>2 DEF WatchfulInv, SightInv, Clean, LookInv
  <2> QED BY <2>3, TxsDef DEF Sees, In
<1>2. Spec => []WatchfulInv
  BY InitSight, NextSight, PTL DEF Spec
<1> QED BY <1>1, <1>2, PTL

=============================================================================
