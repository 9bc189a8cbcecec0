----------------------------- MODULE DlcChannel -----------------------------
(***************************************************************************)
(* One DLC channel between two parties that both run the code              *)
(* (ddk-manager/src/manager.rs, channel_updater.rs, chain_monitor.rs):     *)
(* setup, settling and renewing the contract in the channel, collaborative *)
(* close, forced close, time-outs, and the chain monitor through which a   *)
(* party learns what the other one published.                              *)
(*                                                                         *)
(* update_idx counts down from INITIAL_UPDATE_NUMBER; ver counts the       *)
(* updates made, so that index and version k stand for each other.  The    *)
(* per-update point, its secret and the contract of version k are named k. *)
(* A transaction is named by its kind, the party that proposed the state   *)
(* it belongs to, and the points of the proposing (o) and of the accepting *)
(* (a) party in it.  Two parties that disagree about a point build         *)
(* different transactions, and a signature for the one is refused for the  *)
(* other.                                                                  *)
(*                                                                         *)
(* A handler is one step.  What it stores is durable, and a crash may come *)
(* between two of its writes: ch is the stored channel, disk the stored    *)
(* chain monitor, mon the monitor in memory.  The storage is sled's;       *)
(* Postgres refuses channels.                                              *)
(***************************************************************************)
EXTENDS Naturals

CONSTANTS NoTx,          \* "no transaction", "no contract"
          Scenarios,     \* the bounded uses of a channel that are explored
          MaxUpdates     \* bound on the updates of a channel in all of them

Party == {"alice", "bob"}  \* alice offers the channel
Other(p) == IF p = "alice" THEN "bob" ELSE "alice"

\* A scenario: what applications do besides setting up a channel, and the
\* bounds on its version, on repeated deliveries, and on crashes and I/O errors.
Operation == {"settle", "renew", "collaborative", "force", "timeout", "reject"}
Bounds(s) == {s.updates, s.duplicates, s.faults}
Idx == 0..MaxUpdates

Kind == {"buffer", "settle", "close", "cet", "punish"}
Tx == [kind : Kind, by : Party, o : Idx, a : Idx]

ASSUME ChannelAssumption ==
    /\ MaxUpdates \in Nat
    /\ \A s \in Scenarios : /\ Bounds(s) \subseteq Nat /\ s.updates <= MaxUpdates
                            /\ s.ops \subseteq Operation
    /\ NoTx \notin Tx /\ NoTx \notin Nat

VARIABLES ch,       \* ch[p]: the stored channel
          mon,      \* mon[p]: the chain monitor in memory
          disk,     \* disk[p]: the stored chain monitor
          signed,   \* parties whose first contract is still stored as Signed
          live,     \* live[p]: the contracts of the channel stored as Confirmed
          msgs,     \* messages on their way
          revealed, \* revealed[p]: the messages in which p gave a secret away
          chain,    \* the funding output and what spends it
          attested, \* the oracles attested the events
          panics,   \* calls of expect() that failed
          dups, faults,
          scenario  \* the scenario of the behaviour, fixed by Init

vars == <<ch, mon, disk, signed, live, msgs, revealed, chain, attested, panics, dups, faults>>

-----------------------------------------------------------------------------
(***************************************************************************)
(* The channel.  A state of a signed channel has the transaction it can be *)
(* closed with or that is being agreed upon, is_offer (for Closing:        *)
(* is_initiator), and the contract get_contract_id returns.                *)
(***************************************************************************)
SettleStates == {"SettledOffered", "SettledReceived", "SettledAccepted", "SettledConfirmed"}
RenewStates == {"RenewOffered", "RenewAccepted", "RenewConfirmed", "RenewFinalized"}
SignedState == {"Established", "Settled", "Closing", "CollaborativeCloseOffered", "NoState"}
               \union SettleStates \union RenewStates
\* A contract is named by its offerer's point, as its id is made of the fund
\* output and the offerer's update_idx; an offered one has its temporary id.
TemporaryId == MaxUpdates + 1
State == [st : SignedState, tx : Tx \union {NoTx}, offer : BOOLEAN,
          con : Idx \union {NoTx, TemporaryId}]
NoState == [st |-> "NoState", tx |-> NoTx, offer |-> FALSE, con |-> NoTx]

ClosedKinds == {"Closed", "CounterClosed", "ClosedPunished", "CollaborativelyClosed"}
ChannelKind == {"None", "Offered", "Accepted", "Signed", "FailedAccept", "FailedSign",
                "Cancelled"} \union ClosedKinds

\* own, ctr: own_per_update_point and counter_per_update_point; prev: the
\* prev_offer_per_update_point of RenewFinalized; secrets: the entries of
\* counter_party_commitment_secrets.
Channel == [kind : ChannelKind, s : State, rb : State, ver : Idx, own : Idx, ctr : Idx,
            prev : Idx, secrets : SUBSET Idx]
NoChannel == [kind |-> "None", s |-> NoState, rb |-> NoState, ver |-> 0, own |-> 0,
              ctr |-> 0, prev |-> 0, secrets |-> {}]

\* States without and with a contract id.
Bare(st, t) == [st |-> st, tx |-> t, offer |-> FALSE, con |-> NoTx]
WithContract(st, t, offer) == [st |-> st, tx |-> t, offer |-> offer, con |-> t.o]

Swap(c, s) == [c EXCEPT !.s = s, !.rb = c.s]      \* std::mem::swap
RollBack(c) == [c EXCEPT !.s = c.rb, !.rb = NoState]
In(p, st) == ch[p].kind = "Signed" /\ ch[p].s.st = st

\* The point of p in a transaction.
Point(p, t) == IF t.by = p THEN t.o ELSE t.a

-----------------------------------------------------------------------------
(***************************************************************************)
(* The chain monitor: watched_tx, watched_txo, and in place of last_height *)
(* how many of the two blocks that matter were processed.                  *)
(***************************************************************************)
TxType == {"Revoked", "BufferTx", "CollaborativeClose", "SettleTx"}
Watch == [tx : Tx, type : TxType, idx : Idx, offer : BOOLEAN, hit : BOOLEAN]
WatchTxo == [tx : Tx, hit : BOOLEAN]
Monitor == [txs : SUBSET Watch, txos : SUBSET WatchTxo, done : 0..2]
NoMonitor == [txs |-> {}, txos |-> {}, done |-> 0]

remove_tx(m, t) == [m EXCEPT !.txs = {w \in @ : w.tx # t}]
cleanup_channel(m) == [m EXCEPT !.txs = {}, !.txos = {}]
add_revoked(m, t, i, offer) ==
    [remove_tx(m, t) EXCEPT !.txs = @ \union
        {[tx |-> t, type |-> "Revoked", idx |-> i, offer |-> offer, hit |-> FALSE]}]
\* Mutant: the output of a buffer transaction is not watched.
add_tx_NoTxo(m, t, type) ==
    [remove_tx(m, t) EXCEPT !.txs = @ \union
        {[tx |-> t, type |-> type, idx |-> 0, offer |-> FALSE, hit |-> FALSE]}]

add_tx(m, t, type) ==
    [remove_tx(m, t) EXCEPT
        !.txs = @ \union {[tx |-> t, type |-> type, idx |-> 0, offer |-> FALSE, hit |-> FALSE]},
        !.txos = IF type = "BufferTx"
                 THEN {w \in @ : w.tx # t} \union {[tx |-> t, hit |-> FALSE]} ELSE @]

-----------------------------------------------------------------------------
(***************************************************************************)
(* The network (external).  tx spends the funding output and was published *)
(* by by; conf is 2 from CET_NSEQUENCE confirmations on; next spends tx.   *)
(***************************************************************************)
Chain == [fund : {"none", "mempool", "confirmed"}, tx : Tx \union {NoTx}, by : Party,
          conf : 0..2, next : Tx \union {NoTx}, nextConf : 0..1]

\* send_transaction of a transaction that spends the funding output.
CanSpend(t) == chain.fund # "none" /\ chain.tx \in {NoTx, t}
Spent(p, t) == IF chain.tx = t THEN chain ELSE [chain EXCEPT !.tx = t, !.by = p]

FundConfirms == /\ chain.fund = "mempool"
                /\ chain' = [chain EXCEPT !.fund = "confirmed"]
MineSpend == /\ chain.fund = "confirmed" /\ chain.tx # NoTx /\ chain.conf < 2
             /\ chain' = [chain EXCEPT !.conf = @ + 1]
MineNext == /\ chain.next # NoTx /\ chain.conf > 0 /\ chain.nextConf = 0
            /\ chain' = [chain EXCEPT !.nextConf = 1]
Attest == ~attested /\ attested' = TRUE

Mine == /\ FundConfirms \/ MineSpend \/ MineNext
        /\ UNCHANGED <<ch, mon, disk, signed, live, msgs, revealed, attested, panics, dups, faults>>
OracleAttests == /\ Attest
                 /\ UNCHANGED <<ch, mon, disk, signed, live, msgs, revealed, chain, panics, dups, faults>>

\* periodic_chain_monitor: every block since the last one processed.
Blocks == IF chain.nextConf > 0 THEN 2 ELSE IF chain.conf > 0 THEN 1 ELSE 0
process_block(m) ==
    [txs |-> {[w EXCEPT !.hit = @ \/ (m.done < 1 /\ Blocks >= 1 /\ w.tx = chain.tx)]
                : w \in m.txs},
     txos |-> {[w EXCEPT !.hit = @ \/ (m.done < 2 /\ Blocks = 2 /\ w.tx = chain.tx)]
                : w \in m.txos},
     done |-> Blocks]
periodic_chain_monitor(p) ==
    /\ mon[p].done < Blocks
    /\ mon' = [mon EXCEPT ![p] = process_block(mon[p])]
    /\ UNCHANGED <<ch, disk, signed, live, msgs, revealed, chain, attested, panics, dups, faults>>

-----------------------------------------------------------------------------
(***************************************************************************)
(* Messages, and how a handler ends.  A message may be delayed for ever    *)
(* (lost), overtaken by others, and repeated.                              *)
(***************************************************************************)
MsgType == {"OfferChannel", "AcceptChannel", "SignChannel", "Reject", "SettleOffer",
            "SettleAccept", "SettleConfirm", "SettleFinalize", "RenewOffer", "RenewAccept",
            "RenewConfirm", "RenewFinalize", "RenewRevoke", "CollaborativeCloseOffer"}
\* tx: the transaction whose points or signature the message carries; sec:
\* the version whose secret it reveals.
Msg == [type : MsgType, to : Party, tx : Tx \union {NoTx}, sec : Idx]
Out(type, p, t, k) == {[type |-> type, to |-> Other(p), tx |-> t, sec |-> k]}
Reveals == {"SettleConfirm", "SettleFinalize", "RenewFinalize", "RenewRevoke"}

Fault == faults < scenario.faults /\ faults' = faults + 1

\* The answer to in (NoTx: the call came from the application) is out.
Reply(p, in, out) ==
    /\ \E again \in BOOLEAN :
        /\ again => in # NoTx /\ dups < scenario.duplicates
        /\ dups' = IF again THEN dups + 1 ELSE dups
        /\ msgs' = (IF again THEN msgs ELSE msgs \ {in}) \union out
    /\ revealed' = [revealed EXCEPT ![p] = @ \union {x \in out : x.type \in Reveals}]

\* upsert_channel with the contracts l stored as Confirmed; the monitor is m.
Upsert(p, c, m, l) == /\ ch' = [ch EXCEPT ![p] = c]
                      /\ mon' = [mon EXCEPT ![p] = m]
                      /\ live' = [live EXCEPT ![p] = l]

Finish(p, c, m, l, in, out) == /\ Upsert(p, c, m, l)
                               /\ Reply(p, in, out)
                               /\ UNCHANGED <<disk, attested, panics, faults>>

\* Mutant: the answer leaves before anything is stored.
FinishPersist_ReplyFirst(p, c, m, l, lc, in, out) ==
    /\ \/ Upsert(p, c, m, l) /\ disk' = [disk EXCEPT ![p] = m] /\ Reply(p, in, out)
          /\ UNCHANGED faults
       \/ Fault /\ Upsert(p, ch[p], disk[p], live[p]) /\ Reply(p, in, out) /\ UNCHANGED disk
    /\ UNCHANGED <<attested, panics>>

\* upsert_channel, then persist_chain_monitor; or a crash in between, after
\* which the contracts lc are Confirmed.
FinishPersist(p, c, m, l, lc, in, out) ==
    /\ \/ Upsert(p, c, m, l) /\ disk' = [disk EXCEPT ![p] = m] /\ Reply(p, in, out)
          /\ UNCHANGED faults
       \/ Fault /\ Upsert(p, c, disk[p], lc) /\ Reply(p, in, {}) /\ UNCHANGED disk
    /\ UNCHANGED <<attested, panics>>

\* send_transaction, then a crash before anything is stored.
SendThenCrash(p, in) == /\ Fault
                        /\ Upsert(p, ch[p], disk[p], live[p])
                        /\ Reply(p, in, {})
                        /\ UNCHANGED <<disk, attested, panics>>

\* expect() fails: the task ends, and the program is started again.
Panic(p, what) == /\ what \notin panics
                  /\ panics' = panics \union {what}
                  /\ Upsert(p, ch[p], disk[p], live[p])
                  /\ UNCHANGED <<disk, signed, msgs, revealed, chain, attested, dups, faults>>

Crash(p) == /\ Fault /\ mon[p] # disk[p]
            /\ Upsert(p, ch[p], disk[p], live[p])
            /\ UNCHANGED <<disk, signed, msgs, revealed, chain, attested, panics, dups>>

-----------------------------------------------------------------------------
(***************************************************************************)
(* Setup.                                                                  *)
(***************************************************************************)
FirstBuffer == [kind |-> "buffer", by |-> "alice", o |-> 0, a |-> 0]
OfKind(p, k) == [ch[p] EXCEPT !.kind = k]
channel_offered(p) == OfKind(p, "Offered")
accept_channel_offer(p) == OfKind(p, "Accepted")
verify_and_sign_accepted_channel ==
    [NoChannel EXCEPT !.kind = "Signed", !.s = WithContract("Established", FirstBuffer, TRUE)]
verify_signed_channel ==
    [NoChannel EXCEPT !.kind = "Signed", !.s = WithContract("Established", FirstBuffer, FALSE)]

offer_channel == /\ ch["alice"].kind = "None"
                 /\ Finish("alice", channel_offered("alice"), mon["alice"], live["alice"], NoTx,
                           Out("OfferChannel", "alice", NoTx, 0))
                 /\ UNCHANGED <<signed, chain>>

on_offer_channel(p, m) == /\ m.type = "OfferChannel" /\ ch[p].kind = "None"
                          /\ Finish(p, channel_offered(p), mon[p], live[p], m, {})
                          /\ UNCHANGED <<signed, chain>>

accept_channel(p) == /\ ch[p].kind = "Offered" /\ p # "alice"
                     /\ Finish(p, accept_channel_offer(p), mon[p], live[p], NoTx,
                               Out("AcceptChannel", p, FirstBuffer, 0))
                     /\ UNCHANGED <<signed, chain>>

reject_channel(p) == /\ ch[p].kind = "Offered" /\ p # "alice" /\ "reject" \in scenario.ops
                     /\ Finish(p, OfKind(p, "Cancelled"), mon[p], live[p], NoTx,
                               Out("Reject", p, NoTx, 0))
                     /\ UNCHANGED <<signed, chain>>

\* The channel is stored as failed when what the message holds is refused.
Refuse(p, m, k) == /\ Fault /\ Upsert(p, OfKind(p, k), mon[p], live[p]) /\ Reply(p, m, {})
                   /\ UNCHANGED <<disk, signed, chain, attested, panics>>

on_accept_channel(p, m) ==
    /\ m.type = "AcceptChannel" /\ ch[p].kind = "Offered"
    /\ \/ /\ FinishPersist(p, verify_and_sign_accepted_channel,
                           add_tx(mon[p], FirstBuffer, "BufferTx"), live[p], live[p], m,
                           Out("SignChannel", p, FirstBuffer, 0))
          /\ signed' = signed \union {p} /\ UNCHANGED chain
       \/ Refuse(p, m, "FailedAccept")

\* The funding transaction is broadcast before the channel is stored.
on_sign_channel(p, m) ==
    /\ m.type = "SignChannel" /\ ch[p].kind = "Accepted"
    /\ \/ /\ chain' = [chain EXCEPT !.fund = IF @ = "none" THEN "mempool" ELSE @]
          /\ \/ /\ FinishPersist(p, verify_signed_channel,
                                 add_tx(mon[p], FirstBuffer, "BufferTx"), live[p], live[p], m, {})
                /\ signed' = signed \union {p}
             \/ SendThenCrash(p, m) /\ UNCHANGED signed
       \/ Refuse(p, m, "FailedSign")

\* check_signed_contract: the contract of the setup becomes Confirmed.
check_signed_contract(p) ==
    /\ p \in signed /\ chain.fund = "confirmed"
    /\ signed' = signed \ {p}
    /\ Upsert(p, ch[p], mon[p], live[p] \union {0})
    /\ UNCHANGED <<disk, msgs, revealed, chain, attested, panics, dups, faults>>

-----------------------------------------------------------------------------
(***************************************************************************)
(* Settling the contract in the channel.  The operators with the names of  *)
(* channel_updater.rs are the channel after the update.                    *)
(***************************************************************************)
\* A proposal of p for the next version, and the transaction it becomes.
Proposal(p, kind) == [kind |-> kind, by |-> p, o |-> ch[p].ver + 1, a |-> 0]
Completed(p) == [ch[p].s.tx EXCEPT !.a = ch[p].ver + 1]

\* The last step of an update for p: the new state, with the points of its
\* transaction and the secret of the version that ends.
Updated(p, s) == [ch[p] EXCEPT !.s = s, !.ver = @ + 1, !.secrets = @ \union {ch[p].ver},
                               !.own = Point(p, s.tx), !.ctr = Point(Other(p), s.tx)]

settle_channel_offer(p) == Swap(ch[p], Bare("SettledOffered", Proposal(p, "settle")))
settle_channel_received(p, t) == Swap(ch[p], Bare("SettledReceived", t))
settle_channel_accept(p) == [ch[p] EXCEPT !.s = Bare("SettledAccepted", Completed(p))]
settle_channel_confirm(p, t) == [ch[p] EXCEPT !.s = Bare("SettledConfirmed", t)]
settle_channel_finalize(p) == [Updated(p, Bare("Settled", ch[p].s.tx)) EXCEPT !.rb = NoState]
settle_channel_on_finalize(p) == [Updated(p, Bare("Settled", ch[p].s.tx)) EXCEPT !.rb = NoState]

settle_offer(p) ==
    /\ "settle" \in scenario.ops /\ In(p, "Established") /\ ch[p].ver < scenario.updates
    /\ Finish(p, settle_channel_offer(p), mon[p], live[p], NoTx,
              Out("SettleOffer", p, Proposal(p, "settle"), 0))
    /\ UNCHANGED <<signed, chain>>

on_settle_offer(p, m) ==
    /\ m.type = "SettleOffer"
    /\ \/ /\ In(p, "SettledOffered")
          /\ Finish(p, ch[p], mon[p], live[p], m, Out("Reject", p, NoTx, 0))
       \/ /\ In(p, "Established")
          /\ Finish(p, settle_channel_received(p, m.tx), mon[p], live[p], m, {})
    /\ UNCHANGED <<signed, chain>>

accept_settle_offer(p) ==
    /\ In(p, "SettledReceived") /\ ch[p].ver < scenario.updates
    /\ Finish(p, settle_channel_accept(p), add_tx(mon[p], Completed(p), "SettleTx"), live[p], NoTx,
              Out("SettleAccept", p, Completed(p), 0))
    /\ UNCHANGED <<signed, chain>>

reject_settle_offer(p) ==
    /\ "reject" \in scenario.ops /\ In(p, "SettledReceived")
    /\ Finish(p, RollBack(ch[p]), mon[p], live[p], NoTx, Out("Reject", p, NoTx, 0))
    /\ UNCHANGED <<signed, chain>>

\* The secret of the current version is given away.
on_settle_accept(p, m) ==
    /\ m.type = "SettleAccept" /\ In(p, "SettledOffered")
    /\ m.tx.by = p /\ m.tx.o = ch[p].s.tx.o
    /\ Finish(p, settle_channel_confirm(p, m.tx), add_tx(mon[p], m.tx, "SettleTx"), live[p], m,
              Out("SettleConfirm", p, m.tx, ch[p].ver))
    /\ UNCHANGED <<signed, chain>>

\* What the next two have in common: the old buffer is watched as revoked, and
\* then get_collaboratively_closed_contract fails for a contract that is not
\* Confirmed.
FinishSettle(p, c, m, out) ==
    LET rb == ch[p].rb
        watch == add_revoked(mon[p], rb.tx, ch[p].ver, rb.offer)
        l == live[p] \ {rb.con}
    IN  /\ rb.st = "Established" /\ m.sec = ch[p].ctr
        /\ \/ rb.con \in live[p] /\ FinishPersist(p, c, watch, l, l, m, out)
           \/ rb.con \notin live[p] /\ Finish(p, ch[p], watch, live[p], m, {})
        /\ UNCHANGED <<signed, chain>>

on_settle_confirm(p, m) ==
    /\ m.type = "SettleConfirm" /\ In(p, "SettledAccepted") /\ m.tx = ch[p].s.tx
    /\ FinishSettle(p, settle_channel_finalize(p), m, Out("SettleFinalize", p, NoTx, ch[p].ver))

on_settle_finalize(p, m) ==
    /\ m.type = "SettleFinalize" /\ In(p, "SettledConfirmed")
    /\ FinishSettle(p, settle_channel_on_finalize(p), m, {})

-----------------------------------------------------------------------------
(***************************************************************************)
(* Renewing the contract in the channel.                                   *)
(***************************************************************************)
Renewal(t, offer) == [WithContract("RenewOffered", t, offer) EXCEPT !.con = TemporaryId]
renew_channel_offer(p) == Swap(ch[p], Renewal(Proposal(p, "buffer"), TRUE))
renew_channel_received(p, t) == Swap(ch[p], Renewal(t, FALSE))
accept_channel_renewal(p) == [ch[p] EXCEPT !.s = WithContract("RenewAccepted", Completed(p), FALSE)]
verify_renew_accept_and_confirm(p, t) ==
    [ch[p] EXCEPT !.s = WithContract("RenewConfirmed", t, TRUE)]
verify_renew_confirm_and_finalize(p, t) ==
    [ch[p] EXCEPT !.s = WithContract("RenewFinalized", t, FALSE), !.prev = ch[p].ctr,
                  !.own = Point(p, t), !.ctr = Point(Other(p), t)]
renew_channel_on_finalize(p) ==
    [Updated(p, WithContract("Established", ch[p].s.tx, TRUE)) EXCEPT !.rb = NoState]
\* roll_back_state stays.
renew_channel_on_revoke(p) == Updated(p, WithContract("Established", ch[p].s.tx, TRUE))

renew_offer(p) ==
    /\ "renew" \in scenario.ops /\ ch[p].ver < scenario.updates
    /\ In(p, "Established") \/ In(p, "Settled")
    /\ Finish(p, renew_channel_offer(p), mon[p], live[p], NoTx,
              Out("RenewOffer", p, Proposal(p, "buffer"), 0))
    /\ UNCHANGED <<signed, chain>>

on_renew_offer(p, m) ==
    /\ m.type = "RenewOffer"
    /\ \/ /\ In(p, "RenewOffered") /\ ch[p].s.offer
          /\ Finish(p, ch[p], mon[p], live[p], m, Out("Reject", p, NoTx, 0))
       \/ /\ In(p, "Established") \/ In(p, "Settled")
          /\ Finish(p, renew_channel_received(p, m.tx), mon[p], live[p], m, {})
    /\ UNCHANGED <<signed, chain>>

\* The application accepts received offers only.  The contract is stored as
\* Accepted, over whatever had its id.
accept_renew_offer(p) ==
    /\ In(p, "RenewOffered") /\ ~ch[p].s.offer /\ ch[p].ver < scenario.updates
    /\ Finish(p, accept_channel_renewal(p), mon[p], live[p] \ {Completed(p).o}, NoTx,
              Out("RenewAccept", p, Completed(p), 0))
    /\ UNCHANGED <<signed, chain>>

reject_renew_offer(p) ==
    /\ "reject" \in scenario.ops /\ In(p, "RenewOffered") /\ ~ch[p].s.offer
    /\ Finish(p, RollBack(ch[p]), mon[p], live[p], NoTx, Out("Reject", p, NoTx, 0))
    /\ UNCHANGED <<signed, chain>>

\* The new contract is stored as Confirmed.
on_renew_accept(p, m) ==
    /\ m.type = "RenewAccept" /\ In(p, "RenewOffered")
    /\ m.tx.by = ch[p].s.tx.by /\ m.tx.o = ch[p].s.tx.o
    /\ Finish(p, verify_renew_accept_and_confirm(p, m.tx), mon[p], live[p] \union {m.tx.o}, m,
              Out("RenewConfirm", p, m.tx, 0))
    /\ UNCHANGED <<signed, chain>>

\* The state that a renewal replaces: a contract in it must be Confirmed, and
\* its transaction is watched as revoked, with is_offer always false.
Replaceable(p) == LET r == ch[p].rb IN r.st = "Settled" \/ (r.st = "Established" /\ r.con \in live[p])
Replaced(p, m) == add_revoked(m, ch[p].rb.tx, ch[p].ver, FALSE)

\* Mutant: the secret is sent, the new state is not stored.
on_renew_confirm_StateNotSet(p, m) ==
    /\ m.type = "RenewConfirm" /\ In(p, "RenewAccepted") /\ m.tx = ch[p].s.tx /\ Replaceable(p)
    /\ FinishPersist(p, ch[p], Replaced(p, add_tx(mon[p], m.tx, "BufferTx")), live[p], live[p],
                     m, Out("RenewFinalize", p, m.tx, ch[p].ver))
    /\ UNCHANGED <<signed, chain>>

on_renew_confirm(p, m) ==
    LET l == live[p] \union {m.tx.o}
    IN  /\ m.type = "RenewConfirm" /\ In(p, "RenewAccepted") /\ m.tx = ch[p].s.tx /\ Replaceable(p)
        /\ FinishPersist(p, verify_renew_confirm_and_finalize(p, m.tx),
                         Replaced(p, add_tx(mon[p], m.tx, "BufferTx")), l \ {ch[p].rb.con}, l,
                         m, Out("RenewFinalize", p, m.tx, ch[p].ver))
        /\ UNCHANGED <<signed, chain>>

\* Mutant: the new buffer transaction is not watched.
on_renew_finalize_NotWatched(p, m) ==
    /\ m.type = "RenewFinalize" /\ In(p, "RenewConfirmed") /\ m.tx = ch[p].s.tx
    /\ m.sec = ch[p].ctr /\ Replaceable(p)
    /\ FinishPersist(p, renew_channel_on_finalize(p), Replaced(p, mon[p]),
                     live[p] \ {ch[p].rb.con}, live[p], m, Out("RenewRevoke", p, NoTx, ch[p].ver))
    /\ UNCHANGED <<signed, chain>>

on_renew_finalize(p, m) ==
    /\ m.type = "RenewFinalize" /\ In(p, "RenewConfirmed") /\ m.tx = ch[p].s.tx
    /\ m.sec = ch[p].ctr /\ Replaceable(p)
    /\ FinishPersist(p, renew_channel_on_finalize(p), add_tx(Replaced(p, mon[p]), m.tx, "BufferTx"),
                     live[p] \ {ch[p].rb.con}, live[p], m, Out("RenewRevoke", p, NoTx, ch[p].ver))
    /\ UNCHANGED <<signed, chain>>

on_renew_revoke(p, m) ==
    /\ m.type = "RenewRevoke" /\ In(p, "RenewFinalized") /\ m.sec = ch[p].prev
    /\ Finish(p, renew_channel_on_revoke(p), mon[p], live[p], m, {})
    /\ UNCHANGED <<signed, chain>>

\* Mutant: a rejection rolls back whatever is under way.
Rejectable_AnyState(p) == ch[p].kind = "Signed" /\ ch[p].rb # NoState

\* channel_updater::on_reject.
Rejectable(p) == In(p, "SettledOffered") \/ (In(p, "RenewOffered") /\ ch[p].s.offer)

on_reject(p, m) ==
    /\ m.type = "Reject"
    /\ \/ ch[p].kind = "Offered" /\ Finish(p, OfKind(p, "Cancelled"), mon[p], live[p], m, {})
       \/ Rejectable(p) /\ Finish(p, RollBack(ch[p]), mon[p], live[p], m, {})
    /\ UNCHANGED <<signed, chain>>

-----------------------------------------------------------------------------
(***************************************************************************)
(* Closing.                                                                *)
(***************************************************************************)
CloseTx(p) == [kind |-> "close", by |-> p, o |-> 0, a |-> 0]
close_offered(p, t) == Swap(ch[p], Bare("CollaborativeCloseOffered", t))

offer_collaborative_close(p) ==
    /\ "collaborative" \in scenario.ops /\ ch[p].kind = "Signed"
    /\ FinishPersist(p, close_offered(p, CloseTx(p)), add_tx(mon[p], CloseTx(p), "CollaborativeClose"),
                     live[p], live[p], NoTx, Out("CollaborativeCloseOffer", p, CloseTx(p), 0))
    /\ UNCHANGED <<signed, chain>>

CanReceiveClose(p) == ch[p].kind = "Signed" /\ ch[p].rb = NoState
on_collaborative_close_offer(p, m) ==
    /\ m.type = "CollaborativeCloseOffer" /\ CanReceiveClose(p)
    /\ Finish(p, close_offered(p, m.tx), mon[p], live[p], m, {})
    /\ UNCHANGED <<signed, chain>>

\* get_collaboratively_closed_contract: the contract of a channel that was
\* established must be Confirmed, and is closed.
ContractIsConfirmed(p) == ch[p].rb.st = "Established" => ch[p].rb.con \in live[p]
ContractClosed(p) == IF ch[p].rb.st = "Established" THEN live[p] \ {ch[p].rb.con} ELSE live[p]

\* With the own signature twice (tx.by = p) the transaction is refused.
accept_collaborative_close_offer(p) == In(p, "CollaborativeCloseOffered") /\ ch[p].s.tx.by # p

\* Mutant: the channel is stored as closed before the transaction is sent.
accept_collaborative_close_StoredFirst(p) ==
    LET t == ch[p].s.tx
        closed == OfKind(p, "CollaborativelyClosed")
    IN  /\ ContractIsConfirmed(p) /\ accept_collaborative_close_offer(p)
        /\ \/ /\ CanSpend(t) /\ chain' = Spent(p, t)
              /\ Finish(p, closed, mon[p], ContractClosed(p), NoTx, {})
           \/ /\ Fault /\ Upsert(p, closed, disk[p], live[p]) /\ Reply(p, NoTx, {})
              /\ UNCHANGED <<disk, chain, attested, panics>>
        /\ UNCHANGED signed

accept_collaborative_close(p) ==
    LET t == ch[p].s.tx
    IN  /\ ContractIsConfirmed(p) /\ accept_collaborative_close_offer(p)
        /\ CanSpend(t) /\ chain' = Spent(p, t)
        /\ \/ Finish(p, OfKind(p, "CollaborativelyClosed"), mon[p], ContractClosed(p), NoTx, {})
           \/ SendThenCrash(p, NoTx)
        /\ UNCHANGED signed

\* From state c.s; the own signature is made with the current point.
initiate_unilateral_close(c) == [c EXCEPT !.s.st = "Closing", !.s.offer = TRUE]
initiate_unilateral_close_established_channel(p, c) ==
    /\ c.s.st \in {"Established", "RenewFinalized"}
    /\ Point(p, c.s.tx) = c.own
    /\ CanSpend(c.s.tx) /\ chain' = Spent(p, c.s.tx)
    /\ \/ FinishPersist(p, initiate_unilateral_close(c), remove_tx(mon[p], c.s.tx), live[p], live[p],
                        NoTx, {})
       \/ SendThenCrash(p, NoTx)

close_settled_channel(p, c) ==
    /\ c.s.st = "Settled"
    /\ Point(p, c.s.tx) = c.own
    /\ CanSpend(c.s.tx) /\ chain' = Spent(p, c.s.tx)
    /\ \/ Finish(p, [c EXCEPT !.kind = "Closed"], cleanup_channel(mon[p]), live[p], NoTx, {})
       \/ SendThenCrash(p, NoTx)

\* Mutant: RenewFinalized is rolled back like the states before it.
Direct_WithoutFinalized == {"Established", "Settled", "Closing"}

\* Any other state is first replaced by its roll back state, which must be
\* one of these.
Direct == {"Established", "RenewFinalized", "Settled", "Closing"}
Closable(p) == IF ch[p].s.st \in Direct THEN ch[p] ELSE RollBack(ch[p])

force_close_channel_internal(p) ==
    \/ /\ \/ initiate_unilateral_close_established_channel(p, Closable(p))
          \/ close_settled_channel(p, Closable(p))
       /\ UNCHANGED signed
    \/ Closable(p).s.st \notin Direct /\ Panic(p, "rollback state")

force_close_channel(p) ==
    "force" \in scenario.ops /\ ch[p].kind = "Signed" /\ force_close_channel_internal(p)

\* Mutant: one state is missing.
TimesOut_Forgets == {"RenewOffered", "RenewAccepted", "RenewConfirmed", "SettledAccepted",
                     "SettledConfirmed"}

TimesOut == {"RenewOffered", "RenewAccepted", "RenewConfirmed", "SettledOffered",
             "SettledAccepted", "SettledConfirmed"}
check_for_timed_out_channels(p) ==
    /\ "timeout" \in scenario.ops /\ ch[p].kind = "Signed" /\ ch[p].s.st \in TimesOut
    /\ force_close_channel_internal(p)

-----------------------------------------------------------------------------
(***************************************************************************)
(* check_for_watched_tx: one step of process_watched_txs for each watched  *)
(* transaction that was seen, and then for a watched output that was       *)
(* spent.  An error in the first keeps the loop from the second.           *)
(***************************************************************************)
OnBufferTx(p, w) ==
    /\ w.type = "BufferTx"
    /\ \/ ch[p].s.con = NoTx /\ Panic(p, "contract id")
       \/ /\ ch[p].s.con # NoTx
          /\ FinishPersist(p, Swap(ch[p], [ch[p].s EXCEPT !.st = "Closing", !.tx = w.tx, !.offer = FALSE]),
                           mon[p], live[p], live[p], NoTx, {})
          /\ UNCHANGED <<signed, chain>>

\* The script of a buffer output, unlike that of a settle output, is the right
\* one only for the right is_offer.
ScriptFits(p, w) == w.tx.kind = "buffer" => w.offer = (w.tx.by = p)

\* The key for punishing is recovered from the own signature, which only the
\* other party could complete.
OnRevoked(p, w) ==
    /\ w.type = "Revoked"
    /\ \/ w.idx \notin ch[p].secrets /\ Panic(p, "per update secret")
       \/ /\ w.idx \in ch[p].secrets
          /\ chain.by # p /\ ScriptFits(p, w) /\ chain.next = NoTx
          /\ chain' = [chain EXCEPT !.next = [w.tx EXCEPT !.kind = "punish"]]
          /\ \/ FinishPersist(p, OfKind(p, "ClosedPunished"), cleanup_channel(mon[p]), live[p],
                              live[p], NoTx, {})
             \/ SendThenCrash(p, NoTx)
          /\ UNCHANGED signed

\* The contract is stored before the channel.
OnCollaborativeClose(p, w) ==
    LET l == ContractClosed(p)
    IN  /\ w.type = "CollaborativeClose"
        /\ ch[p].rb.st = "Established" => In(p, "CollaborativeCloseOffered")
        /\ ContractIsConfirmed(p)
        /\ \/ FinishPersist(p, OfKind(p, "CollaborativelyClosed"), cleanup_channel(mon[p]), l, l,
                            NoTx, {})
           \/ /\ Fault /\ Upsert(p, ch[p], disk[p], l)
              /\ UNCHANGED <<disk, msgs, revealed, attested, panics, dups>>
        /\ UNCHANGED <<signed, chain>>

OnSettleTx(p, w) ==
    /\ w.type = "SettleTx"
    /\ FinishPersist(p, OfKind(p, "CounterClosed"), cleanup_channel(mon[p]), live[p], live[p], NoTx, {})
    /\ UNCHANGED <<signed, chain>>

OnCet(p) ==
    LET k == IF In(p, "Closing") /\ ~ch[p].s.offer THEN "CounterClosed" ELSE "Closed"
        l == live[p] \ {ch[p].s.con}
    IN  /\ \E w \in mon[p].txos : w.hit
        /\ \A w \in mon[p].txs : w.hit => w.type = "BufferTx" /\ In(p, "Closing")
        /\ FinishPersist(p, OfKind(p, k), cleanup_channel(mon[p]), l, l, NoTx, {})
        /\ UNCHANGED <<signed, chain>>

process_watched_txs(p) ==
    /\ ch[p].kind = "Signed"
    /\ \/ \E w \in mon[p].txs :
            w.hit /\ (OnBufferTx(p, w) \/ OnRevoked(p, w) \/ OnCollaborativeClose(p, w) \/ OnSettleTx(p, w))
       \/ OnCet(p)

\* The last line of check_for_watched_tx when there was nothing to process.
check_for_watched_tx(p) ==
    /\ mon[p] # disk[p]
    /\ ch[p].kind = "Signed" => \A w \in mon[p].txs \union mon[p].txos : ~w.hit
    /\ disk' = [disk EXCEPT ![p] = mon[p]]
    /\ UNCHANGED <<ch, mon, signed, live, msgs, revealed, chain, attested, panics, dups, faults>>

\* finalize_unilateral_close_settled_channel: the CET spends the buffer
\* transaction its contract was made for, and its keys come from the points of
\* the channel.
CanSignCet(p) == LET t == ch[p].s.tx IN /\ ch[p].s.con = t.o
                                        /\ Point(p, t) = ch[p].own
                                        /\ Point(Other(p), t) = ch[p].ctr

try_finalize_closing_established_channel(p) ==
    LET c == ch[p]
        t == c.s.tx
        cet == [t EXCEPT !.kind = "cet"]
    IN  /\ In(p, "Closing") /\ chain.tx = t /\ chain.conf = 2
        /\ c.s.con \in live[p] /\ attested
        /\ CanSignCet(p)
        /\ chain.next \in {NoTx, cet}
        /\ chain' = [chain EXCEPT !.next = cet]
        /\ \/ Finish(p, OfKind(p, IF c.s.offer THEN "Closed" ELSE "CounterClosed"),
                     cleanup_channel(mon[p]), live[p] \ {c.s.con}, NoTx, {})
           \/ SendThenCrash(p, NoTx)
        /\ UNCHANGED signed

-----------------------------------------------------------------------------
Init == /\ ch = [p \in Party |-> NoChannel]
        /\ mon = [p \in Party |-> NoMonitor] /\ disk = mon
        /\ signed = {} /\ live = [p \in Party |-> {}]
        /\ msgs = {} /\ revealed = [p \in Party |-> {}]
        /\ chain = [fund |-> "none", tx |-> NoTx, by |-> "alice", conf |-> 0, next |-> NoTx,
                    nextConf |-> 0]
        /\ attested = FALSE /\ panics = {}
        /\ dups = 0 /\ faults = 0
        /\ scenario \in Scenarios

\* on_dlc_message.
Receive(p, m) ==
    \/ on_offer_channel(p, m) \/ on_accept_channel(p, m) \/ on_sign_channel(p, m)
    \/ on_settle_offer(p, m) \/ on_settle_accept(p, m) \/ on_settle_confirm(p, m)
    \/ on_settle_finalize(p, m) \/ on_renew_offer(p, m) \/ on_renew_accept(p, m)
    \/ on_renew_confirm(p, m) \/ on_renew_finalize(p, m) \/ on_renew_revoke(p, m)
    \/ on_collaborative_close_offer(p, m) \/ on_reject(p, m)

\* What the application asks for.
Call(p) ==
    \/ accept_channel(p) \/ reject_channel(p)
    \/ settle_offer(p) \/ accept_settle_offer(p) \/ reject_settle_offer(p)
    \/ renew_offer(p) \/ accept_renew_offer(p) \/ reject_renew_offer(p)
    \/ offer_collaborative_close(p) \/ accept_collaborative_close(p)
    \/ force_close_channel(p)

\* periodic_chain_monitor and periodic_check(true).
Periodic(p) ==
    \/ periodic_chain_monitor(p) \/ check_signed_contract(p) \/ process_watched_txs(p)
    \/ check_for_watched_tx(p) \/ try_finalize_closing_established_channel(p)
    \/ check_for_timed_out_channels(p)

Next == /\ \/ offer_channel
           \/ \E p \in Party : \/ Call(p) \/ Periodic(p) \/ Crash(p)
                               \/ \E m \in msgs : m.to = p /\ Receive(p, m)
           \/ Mine \/ OracleAttests
        /\ UNCHANGED scenario

Spec == Init /\ [][Next]_<<vars, scenario>>

\* The periodic tasks run for ever, blocks are mined, and oracles attest.
\* Nothing is assumed of applications or of the delivery of messages.
Fairness == /\ WF_vars(Mine) /\ WF_vars(OracleAttests)
            /\ \A p \in Party :
                /\ WF_vars(periodic_chain_monitor(p)) /\ WF_vars(check_signed_contract(p))
                /\ WF_vars(process_watched_txs(p)) /\ WF_vars(check_for_timed_out_channels(p))
                /\ WF_vars(try_finalize_closing_established_channel(p))
FairSpec == Spec /\ Fairness

-----------------------------------------------------------------------------
\* The channel, the monitors, the messages and the chain stay in the domains
\* above, and panics only holds the three calls of expect() that can fail.
TypeOK == /\ ch \in [Party -> Channel] /\ mon \in [Party -> Monitor] /\ disk \in [Party -> Monitor]
          /\ signed \subseteq Party /\ live \in [Party -> SUBSET Idx]
          /\ msgs \subseteq Msg /\ revealed \in [Party -> SUBSET Msg]
          /\ chain \in Chain /\ attested \in BOOLEAN
          /\ panics \subseteq {"contract id", "rollback state", "per update secret"}
          /\ dups \in 0..scenario.duplicates /\ faults \in 0..scenario.faults

\* Two parties whose updates are over have the same version and can close the
\* channel with the same transaction: no order of offers, rejections and
\* stale or repeated messages leaves them with different ones (the checks of
\* state, point and signature in channel_updater.rs).
Stable(p) == In(p, "Established") \/ In(p, "Settled")
AgreeWhenStable ==
    Stable("alice") /\ Stable("bob") =>
        /\ ch["alice"].ver = ch["bob"].ver
        /\ ch["alice"].s.tx = ch["bob"].s.tx

\* Once the funding transaction was broadcast (on_sign_channel) a party that
\* has not closed the channel can close it: its state, or the one it rolls
\* back to, has a transaction that fits its current per-update point.  A crash
\* may store a state without what its close needs, and offering a
\* collaborative close in the middle of an update replaces the state to roll
\* back to.
CanAlwaysClose ==
    chain.fund # "none" /\ faults = 0 /\ "collaborative" \notin scenario.ops =>
        \A p \in Party :
            /\ ch[p].kind \in {"Signed"} \union ClosedKinds
            /\ ch[p].kind = "Signed" => /\ Closable(p).s.st \in Direct
                                       /\ Point(p, Closable(p).s.tx) = ch[p].own

\* The versions whose secret p gave away.
GivenAway(p) == {x.sec : x \in revealed[p]}

\* The transaction on the chain is not one whose secret its publisher gave
\* away, before or after: force_close_channel_internal does not expose its
\* caller to the punishment of process_watched_txs.  The one exception is a
\* close that rolls back from SettledConfirmed, as on_settle_accept sends
\* the secret of the current version before there is another one.  A party
\* that crashed is another matter, see SafeToClose.
NeverPublishRevoked ==
    chain.tx # NoTx /\ chain.tx.kind # "close" /\ faults = 0 =>
        \A x \in revealed[chain.by] :
            x.sec = Point(chain.by, chain.tx) =>
                x.type = "SettleConfirm" /\ x.sec = ch[chain.by].own

\* What a party has stored never has it close the channel with a transaction
\* whose secret it gave away, whenever it crashes: a handler stores the next
\* state before it sends the secret of the last one.  Only SettledConfirmed
\* is left out, as on_settle_accept reveals the secret of the state that is
\* still the one to roll back to, and with it a collaborative close offered in
\* that state.
SafeToClose ==
    {"settle", "collaborative"} \subseteq scenario.ops \/ \A p \in Party :
        /\ ch[p].kind = "Signed" /\ ~In(p, "Closing") /\ ~In(p, "SettledConfirmed")
        /\ Closable(p).s.st \in Direct
        => Point(p, Closable(p).s.tx) \notin GivenAway(p)

\* A party that did not close the channel itself will notice that the other
\* one did: the published transaction is watched by its chain monitor, unless
\* the party waits for RenewFinalize, as only that adds the new buffer.  A
\* crash may lose the watch, and so may a collaborative close, which is offered in
\* any state, Closing too.
PublishedIsWatched ==
    \A p \in Party :
        /\ chain.tx # NoTx /\ faults = 0 /\ "collaborative" \notin scenario.ops
        /\ ch[p].kind = "Signed" /\ ~In(p, "Closing") /\ ~In(p, "RenewConfirmed")
        => \E w \in mon[p].txs : w.tx = chain.tx

\* Why a channel is closed: each way of closing needs its transaction, a
\* channel is CounterClosed for what the other party published (or for what
\* the party published itself before it crashed), and a party is punished
\* only for a transaction it had revoked.
ClosedForAReason ==
    \A p \in Party :
        /\ ch[p].kind = "CollaborativelyClosed" => chain.tx # NoTx /\ chain.tx.kind = "close"
        /\ ch[p].kind \in {"Closed", "CounterClosed"} =>
                chain.tx # NoTx /\ chain.tx.kind \in {"buffer", "settle"}
        /\ ch[p].kind = "CounterClosed" =>
                chain.by # p \/ (faults > 0 /\ scenario.ops \intersect {"force", "timeout"} # {})
        /\ ch[p].kind = "ClosedPunished" =>
                /\ chain.tx # NoTx /\ chain.by # p
                /\ Point(chain.by, chain.tx) \in GivenAway(chain.by)

\* The contract of an established channel is stored as Confirmed, which
\* try_finalize_closing_established_channel needs, or it is the first one
\* and the funding transaction is not yet known to be confirmed.
EstablishedIsConfirmed ==
    \A p \in Party : In(p, "Established") /\ p \notin signed => ch[p].s.con \in live[p]

\* What is stored of a channel fits what is on the chain: the types, the
\* reason of each close (accept_collaborative_close, process_watched_txs,
\* try_finalize_closing_established_channel), and the stored contract of an
\* established channel (on_renew_accept, on_sign_channel).
ChannelInv == TypeOK /\ ClosedForAReason /\ EstablishedIsConfirmed

\* A channel whose buffer transaction was published is closed in the end.
ClosingEnds == \A p \in Party : In(p, "Closing") ~> ch[p].kind \in ClosedKinds

\* Nobody waits for ever for an answer to an offer or an acceptance: the
\* states check_for_timed_out_channels looks at are left, once there is a
\* funding output to close the channel with.
Waiting(p) == \E st \in (RenewStates \union SettleStates) \ {"RenewFinalized", "SettledReceived"} : In(p, st)
WaitingEnds == \A p \in Party : Waiting(p) /\ chain.fund # "none" ~> ~Waiting(p)

-----------------------------------------------------------------------------
(***************************************************************************)
(* What assertions say of the code, and the code does not do.              *)
(***************************************************************************)
\* The calls of expect() never fail: process_watched_txs expects the state of
\* a channel whose buffer transaction confirmed "to have a contract id", a
\* revoked transaction "to be able to retrieve the per update secret", and
\* force_close_channel_internal expects an unstable state "to have a rollback
\* state".
NoPanic == panics = {}

=============================================================================
