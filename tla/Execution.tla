------------------------------ MODULE Execution ------------------------------
(***************************************************************************)
(* The life of one signed DLC: confirmation of the funding transaction,    *)
(* closing with a CET, refund, cooperative close                           *)
(* (ddk-manager/src/manager.rs).                                           *)
(*                                                                         *)
(* A party has one durable record of the contract, db[p], and two tasks    *)
(* that read and write it without a lock:                                  *)
(*   actor[p]  the task of ddk/src/builder.rs that runs periodic_check;    *)
(*   api[p]    a direct call of the application on the shared Manager.     *)
(* A call reads the record, asks or feeds the network, and writes a new    *)
(* record made from what it read; every await in between is a step         *)
(* boundary, so a write can be stale.  A crash drops the tasks and keeps   *)
(* the record.                                                             *)
(*                                                                         *)
(* Parties in Honest run this code.  Another party is only required to     *)
(* hold the signatures for what it publishes.                              *)
(***************************************************************************)
EXTENDS Naturals, FiniteSets

CONSTANTS Cets,             \* CETs the oracles' attestations may unlock
          Closes,           \* cooperative closing transactions
          NoTx,
          Honest,           \* parties that run this code
          NB_CONFIRMATIONS,
          AUTOMATIC_REFUND,
          CetLocktime, MaturityTime, RefundLocktime,
          ApiEnabled,       \* the application calls the Manager directly
          ReportsCounterpartyClose,  \* ... and calls on_counterparty_close
          MaxTime,          \* bound on the clock
          MaxFaults,        \* bound on crashes and I/O errors
          MaxDrops          \* bound on evictions and reorganisations

Party == {"offer", "accept"}
Other(p) == IF p = "offer" THEN "accept" ELSE "offer"

Closings == Cets \union Closes \union {"refund"}
Tx == Closings \union {"fund"}
Parent == [t \in Tx |-> IF t = "fund" THEN NoTx ELSE "fund"]

\* NB_CONFIRMATIONS.max(1): what check_confirmed_contract and
\* check_preclosed_contract require of a closing transaction.
SafeConf == IF NB_CONFIRMATIONS = 0 THEN 1 ELSE NB_CONFIRMATIONS

ASSUME ExecutionAssumption ==
    /\ NB_CONFIRMATIONS \in Nat
    /\ {CetLocktime, MaturityTime, RefundLocktime, MaxTime, MaxFaults, MaxDrops} \subseteq Nat
    /\ {AUTOMATIC_REFUND, ApiEnabled, ReportsCounterpartyClose} \subseteq BOOLEAN
    /\ Honest \subseteq Party
    /\ "fund" \notin Closings /\ NoTx \notin Tx
    /\ "refund" \notin Cets \union Closes
    /\ Cets \intersect Closes = {}

VARIABLES mempool, conf, seen,  \* the network (Ledger)
          now,                  \* the clock, shared by the parties and the chain
          attested,             \* CETs the published attestations unlock
          db, actor, api,
          closeMsgs,            \* CloseDlc messages: [to, tx]
          faults, drops         \* faults of the parties, of the network

INSTANCE Ledger

netVars == <<mempool, conf, seen>>
envVars == <<now, attested, drops>>
vars == <<mempool, conf, seen, now, attested, db, actor, api, closeMsgs, faults, drops>>

-----------------------------------------------------------------------------
(***************************************************************************)
(* The stored contract.  tx is the closing transaction, held by a          *)
(* PreClosed or Closed contract and by no other; att tells whether its     *)
(* attestations are stored with it, full whether the stored transaction    *)
(* carries all its signatures, and pend holds pending_close_txs.           *)
(***************************************************************************)
ContractState == {"Signed", "Confirmed", "PreClosed", "Closed", "Refunded"}
Contract == {c \in [st : ContractState, tx : Closings \union {NoTx},
                    att : BOOLEAN, full : BOOLEAN, pend : SUBSET Closes] :
                c.tx # NoTx <=> c.st \in {"PreClosed", "Closed"}}

Signed == [st |-> "Signed", tx |-> NoTx, att |-> FALSE, full |-> FALSE, pend |-> {}]

\* Mutant of Confirmed: a contract that becomes live again keeps its closing
\* transaction.
ConfirmedKeepsTx(c) == [c EXCEPT !.st = "Confirmed"]
Confirmed(c) == [c EXCEPT !.st = "Confirmed", !.tx = NoTx, !.att = FALSE, !.full = FALSE]
Refunded(c) == [Confirmed(c) EXCEPT !.st = "Refunded"]
PreClosed(c, t, a, f) == [c EXCEPT !.st = "PreClosed", !.tx = t, !.att = a, !.full = f]
Closed(c, t, a, f) == [PreClosed(c, t, a, f) EXCEPT !.st = "Closed"]

\* periodic_check goes through three lists: signed, confirmed, preclosed.
\* step: "read" the list, "act" on the contract found, check the "refund",
\* "write" the new record, or "writeThenRefund".
Phase == {"idle", "signed", "confirmed", "preclosed"}
Step == {"read", "act", "refund", "write", "writeThenRefund"}
Actor == [at : Phase, step : Step, snap : Contract, new : Contract]
AtPhase(a) == [at |-> a, step |-> "read", snap |-> Signed, new |-> Signed]
Following(a) == CASE a = "signed" -> "confirmed" [] a = "confirmed" -> "preclosed"
                  [] OTHER -> "idle"
Listed(a) == CASE a = "signed" -> "Signed" [] a = "confirmed" -> "Confirmed"
               [] OTHER -> "PreClosed"

Op == {"idle", "close", "refund", "coop", "accept"}
Api == [op : Op, tx : Closings \union {NoTx}, snap : Contract,
        new : Contract, ready : BOOLEAN]
NoCall == [op |-> "idle", tx |-> NoTx, snap |-> Signed, new |-> Signed, ready |-> FALSE]

CloseMsg == [to : Party, tx : Closes]

TypeOK == /\ LedgerTypeOK
          /\ now \in 0..MaxTime
          /\ attested \subseteq Cets
          /\ db \in [Honest -> Contract]
          /\ actor \in [Honest -> Actor]
          /\ api \in [Honest -> Api]
          /\ closeMsgs \subseteq CloseMsg
          /\ faults \in 0..MaxFaults
          /\ drops \in 0..MaxDrops

\* Negotiation ends with the contract Signed in both stores; the accepting
\* party may have failed to broadcast the funding transaction.
Init == /\ mempool \in {{}, {"fund"}}
        /\ seen = mempool
        /\ conf = [t \in Tx |-> 0]
        /\ now = 0
        /\ attested = {}
        /\ db = [p \in Honest |-> Signed]
        /\ actor = [p \in Honest |-> AtPhase("idle")]
        /\ api = [p \in Honest |-> NoCall]
        /\ closeMsgs = {}
        /\ faults = 0
        /\ drops = 0

Fault == faults < MaxFaults /\ faults' = faults + 1

\* The network refuses a transaction before its lock time.
Final(t) == /\ t = "refund" => RefundLocktime <= now
            /\ t \in Cets => CetLocktime <= now

\* send_transaction: accepted, or an error and no effect.
Broadcast(t) == SendSucceeds(t) /\ Final(t) /\ Send(t)
Refused(t) == ~(SendSucceeds(t) /\ Final(t)) /\ UNCHANGED netVars

-----------------------------------------------------------------------------
(***************************************************************************)
(* The actor: periodic_check                                               *)
(***************************************************************************)
SetActor(p, a) == actor' = [actor EXCEPT ![p] = a]
Advance(p) == SetActor(p, AtPhase(Following(actor[p].at)))
ToWrite(p, s, c) == SetActor(p, [actor[p] EXCEPT !.step = s, !.new = c])
ToRefund(p) == SetActor(p, [actor[p] EXCEPT !.step = "refund"])

PeriodicCheck(p) ==
    /\ actor[p].at = "idle"
    /\ SetActor(p, AtPhase("signed"))
    /\ UNCHANGED <<netVars, envVars, db, api, closeMsgs, faults>>

\* get_signed_contracts, get_confirmed_contracts, get_preclosed_contracts
ReadContracts(p) ==
    /\ actor[p].at # "idle"
    /\ actor[p].step = "read"
    /\ IF db[p].st = Listed(actor[p].at)
       THEN SetActor(p, [actor[p] EXCEPT !.step = "act", !.snap = db[p]])
       ELSE Advance(p)
    /\ UNCHANGED <<netVars, envVars, db, api, closeMsgs, faults>>

\* A chain query or a store access fails: the error is logged and the check
\* moves on.
CheckFails(p) ==
    /\ actor[p].step # "read"
    /\ Fault
    /\ Advance(p)
    /\ UNCHANGED <<netVars, envVars, db, api, closeMsgs>>

CheckSignedContract(p) ==
    /\ actor[p].at = "signed" /\ actor[p].step = "act"
    /\ IF Known("fund") /\ conf["fund"] >= NB_CONFIRMATIONS
       THEN ToWrite(p, "write", Confirmed(actor[p].snap))
       ELSE Advance(p)
    /\ UNCHANGED <<netVars, envVars, db, api, closeMsgs, faults>>

\* Mutant of CloseContract: one confirmation is enough, whatever
\* NB_CONFIRMATIONS.
CloseContractAtOne(c, t) ==
    IF conf[t] < 1 THEN PreClosed(c, t, TRUE, TRUE) ELSE Closed(c, t, TRUE, TRUE)

\* close_contract: broadcast the CET unless it is on chain; the record it
\* returns.
CloseContract(c, t) ==
    IF conf[t] < NB_CONFIRMATIONS \/ conf[t] < 1
    THEN PreClosed(c, t, TRUE, TRUE) ELSE Closed(c, t, TRUE, TRUE)

CloseContractSends(t) == IF conf[t] < 1 THEN Broadcast(t) ELSE UNCHANGED netVars

\* check_confirmed_contract with enough attestations for the CET t.  When the
\* network refuses the CET the check ends here.
CheckConfirmedContract(p, t) ==
    /\ actor[p].at = "confirmed" /\ actor[p].step = "act"
    /\ t \in attested
    /\ \/ /\ CloseContractSends(t)
          /\ ToWrite(p, "write", CloseContract(actor[p].snap, t))
       \/ /\ conf[t] < 1 /\ Refused(t)
          /\ Advance(p)
    /\ UNCHANGED <<envVars, db, api, closeMsgs, faults>>

\* Mutant of CheckPendingCloses: the pending closes are not looked at.
CheckPendingClosesSkipped(p) ==
    /\ actor[p].at = "confirmed" /\ actor[p].step = "act"
    /\ IF attested = {} THEN faults' = faults ELSE Fault
    /\ ToRefund(p)
    /\ UNCHANGED <<netVars, envVars, db, api, closeMsgs>>

\* check_confirmed_contract without attestations (or with the oracle out of
\* reach): the pending cooperative closes, then check_refund.
CheckPendingCloses(p) ==
    /\ actor[p].at = "confirmed" /\ actor[p].step = "act"
    /\ IF attested = {} THEN faults' = faults ELSE Fault
    /\ LET c == actor[p].snap IN
       \/ \E t \in c.pend :
            /\ conf[t] >= SafeConf
            /\ ToWrite(p, "writeThenRefund", Closed(c, t, FALSE, FALSE))
       \/ \E t \in c.pend :
            /\ conf[t] >= 1 /\ conf[t] < SafeConf
            /\ ToWrite(p, "writeThenRefund", PreClosed(c, t, FALSE, FALSE))
       \/ /\ \A t \in c.pend : conf[t] = 0
          /\ ToRefund(p)
    /\ UNCHANGED <<netVars, envVars, db, api, closeMsgs>>

\* Mutant of CheckRefund: it records a refund but never sends one.
CheckRefundPassive(p) ==
    /\ actor[p].step = "refund"
    /\ IF RefundLocktime <= now /\ conf["refund"] > 0
       THEN ToWrite(p, "write", Refunded(actor[p].snap)) ELSE Advance(p)
    /\ UNCHANGED <<netVars, envVars, db, api, closeMsgs, faults>>

\* check_refund.  A confirmed refund is recorded over the snapshot; otherwise
\* check_and_broadcast_refund reads the contract again and sends the refund.
CheckRefund(p) ==
    /\ actor[p].step = "refund"
    /\ \/ /\ ~(RefundLocktime <= now)
          /\ Advance(p)
          /\ UNCHANGED netVars
       \/ /\ RefundLocktime <= now
          /\ conf["refund"] > 0
          /\ ToWrite(p, "write", Refunded(actor[p].snap))
          /\ UNCHANGED netVars
       \/ /\ RefundLocktime <= now
          /\ conf["refund"] = 0
          /\ AUTOMATIC_REFUND /\ db[p].st = "Confirmed"
          /\ \/ Broadcast("refund") /\ ToWrite(p, "write", Refunded(db[p]))
             \/ Refused("refund") /\ Advance(p)
       \/ /\ RefundLocktime <= now
          /\ conf["refund"] = 0
          /\ ~(AUTOMATIC_REFUND /\ db[p].st = "Confirmed")
          /\ Advance(p)
          /\ UNCHANGED netVars
    /\ UNCHANGED <<envVars, db, api, closeMsgs, faults>>

\* Mutants of CheckPreclosedContract, which send nothing again: a transaction in
\* the mempool counts as settled; a settled one is not noticed.
CheckPreclosedContractVariant(p, closes) ==
    /\ actor[p].at = "preclosed" /\ actor[p].step = "act"
    /\ LET c == actor[p].snap IN
       IF closes THEN ToWrite(p, "write", Closed(c, c.tx, c.att, c.full)) ELSE Advance(p)
    /\ UNCHANGED <<netVars, envVars, db, api, closeMsgs, faults>>
CheckPreclosedContractInMempool(p) ==
    CheckPreclosedContractVariant(p, Known(actor[p].snap.tx))
CheckPreclosedContractBlind(p) == CheckPreclosedContractVariant(p, FALSE)

\* check_preclosed_contract: a closing transaction the network lost is sent
\* again; when that fails and there are no attestations the contract is live
\* again.  A stored transaction without all its signatures is always refused.
CheckPreclosedContract(p) ==
    /\ actor[p].at = "preclosed" /\ actor[p].step = "act"
    /\ LET c == actor[p].snap
           t == c.tx
           sent == c.full /\ Broadcast(t)
           refused == (~c.full /\ UNCHANGED netVars) \/ Refused(t)
           afterFailure == IF c.att THEN Advance(p) ELSE ToWrite(p, "write", Confirmed(c))
       IN \/ /\ ~Known(t)
             /\ \/ sent /\ Advance(p) /\ faults' = faults
                \/ refused /\ afterFailure /\ faults' = faults
                \/ Fault /\ afterFailure /\ UNCHANGED netVars
          \/ /\ Known(t)
             /\ IF conf[t] >= SafeConf
                THEN ToWrite(p, "write", Closed(c, t, c.att, c.full))
                ELSE Advance(p)
             /\ UNCHANGED <<netVars, faults>>
    /\ UNCHANGED <<envVars, db, api, closeMsgs>>

\* update_contract at the end of a check
ActorWrites(p) ==
    /\ actor[p].step \in {"write", "writeThenRefund"}
    /\ db' = [db EXCEPT ![p] = actor[p].new]
    /\ IF actor[p].step = "write" THEN Advance(p) ELSE ToRefund(p)
    /\ UNCHANGED <<netVars, envVars, api, closeMsgs, faults>>

-----------------------------------------------------------------------------
(***************************************************************************)
(* Direct calls.  Each starts with get_contract_in_state!(.., Confirmed).  *)
(***************************************************************************)
SetApi(p, a) == api' = [api EXCEPT ![p] = a]

ApiBegins(p, op, t) ==
    /\ ApiEnabled
    /\ api[p].op = "idle"
    /\ db[p].st = "Confirmed"
    /\ \/ op = "close" /\ t \in attested
       \/ op = "refund" /\ t = "refund"
       \/ op = "coop" /\ t \in Closes \ db[p].pend
       \/ op = "accept" /\ [to |-> p, tx |-> t] \in closeMsgs
    /\ SetApi(p, [NoCall EXCEPT !.op = op, !.tx = t, !.snap = db[p]])
    /\ UNCHANGED <<netVars, envVars, db, actor, closeMsgs, faults>>

ApiReady(p, c) == SetApi(p, [api[p] EXCEPT !.new = c, !.ready = TRUE])
Running(p, op) == api[p].op = op /\ ~api[p].ready

\* close_confirmed_contract: the lock time of the CET must have passed.
CloseConfirmedContract(p) ==
    /\ Running(p, "close")
    /\ CetLocktime <= now
    /\ CloseContractSends(api[p].tx)
    /\ ApiReady(p, CloseContract(api[p].snap, api[p].tx))
    /\ UNCHANGED <<envVars, db, actor, closeMsgs, faults>>

\* check_and_broadcast_refund
CheckAndBroadcastRefund(p) ==
    /\ Running(p, "refund")
    /\ RefundLocktime <= now
    /\ IF conf["refund"] = 0 THEN Broadcast("refund") ELSE UNCHANGED netVars
    /\ ApiReady(p, Refunded(api[p].snap))
    /\ UNCHANGED <<envVars, db, actor, closeMsgs, faults>>

\* cooperative_close_contract: the closing transaction joins
\* pending_close_txs, the contract stays Confirmed.
CooperativeCloseContract(p) ==
    /\ Running(p, "coop")
    /\ ApiReady(p, [api[p].snap EXCEPT !.pend = @ \union {api[p].tx}])
    /\ UNCHANGED <<netVars, envVars, db, actor, closeMsgs, faults>>

\* Mutant of AcceptCooperativeClose: an error of the broadcast is ignored.
AcceptCooperativeCloseIgnoresError(p) ==
    /\ Running(p, "accept")
    /\ Broadcast(api[p].tx) \/ Refused(api[p].tx)
    /\ ApiReady(p, PreClosed(api[p].snap, api[p].tx, FALSE, TRUE))
    /\ UNCHANGED <<envVars, db, actor, closeMsgs, faults>>

\* accept_cooperative_close: complete the signatures and broadcast.
AcceptCooperativeClose(p) ==
    /\ Running(p, "accept")
    /\ Broadcast(api[p].tx)
    /\ ApiReady(p, PreClosed(api[p].snap, api[p].tx, FALSE, TRUE))
    /\ UNCHANGED <<envVars, db, actor, closeMsgs, faults>>

\* A call returns an error: the lock time has not passed or the network
\* refuses the transaction.
ApiFails(p) ==
    /\ \/ Running(p, "close") /\ (CetLocktime > now \/ (conf[api[p].tx] < 1 /\ Refused(api[p].tx)))
       \/ Running(p, "refund") /\ (RefundLocktime > now \/ (conf["refund"] = 0 /\ Refused("refund")))
       \/ Running(p, "accept") /\ Refused(api[p].tx)
    /\ SetApi(p, NoCall)
    /\ UNCHANGED <<netVars, envVars, db, actor, closeMsgs, faults>>

\* A chain query, a broadcast or a store access of a call fails.
ApiBreaks(p) ==
    /\ api[p].op # "idle"
    /\ Fault
    /\ SetApi(p, NoCall)
    /\ UNCHANGED <<netVars, envVars, db, actor, closeMsgs>>

\* update_contract at the end of a call; cooperative_close_contract then
\* returns the CloseDlc message for the counter party.
ApiWrites(p) ==
    /\ api[p].ready
    /\ db' = [db EXCEPT ![p] = api[p].new]
    /\ closeMsgs' = IF api[p].op = "coop"
                    THEN closeMsgs \union {[to |-> Other(p), tx |-> api[p].tx]}
                    ELSE closeMsgs
    /\ SetApi(p, NoCall)
    /\ UNCHANGED <<netVars, envVars, actor, faults>>

\* on_counterparty_close takes the manager exclusively.  The application
\* found t spending the funding output, with n confirmations at that time.
OnCounterpartyClose(p, t, n) ==
    /\ ReportsCounterpartyClose
    /\ actor[p].at = "idle" /\ api[p].op = "idle"
    /\ db[p].st = "Confirmed"
    /\ Known(t) /\ n <= conf[t]
    /\ db' = [db EXCEPT ![p] = IF t = "refund" THEN Refunded(db[p])
                               ELSE IF n < NB_CONFIRMATIONS
                               THEN PreClosed(db[p], t, FALSE, TRUE)
                               ELSE Closed(db[p], t, FALSE, TRUE)]
    /\ UNCHANGED <<netVars, envVars, actor, api, closeMsgs, faults>>

\* The process stops and restarts.
Crash(p) ==
    /\ actor[p].at # "idle" \/ api[p].op # "idle"
    /\ Fault
    /\ SetActor(p, AtPhase("idle"))
    /\ SetApi(p, NoCall)
    /\ UNCHANGED <<netVars, envVars, db, closeMsgs>>

-----------------------------------------------------------------------------
(***************************************************************************)
(* Everything else: the chain, the clock, the oracles, the other party     *)
(***************************************************************************)
partyVars == <<db, actor, api>>

Mine(S) == MineBlock(S) /\ UNCHANGED <<envVars, partyVars, closeMsgs, faults>>
NetworkFault(t) == /\ drops < MaxDrops
                   /\ drops' = drops + 1
                   /\ Evict(t) \/ Reorg(t)
                   /\ UNCHANGED <<now, attested, partyVars, closeMsgs, faults>>
Relay(t) == /\ Final(t)
            /\ Rebroadcast(t)
            /\ UNCHANGED <<envVars, partyVars, closeMsgs, faults>>
Tick == /\ now < MaxTime
        /\ now' = now + 1
        /\ UNCHANGED <<netVars, attested, drops, partyVars, closeMsgs, faults>>
OracleAttests(t) == /\ MaturityTime <= now
                    /\ t \in Cets \ attested
                    /\ attested' = attested \union {t}
                    /\ UNCHANGED <<netVars, now, drops, partyVars, closeMsgs, faults>>

\* A party that does not run this code publishes what it has signatures for.
PeerPublishes(q, t) ==
    /\ q \notin Honest
    /\ \/ t \in attested
       \/ t = "refund"
       \/ t = "fund" /\ q = "accept"
       \/ [to |-> q, tx |-> t] \in closeMsgs
    /\ ~Known(t) /\ Acceptable(t) /\ Final(t) /\ Send(t)
    /\ UNCHANGED <<envVars, partyVars, closeMsgs, faults>>

PeerProposes(q, t) ==
    /\ q \notin Honest
    /\ ApiEnabled
    /\ [to |-> Other(q), tx |-> t] \notin closeMsgs
    /\ closeMsgs' = closeMsgs \union {[to |-> Other(q), tx |-> t]}
    /\ UNCHANGED <<netVars, envVars, partyVars, faults>>

ActorStep(p) == \/ PeriodicCheck(p)
                \/ ReadContracts(p)
                \/ CheckSignedContract(p)
                \/ \E t \in Cets : CheckConfirmedContract(p, t)
                \/ CheckPendingCloses(p)
                \/ CheckRefund(p)
                \/ CheckPreclosedContract(p)
                \/ ActorWrites(p)

ApiStep(p) == \/ CloseConfirmedContract(p)
              \/ CheckAndBroadcastRefund(p)
              \/ CooperativeCloseContract(p)
              \/ AcceptCooperativeClose(p)
              \/ ApiFails(p)
              \/ ApiWrites(p)

Environment == \/ \E S \in SUBSET Tx : Mine(S)
               \/ Tick
               \/ \E t \in Cets : OracleAttests(t)
               \/ \E t \in Tx : NetworkFault(t) \/ Relay(t)
               \/ \E q \in Party, t \in Tx : PeerPublishes(q, t)
               \/ \E q \in Party, t \in Closes : PeerProposes(q, t)

Next == \/ \E p \in Honest :
             \/ ActorStep(p)
             \/ ApiStep(p)
             \/ CheckFails(p)
             \/ ApiBreaks(p)
             \/ Crash(p)
             \/ \E op \in Op, t \in Closings : ApiBegins(p, op, t)
             \/ \E t \in Closings, n \in 0..SafeConf : OnCounterpartyClose(p, t, n)
        \/ Environment

Spec == Init /\ [][Next]_vars
-----------------------------------------------------------------------------
(***************************************************************************)
(* Safety                                                                  *)
(***************************************************************************)

\* Closed is a terminal state that no periodic check examines again: a party
\* records it only for a closing transaction that has the required
\* confirmations, and at least one, whatever stale snapshot, crash, eviction
\* or reorganisation went before.
ClosedIsSettled == \A p \in Honest : db[p].st = "Closed" => conf[db[p].tx] >= SafeConf

\* Two parties that consider the contract closed agree on the transaction
\* that closed it.
OneOutcome == \A p, q \in Honest :
    db[p].st = "Closed" /\ db[q].st = "Closed" => db[p].tx = db[q].tx

\* A record that names a closing transaction, or says the refund was
\* broadcast, is never ahead of the network: the network accepted that
\* transaction at some point (send_transaction comes before update_contract,
\* and its error prevents the update).
RecordedWasBroadcast == \A p \in Honest :
    /\ db[p].st \in {"PreClosed", "Closed"} => db[p].tx \in seen
    /\ db[p].st = "Refunded" => "refund" \in seen

\* on_counterparty_close, alone, compares with NB_CONFIRMATIONS itself.
ClosesAreChecked == NB_CONFIRMATIONS > 0 \/ ~ReportsCounterpartyClose

\* The network, with confirmations cf and history sn, justifies the record c.
Backed(c, cf, sn) ==
    /\ c.st = "Closed" /\ ClosesAreChecked => cf[c.tx] >= SafeConf
    /\ c.st \in {"PreClosed", "Closed"} => c.tx \in sn
    /\ c.st = "Refunded" => "refund" \in sn

\* What makes the two invariants above inductive: not only the stored record
\* is justified but every copy a task still holds and may write back later,
\* however stale, and the tasks hold copies of the right kind.
CopiesAreBacked == \A p \in Honest :
    /\ \A c \in {db[p], actor[p].snap, actor[p].new, api[p].snap, api[p].new} :
          Backed(c, conf, seen)
    /\ actor[p].at = "preclosed" /\ actor[p].step = "act" => actor[p].snap.st = "PreClosed"
    /\ api[p].op # "idle" => api[p].tx # NoTx
    /\ api[p].op = "coop" => api[p].tx \in Closes

-----------------------------------------------------------------------------
(***************************************************************************)
(* Liveness.  The actor and a started call go on (tokio schedules them),   *)
(* periodic_check is triggered by a timer for ever, the clock runs, and    *)
(* miners include what stays in the mempool.  Nothing is asked of oracles. *)
(***************************************************************************)
Fairness == /\ \A p \in Honest : WF_vars(ActorStep(p)) /\ WF_vars(ApiStep(p))
            /\ WF_vars(Tick)
            /\ WF_vars(\E S \in SUBSET Tx : Mine(S))
            /\ \A t \in Tx : WF_vars(\E S \in SUBSET Tx : t \in S /\ Mine(S))

FairSpec == Spec /\ Fairness

\* The collateral is not locked for ever, whether or not the oracles attest: a
\* funding transaction that is settled is eventually spent by a settled closing
\* transaction.  The one exception is a refund that the network accepted and
\* then dropped: a Refunded contract is not looked at again.
FundsReleased ==
    (conf["fund"] >= SafeConf)
        ~> \/ \E t \in Closings : conf[t] >= SafeConf
           \/ "refund" \in seen /\ ~Known("refund")

\* A stale write that puts a closed contract back to PreClosed, or a crash
\* before the write, is repaired by a later check.
PreClosedSettles == \A p \in Honest :
    (db[p].st = "PreClosed" /\ conf[db[p].tx] >= SafeConf) ~> (db[p].st = "Closed")

\* The party that proposed a cooperative close notices that it happened: the
\* contract stays Confirmed only until the close transaction is broadcast and
\* settled.  Once the event is attested it may never notice: the refused CET
\* ends check_confirmed_contract before it looks at pending_close_txs.
PendingCloseDetected == \A p \in Honest :
    (\E t \in db[p].pend : conf[t] >= SafeConf)
        ~> db[p].st # "Confirmed" \/ attested # {}
=============================================================================
