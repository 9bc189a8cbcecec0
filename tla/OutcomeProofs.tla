---------------------------- MODULE OutcomeProofs ----------------------------
(***************************************************************************)
(* Proofs about how a contract comes to its outcome: Execution, from the   *)
(* funding transaction to the one that closes it, and Kormir, the oracle   *)
(* that attests to the outcome.                                            *)
(*                                                                         *)
(* Execution: the stored record of a contract is never ahead of the        *)
(* network, for any number of CETs and closing transactions, any           *)
(* NB_CONFIRMATIONS, any lock times, any number of crashes, evictions and  *)
(* reorganisations, and any interleaving of the periodic check with the    *)
(* direct calls.                                                           *)
(*                                                                         *)
(* Kormir: for any number of tasks, events, outcomes and digits, no nonce  *)
(* signs two messages and none is announced twice, and a number is         *)
(* attested as the nearest one its digits can write.                       *)
(*                                                                         *)
(* An index belongs to one event from the moment it is drawn: the counter  *)
(* only grows, and an identifier is requested once.  The copy of a record  *)
(* that a task signs stays true but for its signatures, as save_signatures *)
(* stores them only where there are none, and nothing removes a record.    *)
(*                                                                         *)
(* What is signed is the request of the task that signed it, so the rest   *)
(* is arithmetic: the digits are the number's binary ones, and what they   *)
(* are worth together is the number, in whatever order they are summed.    *)
(***************************************************************************)
EXTENDS Execution, Kormir, FiniteSetTheorems, WellFoundedInduction, TLAPS

-----------------------------------------------------------------------------
(***************************************************************************)
(* The ledger: the network never holds two transactions that spend the     *)
(* same output, and a settled transaction stays settled.  Of the constants *)
(* of Ledger only LedgerConstants is used, which this module's ones meet.  *)
(***************************************************************************)
LedgerConstants == /\ SafeConf \in Nat \ {0}
                   /\ Parent \in [Tx -> Tx \union {NoTx}]
                   /\ NoTx \notin Tx
                   /\ \A t \in Tx : Parent[t] # t

\* What a step never undoes: settled stays settled, seen stays seen.
Monotone == /\ \A t \in Tx : conf[t] >= SafeConf => conf'[t] >= SafeConf
            /\ seen \subseteq seen'

\* The constants of Execution meet the ledger's requirements.
LEMMA NetworkConstants ==
    /\ LedgerConstants
    /\ SafeConf \in Nat \ {0}
    /\ "refund" \in Closings /\ Closings \subseteq Tx /\ Closes \subseteq Closings
    /\ Cets \subseteq Closings /\ NoTx \notin Closings
<1>1. SafeConf \in Nat \ {0}
  BY ExecutionAssumption DEF SafeConf
<1>2. /\ Parent \in [Tx -> Tx \union {NoTx}] /\ NoTx \notin Tx
      /\ \A t \in Tx : Parent[t] # t
  BY ExecutionAssumption DEF Parent, Tx, Closings
<1>. QED BY <1>1, <1>2 DEF LedgerConstants, Closings, Tx

\* send_transaction of a transaction the network takes.
LEMMA SendPreserves ==
    ASSUME LedgerConstants, LedgerTypeOK, LedgerInv,
           NEW t \in Tx, SendSucceeds(t), Send(t)
    PROVE  LedgerTypeOK' /\ LedgerInv' /\ Monotone
<1>. USE DEF LedgerConstants, LedgerTypeOK, Known, Rivals
<1>1. LedgerTypeOK' /\ Monotone
  BY DEF Send, Monotone
<1>2. conf' = conf /\ mempool' \subseteq mempool \union {t} /\ seen' = seen \union {t}
  BY DEF Send
<1>3. CASE Known(t)
  <2>1. mempool' = mempool
    BY <1>3 DEF Send
  <2>. QED BY <2>1, <1>1, <1>2 DEF LedgerInv, NoDoubleSpend, ParentsKnown, ParentsFirst, ViewsAgree
<1>4. CASE ~Known(t)
  <2>1. Acceptable(t) /\ mempool' = mempool \union {t}
    BY <1>4 DEF SendSucceeds, Send
  <2>. QED BY <2>1, <1>4, <1>1, <1>2 DEF LedgerInv, NoDoubleSpend, ParentsKnown, ParentsFirst, ViewsAgree, Acceptable
<1>. QED BY <1>1, <1>3, <1>4

\* A block.
LEMMA MinePreserves ==
    ASSUME LedgerConstants, LedgerTypeOK, LedgerInv,
           NEW S, MineBlock(S)
    PROVE  LedgerTypeOK' /\ LedgerInv' /\ Monotone
<1>. USE DEF LedgerConstants, LedgerTypeOK, Known, Rivals
<1>1. \A t \in Tx : conf'[t] = IF t \in S THEN 1
                               ELSE IF conf[t] \in 1..(SafeConf - 1) THEN conf[t] + 1
                               ELSE conf[t]
  BY DEF MineBlock
<1>2. /\ S \subseteq mempool /\ mempool' = mempool \ S /\ seen' = seen
      /\ \A t \in S : conf[t] = 0
      /\ conf' \in [Tx -> 0..SafeConf]
  <2>1. S \subseteq mempool /\ mempool' = mempool \ S /\ seen' = seen
    BY DEF MineBlock
  <2>2. \A t \in S : conf[t] = 0
    BY <2>1 DEF LedgerInv, ViewsAgree
  <2>3. \A t \in Tx : conf'[t] \in 0..SafeConf
    BY <1>1
  <2>4. conf' \in [Tx -> 0..SafeConf]
    BY <2>3, Zenon DEF MineBlock
  <2>. QED BY <2>1, <2>2, <2>4
<1>3. LedgerTypeOK'
  BY <1>2
<1>4. Monotone
  BY <1>1, <1>2 DEF Monotone
<1>5. \A t \in Tx : /\ conf[t] > 0 => conf'[t] > 0
                    /\ conf'[t] > 0 => conf[t] > 0 \/ t \in S
  BY <1>1
<1>6. \A t \in Tx : Known(t)' <=> Known(t)
  BY <1>1, <1>2, <1>5
<1>7. \A t \in S : Parent[t] # NoTx => conf[Parent[t]] > 0 \/ Parent[t] \in S
  BY DEF MineBlock
<1>8. LedgerInv'
  <2>1. NoDoubleSpend' /\ ParentsKnown'
    BY <1>6 DEF LedgerInv, NoDoubleSpend, ParentsKnown
  <2>2. ViewsAgree'
    BY <1>1, <1>2, <1>6 DEF LedgerInv, ViewsAgree
  <2>3. ParentsFirst'
    <3>. SUFFICES ASSUME NEW t \in Tx, conf'[t] > 0, Parent[t] # NoTx
                  PROVE  conf'[Parent[t]] > 0
      BY DEF ParentsFirst
    <3>1. Parent[t] \in Tx
      OBVIOUS
    <3>2. conf[Parent[t]] > 0 \/ Parent[t] \in S
      BY <1>5, <1>7 DEF LedgerInv, ParentsFirst
    <3>3. CASE Parent[t] \in S
      <4>1. conf'[Parent[t]] = 1
        BY <3>1, <3>3, <1>1
      <4>. QED BY <4>1
    <3>. QED BY <3>1, <3>2, <3>3, <1>5
  <2>. QED BY <2>1, <2>2, <2>3 DEF LedgerInv
<1>. QED BY <1>3, <1>4, <1>8

\* An eviction or a reorganisation.
LEMMA FaultPreserves ==
    ASSUME LedgerConstants, LedgerTypeOK, LedgerInv,
           NEW t \in Tx, Evict(t) \/ Reorg(t)
    PROVE  LedgerTypeOK' /\ LedgerInv' /\ Monotone
<1>. USE DEF LedgerConstants, LedgerTypeOK, Known, Rivals
<1>1. CASE Evict(t)
  <2>1. PICK D \in SUBSET mempool :
             /\ \A u \in mempool : Parent[u] \in D => u \in D
             /\ mempool' = mempool \ D
             /\ conf' = conf /\ seen' = seen
    BY <1>1 DEF Evict
  <2>. QED BY <2>1 DEF LedgerInv, NoDoubleSpend, ParentsKnown, ParentsFirst, ViewsAgree, Monotone
<1>2. CASE Reorg(t)
  <2>1. /\ conf[t] > 0 /\ conf[t] < SafeConf
        /\ \A u \in Tx : Parent[u] = t => conf[u] = 0
        /\ mempool' = mempool \union {t} /\ seen' = seen
        /\ conf' = [conf EXCEPT ![t] = 0]
    BY <1>2 DEF Reorg
  <2>2. \A u \in Tx : /\ Known(u)' <=> Known(u)
                      /\ u # t => conf'[u] = conf[u]
    BY <2>1
  <2>. QED BY <2>1, <2>2 DEF LedgerInv, NoDoubleSpend, ParentsKnown, ParentsFirst, ViewsAgree, Monotone
<1>. QED BY <1>1, <1>2

\* A node relays a transaction again.
LEMMA RebroadcastPreserves ==
    ASSUME LedgerConstants, LedgerTypeOK, LedgerInv,
           NEW t \in Tx, Rebroadcast(t)
    PROVE  LedgerTypeOK' /\ LedgerInv' /\ Monotone
BY SendPreserves DEF Rebroadcast, SendSucceeds

\* A step of a party that does not use the network.
LEMMA NothingPreserves ==
    ASSUME LedgerConstants, LedgerTypeOK, LedgerInv, UNCHANGED <<mempool, conf, seen>>
    PROVE  LedgerTypeOK' /\ LedgerInv' /\ Monotone
BY DEF LedgerConstants, LedgerTypeOK, LedgerInv, NoDoubleSpend, ParentsKnown, ParentsFirst, ViewsAgree, Known, Rivals, Monotone

\* What one step of the network, or none, does to the ledger.
NetworkStep == \/ \E t \in Tx : SendSucceeds(t) /\ Send(t)
               \/ \E S \in SUBSET Tx : MineBlock(S)
               \/ \E t \in Tx : Evict(t) \/ Reorg(t)
               \/ \E t \in Tx : Rebroadcast(t)
               \/ UNCHANGED netVars

\* Each of these keeps the ledger's invariant.
LEMMA NetworkPreserves ==
    ASSUME LedgerTypeOK, LedgerInv, NetworkStep
    PROVE  /\ LedgerTypeOK' /\ LedgerInv'
           /\ \A t \in Tx : conf[t] >= SafeConf => conf'[t] >= SafeConf
           /\ seen \subseteq seen'
<1>1. LedgerConstants
  BY NetworkConstants
<1>2. CASE UNCHANGED netVars
  BY <1>1, <1>2, NothingPreserves DEF netVars, Monotone
<1>. QED BY <1>1, <1>2, SendPreserves, MinePreserves, FaultPreserves, RebroadcastPreserves
         DEF NetworkStep, Monotone

-----------------------------------------------------------------------------
(***************************************************************************)
(* The invariant as membership in sets, so that a step that changes one    *)
(* task of one party is one EXCEPT.                                        *)
(***************************************************************************)
Records(cf, sn) == {c \in Contract : Backed(c, cf, sn)}
Actors(cf, sn) == {a \in Actor :
    /\ a.snap \in Records(cf, sn) /\ a.new \in Records(cf, sn)
    /\ a.at = "preclosed" /\ a.step = "act" => a.snap.st = "PreClosed"}
Calls(cf, sn) == {i \in Api :
    /\ i.snap \in Records(cf, sn) /\ i.new \in Records(cf, sn)
    /\ i.op # "idle" => i.tx # NoTx
    /\ i.op = "coop" => i.tx \in Closes}

EnvOK == /\ now \in 0..MaxTime /\ attested \subseteq Cets
         /\ closeMsgs \subseteq CloseMsg
         /\ faults \in 0..MaxFaults /\ drops \in 0..MaxDrops

IInv == /\ LedgerTypeOK /\ LedgerInv /\ EnvOK
        /\ db \in [Honest -> Records(conf, seen)]
        /\ actor \in [Honest -> Actors(conf, seen)]
        /\ api \in [Honest -> Calls(conf, seen)]

\* The set form implies the invariants the runs check.
LEMMA IInvImplies == IInv => TypeOK /\ LedgerInv /\ CopiesAreBacked
<1>. SUFFICES ASSUME IInv PROVE TypeOK /\ LedgerInv /\ CopiesAreBacked
  OBVIOUS
<1>1. TypeOK
  <2>1. db \in [Honest -> Contract] /\ actor \in [Honest -> Actor] /\ api \in [Honest -> Api]
    BY DEF IInv, Records, Actors, Calls
  <2>. QED BY <2>1 DEF IInv, EnvOK, TypeOK
<1>2. CopiesAreBacked
  <2>. SUFFICES ASSUME NEW p \in Honest
                PROVE  /\ \A c \in {db[p], actor[p].snap, actor[p].new, api[p].snap, api[p].new} :
                            Backed(c, conf, seen)
                       /\ actor[p].at = "preclosed" /\ actor[p].step = "act"
                            => actor[p].snap.st = "PreClosed"
                       /\ api[p].op # "idle" => api[p].tx # NoTx
                       /\ api[p].op = "coop" => api[p].tx \in Closes
    BY DEF CopiesAreBacked
  <2>1. db[p] \in Records(conf, seen) /\ actor[p] \in Actors(conf, seen) /\ api[p] \in Calls(conf, seen)
    BY DEF IInv
  <2>. QED BY <2>1 DEF Records, Actors, Calls
<1>. QED BY <1>1, <1>2 DEF IInv

\* A justified copy stays justified whatever the network does next.
LEMMA CopiesCarryOver ==
    ASSUME LedgerTypeOK, LedgerInv, NetworkStep
    PROVE  /\ Records(conf, seen) \subseteq Records(conf', seen')
           /\ Actors(conf, seen) \subseteq Actors(conf', seen')
           /\ Calls(conf, seen) \subseteq Calls(conf', seen')
<1>1. Records(conf, seen) \subseteq Records(conf', seen')
  <2>. SUFFICES ASSUME NEW c \in Contract, Backed(c, conf, seen)
                PROVE  Backed(c, conf', seen')
    BY DEF Records
  <2>1. c.st = "Closed" => c.tx \in Tx
    BY NetworkConstants DEF Contract
  <2>. QED BY <2>1, NetworkPreserves DEF Backed
<1>2. Actors(conf, seen) \subseteq Actors(conf', seen')
  BY <1>1 DEF Actors
<1>3. Calls(conf, seen) \subseteq Calls(conf', seen')
  BY <1>1 DEF Calls
<1>. QED BY <1>1, <1>2, <1>3

\* The records the checks and the calls build.
LEMMA RecordTypes ==
    ASSUME NEW c \in Contract
    PROVE  /\ Confirmed(c) \in Contract /\ Confirmed(c).st = "Confirmed"
           /\ Refunded(c) \in Contract /\ Refunded(c).st = "Refunded"
           /\ Signed \in Contract /\ Signed.st = "Signed"
           /\ \A P \in SUBSET Closes : /\ [c EXCEPT !.pend = P] \in Contract
                                       /\ [c EXCEPT !.pend = P].st = c.st
                                       /\ [c EXCEPT !.pend = P].tx = c.tx
BY NetworkConstants
   DEF Contract, ContractState, Signed, Confirmed, Refunded

\* ... of a closing transaction
LEMMA ClosingTypes ==
    ASSUME NEW c \in Contract, NEW t \in Closings, NEW a \in BOOLEAN, NEW f \in BOOLEAN
    PROVE  /\ PreClosed(c, t, a, f) \in Contract
           /\ PreClosed(c, t, a, f).st = "PreClosed" /\ PreClosed(c, t, a, f).tx = t
           /\ Closed(c, t, a, f) \in Contract
           /\ Closed(c, t, a, f).st = "Closed" /\ Closed(c, t, a, f).tx = t
<1>. USE NetworkConstants DEF Contract, ContractState, PreClosed, Closed
<1>1. PreClosed(c, t, a, f) \in Contract
  OBVIOUS
<1>2. Closed(c, t, a, f) \in Contract
  OBVIOUS
<1>3. /\ PreClosed(c, t, a, f).st = "PreClosed" /\ PreClosed(c, t, a, f).tx = t
      /\ Closed(c, t, a, f).st = "Closed" /\ Closed(c, t, a, f).tx = t
  OBVIOUS
<1>. QED BY <1>1, <1>2, <1>3

\* ... and what justifies them.
LEMMA RecordsBuilt ==
    ASSUME NEW cf, NEW sn, NEW c \in Records(cf, sn)
    PROVE  /\ Confirmed(c) \in Records(cf, sn) /\ Signed \in Records(cf, sn)
           /\ "refund" \in sn => Refunded(c) \in Records(cf, sn)
           /\ \A P \in SUBSET Closes : [c EXCEPT !.pend = P] \in Records(cf, sn)
<1>1. c \in Contract
  BY DEF Records
<1>2. Confirmed(c) \in Records(cf, sn) /\ Signed \in Records(cf, sn)
  BY <1>1, RecordTypes DEF Records, Backed
<1>3. "refund" \in sn => Refunded(c) \in Records(cf, sn)
  BY <1>1, RecordTypes DEF Records, Backed
<1>4. \A P \in SUBSET Closes : [c EXCEPT !.pend = P] \in Records(cf, sn)
  BY <1>1, RecordTypes DEF Records, Backed
<1>. QED BY <1>2, <1>3, <1>4

\* A record of a closing transaction is justified once the network has seen
\* it, and a Closed one once it is settled.
LEMMA ClosingsBuilt ==
    ASSUME NEW cf, NEW sn, NEW c \in Records(cf, sn),
           NEW t \in Closings, NEW a \in BOOLEAN, NEW f \in BOOLEAN, t \in sn
    PROVE  /\ PreClosed(c, t, a, f) \in Records(cf, sn)
           /\ (ClosesAreChecked => cf[t] >= SafeConf) => Closed(c, t, a, f) \in Records(cf, sn)
<1>1. c \in Contract
  BY DEF Records
<1>. DEFINE pre == PreClosed(c, t, a, f)
            end == Closed(c, t, a, f)
<1>2. /\ pre \in Contract /\ pre.st = "PreClosed" /\ pre.tx = t
      /\ end \in Contract /\ end.st = "Closed" /\ end.tx = t
  BY <1>1, ClosingTypes
<1>. HIDE DEF pre, end
<1>3. pre \in Records(cf, sn) /\ ((ClosesAreChecked => cf[t] >= SafeConf) => end \in Records(cf, sn))
  <2>1. Backed(pre, cf, sn)
    BY ONLY <1>2, t \in sn DEF Backed
  <2>2. (ClosesAreChecked => cf[t] >= SafeConf) => Backed(end, cf, sn)
    BY ONLY <1>2, t \in sn DEF Backed
  <2>. QED BY ONLY <1>2, <2>1, <2>2 DEF Records
<1>. QED BY <1>3 DEF pre, end

\* The states the actor and the calls move to.
LEMMA ActorsBuilt ==
    ASSUME NEW cf, NEW sn, NEW a \in Actors(cf, sn), Signed \in Records(cf, sn)
    PROVE  /\ \A ph \in Phase : AtPhase(ph) \in Actors(cf, sn)
           /\ AtPhase(Following(a.at)) \in Actors(cf, sn)
           /\ \A c \in Records(cf, sn), s \in {"write", "writeThenRefund"} :
                [a EXCEPT !.step = s, !.new = c] \in Actors(cf, sn)
           /\ [a EXCEPT !.step = "refund"] \in Actors(cf, sn)
           /\ \A c \in Records(cf, sn) : (a.at = "preclosed" => c.st = "PreClosed")
                => [a EXCEPT !.step = "act", !.snap = c] \in Actors(cf, sn)
<1>. USE DEF Actors, Actor, Phase, Step
<1>0. \A c \in Records(cf, sn) : c \in Contract
  BY DEF Records
<1>1. \A ph \in Phase : AtPhase(ph) \in Actors(cf, sn)
  BY <1>0 DEF AtPhase
<1>2. Following(a.at) \in Phase
  BY DEF Following
<1>3. \A c \in Records(cf, sn), s \in {"write", "writeThenRefund"} :
         [a EXCEPT !.step = s, !.new = c] \in Actors(cf, sn)
  BY <1>0
<1>4. [a EXCEPT !.step = "refund"] \in Actors(cf, sn)
  BY <1>0
<1>5. \A c \in Records(cf, sn) : (a.at = "preclosed" => c.st = "PreClosed")
         => [a EXCEPT !.step = "act", !.snap = c] \in Actors(cf, sn)
  BY <1>0
<1>. QED BY <1>1, <1>2, <1>3, <1>4, <1>5

\* The states a call moves to.
LEMMA CallsBuilt ==
    ASSUME NEW cf, NEW sn, NEW i \in Calls(cf, sn), NEW c \in Records(cf, sn),
           Signed \in Records(cf, sn)
    PROVE  /\ NoCall \in Calls(cf, sn)
           /\ [i EXCEPT !.new = c, !.ready = TRUE] \in Calls(cf, sn)
           /\ \A op \in Op, t \in Closings : (op = "coop" => t \in Closes)
                => [NoCall EXCEPT !.op = op, !.tx = t, !.snap = c] \in Calls(cf, sn)
<1>. USE DEF Calls, Api, Op, NoCall
<1>0. c \in Contract /\ Signed \in Contract
  BY DEF Records
<1>1. NoCall \in Calls(cf, sn)
  BY <1>0
<1>2. [i EXCEPT !.new = c, !.ready = TRUE] \in Calls(cf, sn)
  BY <1>0
<1>3. ASSUME NEW op \in Op, NEW t \in Closings, op = "coop" => t \in Closes
      PROVE  [NoCall EXCEPT !.op = op, !.tx = t, !.snap = c] \in Calls(cf, sn)
  BY <1>0, <1>3, NetworkConstants
<1>. QED BY <1>1, <1>2, <1>3

\* A step, as the two halves every action consists of: what happens to the
\* network, and that the tasks end up in the sets above.
NewParty == /\ db' \in [Honest -> Records(conf', seen')]
            /\ actor' \in [Honest -> Actors(conf', seen')]
            /\ api' \in [Honest -> Calls(conf', seen')]

LEMMA StepPreserves ==
    ASSUME IInv, NetworkStep, NewParty, EnvOK'
    PROVE  IInv'
BY NetworkPreserves DEF IInv, NewParty

\* What every action may use of the invariant.
LEMMA Carried ==
    ASSUME IInv, NetworkStep
    PROVE  /\ db \in [Honest -> Records(conf', seen')]
           /\ actor \in [Honest -> Actors(conf', seen')]
           /\ api \in [Honest -> Calls(conf', seen')]
           /\ Signed \in Records(conf', seen')
           /\ LedgerTypeOK'
<1>1. Signed \in Records(conf', seen')
  <2>1. Signed \in Contract /\ Signed.st = "Signed"
    BY NetworkConstants DEF Signed, Contract, ContractState
  <2>. QED BY <2>1 DEF Records, Backed
<1>2. /\ Records(conf, seen) \subseteq Records(conf', seen')
      /\ Actors(conf, seen) \subseteq Actors(conf', seen')
      /\ Calls(conf, seen) \subseteq Calls(conf', seen')
  BY CopiesCarryOver DEF IInv
<1>. QED BY <1>1, <1>2, NetworkPreserves DEF IInv

\* An accepted send_transaction is a network step after which the transaction
\* has been seen.
LEMMA BroadcastFacts ==
    ASSUME IInv, NEW t \in Tx, Broadcast(t)
    PROVE  NetworkStep /\ t \in seen' /\ conf' = conf
BY DEF Broadcast, NetworkStep, Send

\* A refused send_transaction leaves the network alone.
LEMMA RefusedFacts ==
    ASSUME NEW t, Refused(t)
    PROVE  NetworkStep
BY DEF Refused, NetworkStep

\* What the network knows it has accepted at some point.
LEMMA KnownWasSeen ==
    ASSUME IInv, NEW t \in Tx, Known(t)
    PROVE  t \in seen
BY DEF IInv, LedgerInv, ViewsAgree

\* close_contract: what it returns is justified after what it sends.
LEMMA CloseContractFacts ==
    ASSUME IInv, NEW t \in Closings, CloseContractSends(t)
    PROVE  /\ NetworkStep
           /\ \A c \in Records(conf', seen') : CloseContract(c, t) \in Records(conf', seen')
<1>1. t \in Tx
  BY NetworkConstants
<1>2. NetworkStep /\ t \in seen' /\ conf' = conf
  <2>1. CASE conf[t] < 1
    BY <1>1, <2>1, BroadcastFacts DEF CloseContractSends
  <2>2. CASE ~(conf[t] < 1)
    <3>1. UNCHANGED netVars
      BY <2>2 DEF CloseContractSends
    <3>2. Known(t)
      BY <1>1, <2>2 DEF Known, IInv, LedgerTypeOK
    <3>. QED BY <1>1, <3>1, <3>2, KnownWasSeen DEF NetworkStep, netVars
  <2>. QED BY <2>1, <2>2
<1>3. ASSUME NEW c \in Records(conf', seen')
      PROVE  CloseContract(c, t) \in Records(conf', seen')
  <2>1. conf[t] \in Nat
    BY <1>1, NetworkConstants DEF IInv, LedgerTypeOK
  <2>2. ~(conf[t] < NB_CONFIRMATIONS \/ conf[t] < 1) => conf'[t] >= SafeConf
    BY <1>2, <2>1, ExecutionAssumption DEF SafeConf
  <2>. QED BY <1>2, <1>3, <2>2, ClosingsBuilt DEF CloseContract
<1>. QED BY <1>2, <1>3

-----------------------------------------------------------------------------
(***************************************************************************)
(* The actor's steps                                                       *)
(***************************************************************************)
\* The steps of periodic_check that touch neither the store nor the network.
LEMMA ActorQuiet ==
    ASSUME IInv, NEW p \in Honest,
           PeriodicCheck(p) \/ ReadContracts(p) \/ CheckFails(p) \/ CheckSignedContract(p)
    PROVE  IInv'
<1>1. NetworkStep /\ db' = db /\ api' = api
  BY DEF PeriodicCheck, ReadContracts, CheckFails, CheckSignedContract, NetworkStep
<1>2. EnvOK'
  BY ExecutionAssumption DEF PeriodicCheck, ReadContracts, CheckFails, CheckSignedContract,
       Fault, IInv, EnvOK, envVars
<1>3. /\ actor[p] \in Actors(conf', seen') /\ db[p] \in Records(conf', seen')
      /\ actor[p].snap \in Records(conf', seen') /\ Signed \in Records(conf', seen')
  BY <1>1, Carried DEF Actors
<1>4. \E a \in Actors(conf', seen') : SetActor(p, a)
  <2>1. CASE PeriodicCheck(p)
    BY <1>3, <2>1, ActorsBuilt DEF PeriodicCheck, Phase
  <2>2. CASE ReadContracts(p)
    <3>1. actor[p].at = "preclosed" /\ db[p].st = Listed(actor[p].at) => db[p].st = "PreClosed"
      BY DEF Listed
    <3>. QED BY <1>3, <2>2, <3>1, ActorsBuilt DEF ReadContracts, Advance
  <2>3. CASE CheckFails(p)
    BY <1>3, <2>3, ActorsBuilt DEF CheckFails, Advance
  <2>4. CASE CheckSignedContract(p)
    BY <1>3, <2>4, ActorsBuilt, RecordsBuilt DEF CheckSignedContract, Advance, ToWrite
  <2>. QED BY <2>1, <2>2, <2>3, <2>4
<1>5. NewParty
  BY <1>1, <1>4, Carried DEF NewParty, SetActor
<1>. QED BY <1>1, <1>2, <1>5, StepPreserves

\* check_confirmed_contract with attestations.
LEMMA ActorCloses ==
    ASSUME IInv, NEW p \in Honest, NEW t \in Cets, CheckConfirmedContract(p, t)
    PROVE  IInv'
<1>0. t \in Closings
  BY NetworkConstants
<1>1. db' = db /\ api' = api /\ EnvOK'
  BY DEF CheckConfirmedContract, IInv, EnvOK, envVars
<1>2. CASE CloseContractSends(t) /\ ToWrite(p, "write", CloseContract(actor[p].snap, t))
  <2>1. NetworkStep
    BY <1>0, <1>2, CloseContractFacts
  <2>2. /\ actor[p] \in Actors(conf', seen') /\ actor[p].snap \in Records(conf', seen')
        /\ Signed \in Records(conf', seen')
    BY <2>1, Carried DEF Actors
  <2>3. CloseContract(actor[p].snap, t) \in Records(conf', seen')
    BY <1>0, <1>2, <2>2, CloseContractFacts
  <2>4. NewParty
    BY <1>1, <1>2, <2>1, <2>2, <2>3, Carried, ActorsBuilt DEF NewParty, SetActor, ToWrite
  <2>. QED BY <1>1, <2>1, <2>4, StepPreserves
<1>3. CASE Refused(t) /\ Advance(p)
  <2>1. NetworkStep
    BY <1>3, RefusedFacts
  <2>2. actor[p] \in Actors(conf', seen') /\ Signed \in Records(conf', seen')
    BY <2>1, Carried
  <2>3. NewParty
    BY <1>1, <1>3, <2>1, <2>2, Carried, ActorsBuilt DEF NewParty, SetActor, Advance
  <2>. QED BY <1>1, <2>1, <2>3, StepPreserves
<1>. QED BY <1>2, <1>3 DEF CheckConfirmedContract

\* check_confirmed_contract without attestations.
LEMMA ActorPendingCloses ==
    ASSUME IInv, NEW p \in Honest, CheckPendingCloses(p)
    PROVE  IInv'
<1>1. NetworkStep /\ conf' = conf /\ seen' = seen /\ db' = db /\ api' = api
  BY DEF CheckPendingCloses, NetworkStep, netVars
<1>2. EnvOK'
  BY ExecutionAssumption DEF CheckPendingCloses, Fault, IInv, EnvOK, envVars
<1>3. /\ actor[p] \in Actors(conf', seen') /\ actor[p].snap \in Records(conf', seen')
      /\ Signed \in Records(conf', seen')
  BY <1>1, Carried DEF Actors
<1>4. \A t \in actor[p].snap.pend : t \in Closings /\ t \in Tx /\ conf[t] \in Nat
  <2>1. actor[p].snap.pend \subseteq Closes
    BY <1>3 DEF Records, Contract
  <2>. QED BY <2>1, NetworkConstants DEF IInv, LedgerTypeOK
<1>5. \A t \in actor[p].snap.pend : conf[t] >= 1 => t \in seen'
  BY <1>1, <1>4, KnownWasSeen DEF Known
<1>6. \E a \in Actors(conf', seen') : SetActor(p, a)
  <2>1. CASE \E t \in actor[p].snap.pend :
               /\ conf[t] >= SafeConf
               /\ ToWrite(p, "writeThenRefund", Closed(actor[p].snap, t, FALSE, FALSE))
    <3>1. PICK t \in actor[p].snap.pend :
               /\ conf[t] >= SafeConf
               /\ ToWrite(p, "writeThenRefund", Closed(actor[p].snap, t, FALSE, FALSE))
      BY <2>1
    <3>2. t \in seen' /\ conf'[t] >= SafeConf
      BY <1>1, <1>4, <1>5, <3>1, NetworkConstants
    <3>3. Closed(actor[p].snap, t, FALSE, FALSE) \in Records(conf', seen')
      BY <1>3, <1>4, <3>2, ClosingsBuilt
    <3>. QED BY <1>3, <3>1, <3>3, ActorsBuilt DEF ToWrite
  <2>2. CASE \E t \in actor[p].snap.pend :
               /\ conf[t] >= 1
               /\ ToWrite(p, "writeThenRefund", PreClosed(actor[p].snap, t, FALSE, FALSE))
    <3>1. PICK t \in actor[p].snap.pend :
               /\ conf[t] >= 1
               /\ ToWrite(p, "writeThenRefund", PreClosed(actor[p].snap, t, FALSE, FALSE))
      BY <2>2
    <3>2. PreClosed(actor[p].snap, t, FALSE, FALSE) \in Records(conf', seen')
      BY <1>3, <1>4, <1>5, <3>1, ClosingsBuilt
    <3>. QED BY <1>3, <3>1, <3>2, ActorsBuilt DEF ToWrite
  <2>3. CASE ToRefund(p)
    BY <1>3, <2>3, ActorsBuilt DEF ToRefund
  <2>. QED BY <2>1, <2>2, <2>3 DEF CheckPendingCloses
<1>7. NewParty
  BY <1>1, <1>6, Carried DEF NewParty, SetActor
<1>. QED BY <1>1, <1>2, <1>7, StepPreserves

\* check_refund.
LEMMA ActorRefunds ==
    ASSUME IInv, NEW p \in Honest, CheckRefund(p)
    PROVE  IInv'
<1>0. "refund" \in Tx /\ conf["refund"] \in Nat
  BY NetworkConstants DEF IInv, LedgerTypeOK
<1>1. db' = db /\ api' = api /\ EnvOK'
  BY DEF CheckRefund, IInv, EnvOK, envVars
<1>2. NetworkStep
  BY <1>0, BroadcastFacts, RefusedFacts DEF CheckRefund, NetworkStep
<1>3. /\ actor[p] \in Actors(conf', seen') /\ actor[p].snap \in Records(conf', seen')
      /\ db[p] \in Records(conf', seen') /\ Signed \in Records(conf', seen')
  BY <1>2, Carried DEF Actors
<1>4. \E a \in Actors(conf', seen') : SetActor(p, a)
  <2>1. CASE Advance(p)
    BY <1>3, <2>1, ActorsBuilt DEF Advance
  <2>2. CASE conf["refund"] > 0 /\ UNCHANGED netVars /\ ToWrite(p, "write", Refunded(actor[p].snap))
    <3>1. "refund" \in seen'
      BY <1>0, <2>2, KnownWasSeen DEF Known, netVars
    <3>. QED BY <1>3, <2>2, <3>1, RecordsBuilt, ActorsBuilt DEF ToWrite
  <2>3. CASE Broadcast("refund") /\ ToWrite(p, "write", Refunded(db[p]))
    <3>1. "refund" \in seen'
      BY <1>0, <2>3, BroadcastFacts
    <3>. QED BY <1>3, <2>3, <3>1, RecordsBuilt, ActorsBuilt DEF ToWrite
  <2>. QED BY <2>1, <2>2, <2>3 DEF CheckRefund
<1>5. NewParty
  BY <1>1, <1>2, <1>4, Carried DEF NewParty, SetActor
<1>. QED BY <1>1, <1>2, <1>5, StepPreserves

\* check_preclosed_contract.
LEMMA ActorPreclosed ==
    ASSUME IInv, NEW p \in Honest, CheckPreclosedContract(p)
    PROVE  IInv'
<1>. DEFINE c == actor[p].snap
<1>0. actor[p] \in Actors(conf, seen) /\ c \in Records(conf, seen) /\ c \in Contract
  BY DEF IInv, Actors, Records
<1>1. /\ c.st = "PreClosed" /\ c.tx \in Closings /\ c.tx \in Tx /\ conf[c.tx] \in Nat
      /\ c.att \in BOOLEAN /\ c.full \in BOOLEAN
  BY <1>0, NetworkConstants DEF CheckPreclosedContract, Actors, Contract, IInv, LedgerTypeOK
<1>2. db' = db /\ api' = api /\ EnvOK'
  BY ExecutionAssumption DEF CheckPreclosedContract, Fault, IInv, EnvOK, envVars
<1>3. NetworkStep
  BY <1>1, BroadcastFacts, RefusedFacts DEF CheckPreclosedContract, NetworkStep
<1>4. /\ actor[p] \in Actors(conf', seen') /\ c \in Records(conf', seen')
      /\ Signed \in Records(conf', seen')
  BY <1>3, Carried DEF Actors
<1>5. \E a \in Actors(conf', seen') : SetActor(p, a)
  <2>1. CASE Advance(p)
    BY <1>4, <2>1, ActorsBuilt DEF Advance
  <2>2. CASE ToWrite(p, "write", Confirmed(c))
    BY <1>4, <2>2, RecordsBuilt, ActorsBuilt DEF ToWrite
  <2>3. CASE /\ UNCHANGED netVars /\ conf[c.tx] >= SafeConf
             /\ ToWrite(p, "write", Closed(c, c.tx, c.att, c.full))
    <3>1. conf'[c.tx] >= SafeConf /\ c.tx \in seen'
      BY <1>1, <2>3, NetworkConstants, KnownWasSeen DEF Known, netVars
    <3>2. Closed(c, c.tx, c.att, c.full) \in Records(conf', seen')
      BY <1>1, <1>4, <3>1, ClosingsBuilt
    <3>. QED BY <1>4, <2>3, <3>2, ActorsBuilt DEF ToWrite
  <2>. QED BY <2>1, <2>2, <2>3 DEF CheckPreclosedContract
<1>6. NewParty
  BY <1>2, <1>3, <1>5, Carried DEF NewParty, SetActor
<1>. QED BY <1>2, <1>3, <1>6, StepPreserves

\* update_contract of the actor.
LEMMA ActorStores ==
    ASSUME IInv, NEW p \in Honest, ActorWrites(p)
    PROVE  IInv'
<1>1. NetworkStep /\ api' = api /\ EnvOK' /\ db' = [db EXCEPT ![p] = actor[p].new]
  BY DEF ActorWrites, NetworkStep, IInv, EnvOK, envVars
<1>2. /\ actor[p] \in Actors(conf', seen') /\ actor[p].new \in Records(conf', seen')
      /\ Signed \in Records(conf', seen')
  BY <1>1, Carried DEF Actors
<1>3. \E a \in Actors(conf', seen') : SetActor(p, a)
  BY <1>2, ActorsBuilt DEF ActorWrites, Advance, ToRefund
<1>4. NewParty
  BY <1>1, <1>2, <1>3, Carried DEF NewParty, SetActor
<1>. QED BY <1>1, <1>4, StepPreserves

-----------------------------------------------------------------------------
(***************************************************************************)
(* The direct calls                                                        *)
(***************************************************************************)

\* The steps of a call that build the record to be written.
LEMMA CallBuilds ==
    ASSUME IInv, NEW p \in Honest,
           \/ CloseConfirmedContract(p) \/ CheckAndBroadcastRefund(p)
           \/ CooperativeCloseContract(p) \/ AcceptCooperativeClose(p)
    PROVE  IInv'
<1>. DEFINE i == api[p]
<1>0. /\ i \in Calls(conf, seen) /\ i.tx \in Closings /\ i.tx \in Tx
      /\ i.op = "coop" => i.tx \in Closes
      /\ "refund" \in Tx /\ conf["refund"] \in Nat
  <2>1. i \in Calls(conf, seen)
    BY DEF IInv
  <2>2. i.op # "idle"
    BY DEF CloseConfirmedContract, CheckAndBroadcastRefund, CooperativeCloseContract,
           AcceptCooperativeClose, Running
  <2>. QED BY <2>1, <2>2, NetworkConstants DEF Calls, Api, IInv, LedgerTypeOK
<1>1. db' = db /\ actor' = actor /\ EnvOK'
  BY DEF CloseConfirmedContract, CheckAndBroadcastRefund, CooperativeCloseContract,
         AcceptCooperativeClose, IInv, EnvOK, envVars
<1>2. NetworkStep
  BY <1>0, BroadcastFacts, CloseContractFacts
     DEF CloseConfirmedContract, CheckAndBroadcastRefund, CooperativeCloseContract,
         AcceptCooperativeClose, NetworkStep
<1>3. /\ i \in Calls(conf', seen') /\ i.snap \in Records(conf', seen')
      /\ Signed \in Records(conf', seen')
  BY <1>2, Carried DEF Calls
<1>4. \E c \in Records(conf', seen') : ApiReady(p, c)
  <2>1. CASE CloseConfirmedContract(p)
    BY <1>0, <1>3, <2>1, CloseContractFacts DEF CloseConfirmedContract
  <2>2. CASE CheckAndBroadcastRefund(p)
    <3>1. "refund" \in seen'
      <4>1. CASE conf["refund"] = 0
        BY <1>0, <2>2, <4>1, BroadcastFacts DEF CheckAndBroadcastRefund
      <4>2. CASE conf["refund"] # 0
        BY <1>0, <2>2, <4>2, KnownWasSeen DEF CheckAndBroadcastRefund, Known, netVars
      <4>. QED BY <4>1, <4>2
    <3>. QED BY <1>3, <2>2, <3>1, RecordsBuilt DEF CheckAndBroadcastRefund
  <2>3. CASE CooperativeCloseContract(p)
    <3>1. i.snap.pend \union {i.tx} \in SUBSET Closes
      <4>1. i.snap.pend \subseteq Closes
        BY <1>3 DEF Records, Contract
      <4>2. i.tx \in Closes
        BY <1>0, <2>3 DEF CooperativeCloseContract, Running
      <4>. QED BY <4>1, <4>2
    <3>2. [i.snap EXCEPT !.pend = i.snap.pend \union {i.tx}] \in Records(conf', seen')
      BY <1>3, <3>1, RecordsBuilt
    <3>. QED BY <2>3, <3>2 DEF CooperativeCloseContract
  <2>4. CASE AcceptCooperativeClose(p)
    <3>1. i.tx \in seen'
      BY <1>0, <2>4, BroadcastFacts DEF AcceptCooperativeClose
    <3>2. PreClosed(i.snap, i.tx, FALSE, TRUE) \in Records(conf', seen')
      BY <1>0, <1>3, <3>1, ClosingsBuilt
    <3>. QED BY <2>4, <3>2 DEF AcceptCooperativeClose
  <2>. QED BY <2>1, <2>2, <2>3, <2>4
<1>5. PICK c \in Records(conf', seen') : ApiReady(p, c)
  BY <1>4
<1>6. [api[p] EXCEPT !.new = c, !.ready = TRUE] \in Calls(conf', seen')
  BY <1>3, CallsBuilt
<1>7. NewParty
  BY <1>1, <1>2, <1>5, <1>6, Carried DEF NewParty, SetApi, ApiReady
<1>. QED BY <1>1, <1>2, <1>7, StepPreserves

\* The steps that begin, end or abandon a call.
LEMMA CallMoves ==
    ASSUME IInv, NEW p \in Honest,
           \/ \E op \in Op, t \in Closings : ApiBegins(p, op, t)
           \/ ApiFails(p) \/ ApiBreaks(p) \/ ApiWrites(p) \/ Crash(p)
    PROVE  IInv'
<1>1. NetworkStep
  BY DEF ApiBegins, ApiFails, ApiBreaks, ApiWrites, Crash, NetworkStep
<1>2. /\ api[p] \in Calls(conf', seen') /\ db[p] \in Records(conf', seen')
      /\ Signed \in Records(conf', seen') /\ actor[p] \in Actors(conf', seen')
      /\ api[p].new \in Records(conf', seen') /\ api[p].tx \in Closings \union {NoTx}
  BY <1>1, Carried DEF Calls, Api
<1>3. EnvOK'
  <2>1. CASE ApiWrites(p)
    <3>1. closeMsgs' \subseteq CloseMsg
      <4>1. CASE api[p].op = "coop"
        <5>1. api[p].tx \in Closes /\ Other(p) \in Party
          BY <1>2, <4>1 DEF Calls, Other, Party
        <5>. QED BY <2>1, <4>1, <5>1 DEF ApiWrites, CloseMsg, IInv, EnvOK
      <4>2. CASE api[p].op # "coop"
        BY <2>1, <4>2 DEF ApiWrites, IInv, EnvOK
      <4>. QED BY <4>1, <4>2
    <3>. QED BY <2>1, <3>1 DEF ApiWrites, IInv, EnvOK, envVars
  <2>2. CASE \E op \in Op, t \in Closings : ApiBegins(p, op, t)
    BY <2>2 DEF ApiBegins, IInv, EnvOK, envVars
  <2>3. CASE ApiFails(p)
    BY <2>3 DEF ApiFails, IInv, EnvOK, envVars
  <2>4. CASE ApiBreaks(p) \/ Crash(p)
    BY <2>4, ExecutionAssumption DEF ApiBreaks, Crash, Fault, IInv, EnvOK, envVars
  <2>. QED BY <2>1, <2>2, <2>3, <2>4
<1>4. NewParty
  <2>1. CASE \E op \in Op, t \in Closings : ApiBegins(p, op, t)
    <3>1. PICK op \in Op, t \in Closings : ApiBegins(p, op, t)
      BY <2>1
    <3>2. op = "coop" => t \in Closes
      BY <3>1 DEF ApiBegins
    <3>3. [NoCall EXCEPT !.op = op, !.tx = t, !.snap = db[p]] \in Calls(conf', seen')
      BY <1>2, <3>2, CallsBuilt
    <3>. QED BY <1>1, <3>1, <3>3, Carried DEF ApiBegins, SetApi, NewParty
  <2>2. NoCall \in Calls(conf', seen') /\ AtPhase("idle") \in Actors(conf', seen')
    BY <1>2, CallsBuilt, ActorsBuilt DEF Phase
  <2>3. CASE ApiFails(p) \/ ApiBreaks(p)
    BY <1>1, <2>2, <2>3, Carried DEF ApiFails, ApiBreaks, SetApi, NewParty
  <2>4. CASE ApiWrites(p)
    BY <1>1, <1>2, <2>2, <2>4, Carried DEF ApiWrites, SetApi, NewParty
  <2>5. CASE Crash(p)
    BY <1>1, <2>2, <2>5, Carried DEF Crash, SetApi, SetActor, NewParty
  <2>. QED BY <2>1, <2>3, <2>4, <2>5
<1>. QED BY <1>1, <1>3, <1>4, StepPreserves

\* on_counterparty_close.
LEMMA CounterpartyCloses ==
    ASSUME IInv, NEW p \in Honest, NEW t \in Closings, NEW n \in 0..SafeConf,
           OnCounterpartyClose(p, t, n)
    PROVE  IInv'
<1>1. /\ NetworkStep /\ conf' = conf /\ seen' = seen /\ EnvOK'
      /\ actor' = actor /\ api' = api
  BY DEF OnCounterpartyClose, NetworkStep, netVars, IInv, EnvOK, envVars
<1>2. t \in Tx /\ conf[t] \in Nat /\ db[p] \in Records(conf', seen')
  BY <1>1, Carried, NetworkConstants DEF IInv, LedgerTypeOK
<1>3. t \in seen'
  BY <1>1, <1>2, KnownWasSeen DEF OnCounterpartyClose
<1>4. n >= NB_CONFIRMATIONS => (ClosesAreChecked => conf'[t] >= SafeConf)
  BY <1>1, <1>2, ExecutionAssumption, NetworkConstants
     DEF OnCounterpartyClose, ClosesAreChecked, SafeConf
<1>5. \E c \in Records(conf', seen') : db' = [db EXCEPT ![p] = c]
  <2>1. CASE t = "refund"
    BY <1>2, <1>3, <2>1, RecordsBuilt DEF OnCounterpartyClose
  <2>2. CASE t # "refund" /\ n < NB_CONFIRMATIONS
    BY <1>2, <1>3, <2>2, ClosingsBuilt DEF OnCounterpartyClose
  <2>3. CASE t # "refund" /\ ~(n < NB_CONFIRMATIONS)
    <3>1. n >= NB_CONFIRMATIONS
      BY <2>3, ExecutionAssumption, NetworkConstants
    <3>2. Closed(db[p], t, FALSE, TRUE) \in Records(conf', seen')
      BY <1>2, <1>3, <1>4, <3>1, ClosingsBuilt
    <3>. QED BY <2>3, <3>2 DEF OnCounterpartyClose
  <2>. QED BY <2>1, <2>2, <2>3
<1>6. NewParty
  BY <1>1, <1>5, Carried DEF NewParty
<1>. QED BY <1>1, <1>6, StepPreserves

\* The chain, the clock, the oracles and a counter party that runs other code.
LEMMA EnvironmentSteps ==
    ASSUME IInv, Environment
    PROVE  IInv'
<1>1. NetworkStep
  <2>. USE DEF NetworkStep
  <2>1. CASE \E S \in SUBSET Tx : Mine(S)
    BY <2>1 DEF Mine
  <2>2. CASE Tick \/ \E t \in Cets : OracleAttests(t)
    BY <2>2 DEF Tick, OracleAttests
  <2>3. CASE \E t \in Tx : NetworkFault(t) \/ Relay(t)
    BY <2>3 DEF NetworkFault, Relay
  <2>4. CASE \E q \in Party, t \in Tx : PeerPublishes(q, t)
    BY <2>4 DEF PeerPublishes, SendSucceeds
  <2>5. CASE \E q \in Party, t \in Closes : PeerProposes(q, t)
    BY <2>5 DEF PeerProposes
  <2>. QED BY <2>1, <2>2, <2>3, <2>4, <2>5 DEF Environment
<1>2. db' = db /\ actor' = actor /\ api' = api
  BY DEF Environment, Mine, Tick, OracleAttests, NetworkFault, Relay, PeerPublishes,
         PeerProposes, partyVars
<1>3. EnvOK'
  <2>. USE ExecutionAssumption DEF IInv, EnvOK, envVars
  <2>1. CASE \E S \in SUBSET Tx : Mine(S)
    BY <2>1 DEF Mine
  <2>2. CASE Tick
    BY <2>2 DEF Tick
  <2>3. CASE \E t \in Cets : OracleAttests(t)
    BY <2>3 DEF OracleAttests
  <2>4. CASE \E t \in Tx : NetworkFault(t) \/ Relay(t)
    BY <2>4 DEF NetworkFault, Relay
  <2>5. CASE \E q \in Party, t \in Tx : PeerPublishes(q, t)
    BY <2>5 DEF PeerPublishes
  <2>6. CASE \E q \in Party, t \in Closes : PeerProposes(q, t)
    <3>1. PICK q \in Party, t \in Closes : PeerProposes(q, t)
      BY <2>6
    <3>2. [to |-> Other(q), tx |-> t] \in CloseMsg
      BY DEF CloseMsg, Other, Party
    <3>. QED BY <3>1, <3>2 DEF PeerProposes
  <2>. QED BY <2>1, <2>2, <2>3, <2>4, <2>5, <2>6 DEF Environment
<1>4. NewParty
  BY <1>1, <1>2, Carried DEF NewParty
<1>. QED BY <1>1, <1>3, <1>4, StepPreserves

-----------------------------------------------------------------------------
(***************************************************************************)
(* The theorems                                                            *)
(***************************************************************************)
\* A contract that both parties have just signed satisfies the invariant.
LEMMA InitEstablishes == Init => IInv
<1>. SUFFICES ASSUME Init PROVE IInv
  OBVIOUS
<1>1. LedgerTypeOK
  BY NetworkConstants DEF Init, LedgerTypeOK, Tx
<1>2. LedgerInv
  <2>1. \A t \in Tx : conf[t] = 0 /\ (Known(t) => t = "fund" /\ t \in seen)
    BY DEF Init, Known
  <2>2. Parent["fund"] = NoTx /\ "fund" \in Tx
    BY DEF Parent, Tx
  <2>. QED BY <2>1, <2>2 DEF LedgerInv, NoDoubleSpend, ParentsKnown, ParentsFirst,
                              ViewsAgree, Rivals, Init
<1>3. EnvOK
  BY ExecutionAssumption DEF Init, EnvOK
<1>4. Signed \in Records(conf, seen)
  <2>1. Signed \in Contract /\ Signed.st = "Signed"
    BY NetworkConstants DEF Signed, Contract, ContractState
  <2>. QED BY <2>1 DEF Records, Backed
<1>5. AtPhase("idle") \in Actors(conf, seen)
  BY <1>4 DEF AtPhase, Actors, Actor, Phase, Step, Records
<1>6. NoCall \in Calls(conf, seen)
  BY <1>4 DEF NoCall, Calls, Api, Op, Records
<1>. QED BY <1>1, <1>2, <1>3, <1>4, <1>5, <1>6 DEF Init, IInv

\* Every step preserves the invariant.
LEMMA NextPreserves == IInv /\ [Next]_vars => IInv'
<1>. SUFFICES ASSUME IInv, [Next]_vars PROVE IInv'
  OBVIOUS
<1>1. ASSUME NEW p \in Honest, ActorStep(p) PROVE IInv'
  BY <1>1, ActorQuiet, ActorCloses, ActorPendingCloses, ActorRefunds, ActorPreclosed, ActorStores
     DEF ActorStep
<1>2. ASSUME NEW p \in Honest, ApiStep(p) PROVE IInv'
  BY <1>2, CallBuilds, CallMoves DEF ApiStep
<1>3. ASSUME NEW p \in Honest,
             \/ CheckFails(p) \/ ApiBreaks(p) \/ Crash(p)
             \/ \E op \in Op, t \in Closings : ApiBegins(p, op, t)
      PROVE  IInv'
  BY <1>3, ActorQuiet, CallMoves
<1>4. ASSUME NEW p \in Honest,
             \E t \in Closings, n \in 0..SafeConf : OnCounterpartyClose(p, t, n)
      PROVE  IInv'
  BY <1>4, CounterpartyCloses
<1>5. CASE Environment
  BY <1>5, EnvironmentSteps
<1>6. CASE UNCHANGED vars
  <2>1. NetworkStep /\ EnvOK' /\ db' = db /\ actor' = actor /\ api' = api
    BY <1>6 DEF vars, NetworkStep, netVars, IInv, EnvOK
  <2>. QED BY <2>1, Carried, StepPreserves DEF NewParty
<1>. QED BY <1>1, <1>2, <1>3, <1>4, <1>5, <1>6 DEF Next

\* The invariant from which the theorems below follow.
THEOREM InductiveInvariant == Spec => []IInv
BY InitEstablishes, NextPreserves, PTL DEF Spec

\* The stores, the tasks and the network stay within their types; in
\* particular a record holds a closing transaction exactly when it is
\* PreClosed or Closed, also when a check moves it back to Confirmed.
THEOREM TypeCorrect == Spec => []TypeOK
BY InductiveInvariant, IInvImplies, PTL

\* Every copy of the record that a task holds is justified by the network,
\* so that a late update_contract writes nothing unjustified.
THEOREM StaleCopiesAreBacked == Spec => []CopiesAreBacked
BY InductiveInvariant, IInvImplies, PTL

\* send_transaction comes before update_contract in every handler: a record
\* never names a closing transaction the network has not accepted.
THEOREM NeverAheadOfTheNetwork == Spec => []RecordedWasBroadcast
<1>1. IInv => RecordedWasBroadcast
  BY IInvImplies DEF CopiesAreBacked, Backed, RecordedWasBroadcast
<1>. QED BY <1>1, InductiveInvariant, PTL

\* A contract is recorded as Closed only when its closing transaction is
\* settled, provided that NB_CONFIRMATIONS is positive or the application
\* does not call on_counterparty_close.
THEOREM ClosedOnlyWhenSettled ==
    ASSUME ClosesAreChecked
    PROVE  Spec => []ClosedIsSettled
<1>1. IInv => ClosedIsSettled
  BY IInvImplies DEF CopiesAreBacked, Backed, ClosedIsSettled
<1>. QED BY <1>1, InductiveInvariant, PTL

\* Two parties that both consider the contract closed agree on the
\* transaction that closed it, although they never talk about it.
THEOREM PartiesAgree ==
    ASSUME ClosesAreChecked
    PROVE  Spec => []OneOutcome
<1>1. ASSUME IInv PROVE OneOutcome
  <2>. SUFFICES ASSUME NEW p \in Honest, NEW q \in Honest,
                       db[p].st = "Closed", db[q].st = "Closed"
                PROVE  db[p].tx = db[q].tx
    BY DEF OneOutcome
  <2>1. /\ conf[db[p].tx] >= SafeConf /\ conf[db[q].tx] >= SafeConf
        /\ db[p].tx \in Closings /\ db[q].tx \in Closings
    <3>1. db[p] \in Contract /\ db[q] \in Contract
      BY <1>1, IInvImplies DEF TypeOK
    <3>. QED BY <1>1, <3>1, IInvImplies DEF CopiesAreBacked, Backed, Contract
  <2>2. Known(db[p].tx) /\ Known(db[q].tx)
    BY <1>1, <2>1, NetworkConstants DEF Known, IInv, LedgerTypeOK
  <2>3. db[p].tx # db[q].tx => db[q].tx \in Rivals(db[p].tx)
    BY <2>1, ExecutionAssumption DEF Rivals, Parent, Tx, Closings
  <2>. QED BY <1>1, <2>1, <2>2, <2>3, NetworkConstants DEF IInv, LedgerInv, NoDoubleSpend
<1>. QED BY <1>1, InductiveInvariant, PTL

-----------------------------------------------------------------------------
(***************************************************************************)
(* The oracle.                                                             *)
(***************************************************************************)
Creating(t) == call[t] # None /\ call[t].op = "create"
Signing(t) == call[t] # None /\ call[t].op = "sign"

\* Indexes drawn from a counter that is now c, for one message or more.
Drawn(s, c) ==
    /\ DOMAIN s # {}
    /\ \A i \in DOMAIN s : s[i] \in Nat /\ s[i] < c
    /\ \A i, j \in DOMAIN s : s[i] = s[j] => i = j
Apart(s, u) == \A i \in DOMAIN s, j \in DOMAIN u : s[i] # u[j]

StoreShape ==
    /\ counter \in Nat
    /\ call = [t \in Tasks |-> call[t]]
    /\ data = [id \in DOMAIN data |-> data[id]]
    /\ \A id \in DOMAIN data :
          data[id] = [descriptor |-> data[id].descriptor, indexes |-> data[id].indexes,
                      signatures |-> data[id].signatures]

\* An identifier is drafted by one task at most, and not after it is stored.
DraftedOnce ==
    /\ DOMAIN data \subseteq requested
    /\ \A t \in Tasks : Creating(t) => call[t].id \in requested \ DOMAIN data
    /\ \A t, u \in Tasks :
          Creating(t) /\ Creating(u) /\ t # u => call[t].id # call[u].id

\* The indexes of what is stored or drafted are drawn, and nobody else's.
NoncesApart ==
    /\ \A id \in DOMAIN data : Drawn(data[id].indexes, counter)
    /\ \A t \in Tasks : Creating(t) => Drawn(call[t].indexes, counter)
    /\ \A id, jd \in DOMAIN data : id # jd => Apart(data[id].indexes, data[jd].indexes)
    /\ \A t \in Tasks, id \in DOMAIN data :
          Creating(t) => /\ Apart(call[t].indexes, data[id].indexes)
                         /\ Apart(data[id].indexes, call[t].indexes)
    /\ \A t, u \in Tasks :
          Creating(t) /\ Creating(u) /\ t # u => Apart(call[t].indexes, call[u].indexes)

\* What is signed, stored as signed or answered is signed with the event's
\* indexes, one message each.
SignedAsStored ==
    /\ \A t \in Tasks : Signing(t) =>
          /\ call[t].id \in DOMAIN data
          /\ call[t].indexes = data[call[t].id].indexes
          /\ DOMAIN call[t].messages = DOMAIN call[t].indexes
    /\ \A id \in DOMAIN data :
          data[id].signatures # <<>> => DOMAIN data[id].signatures = DOMAIN data[id].indexes
    /\ \A r \in released :
          /\ r.id \in DOMAIN data
          /\ r.indexes = data[r.id].indexes
          /\ r.messages = data[r.id].signatures /\ r.messages # <<>>
    /\ \A a \in announced : a.id \in DOMAIN data /\ a.indexes = data[a.id].indexes

NonceInv == StoreShape /\ DraftedOnce /\ NoncesApart /\ SignedAsStored

-----------------------------------------------------------------------------
\* An event that can be announced has at least one nonce, any request a
\* number of them.
LEMMA NbNoncesOfDescriptor ==
    ASSUME NEW d \in Descriptors
    PROVE  NbNonces(d) \in Nat /\ (ValidDescriptor(d) => NbNonces(d) > 0)
<1>1. CASE d \in {Enum({}), Enum(Outcomes)}
  BY <1>1 DEF NbNonces, Enum
<1>2. CASE d \in {Numeric(n, s) : n \in DigitCounts, s \in BOOLEAN}
  <2>1. PICK n \in DigitCounts, s \in BOOLEAN : d = Numeric(n, s)
    BY <1>2
  <2>2. n \in Nat /\ d.digits = n /\ d.enum = FALSE /\ d.signed = s
    BY <2>1, KormirAssumption DEF Numeric
  <2> QED BY <2>2, KormirAssumption DEF NbNonces, ValidDescriptor
<1> QED BY <1>1, <1>2 DEF Descriptors

\* The next indexes of the counter are new.
LEMMA NextIndexes ==
    ASSUME counter \in Nat, NEW n \in Nat, n > 0
    PROVE  /\ Drawn(Indexes(n), counter + n)
           /\ \A s : Drawn(s, counter) => /\ Drawn(s, counter + n)
                                          /\ Apart(s, Indexes(n)) /\ Apart(Indexes(n), s)
<1>1. DOMAIN Indexes(n) = 1..n /\ \A i \in 1..n : Indexes(n)[i] = counter + i - 1
  BY DEF Indexes
<1>2. 1 \in 1..n
  OBVIOUS
<1>3. Drawn(Indexes(n), counter + n)
  <2> DEFINE s == Indexes(n)
  <2>1. DOMAIN s = 1..n /\ \A i \in 1..n : s[i] = counter + i - 1
    BY <1>1
  <2> HIDE DEF s
  <2>2. \A i \in DOMAIN s : s[i] \in Nat /\ s[i] < counter + n
    BY <2>1
  <2>3. \A i, j \in DOMAIN s : s[i] = s[j] => i = j
    BY <2>1
  <2>4. Drawn(s, counter + n)
    BY <1>2, <2>1, <2>2, <2>3 DEF Drawn
  <2> QED BY <2>4 DEF s
<1>4. ASSUME NEW s, Drawn(s, counter)
      PROVE  /\ Drawn(s, counter + n)
             /\ Apart(s, Indexes(n)) /\ Apart(Indexes(n), s)
  <2>1. \A i \in DOMAIN s : s[i] \in Nat /\ s[i] < counter
    BY <1>4 DEF Drawn
  <2>2. \A i \in DOMAIN s, j \in 1..n : s[i] # Indexes(n)[j]
    BY <1>1, <2>1
  <2>3. Drawn(s, counter + n)
    BY <1>4, <2>1 DEF Drawn
  <2> QED BY <1>1, <2>2, <2>3 DEF Apart
<1> QED BY <1>3, <1>4

-----------------------------------------------------------------------------
\* create_enum_event, create_numeric_event: the task alone has the new indexes.
LEMMA CreateEventKeepsInv ==
    ASSUME NonceInv, NEW t \in Tasks, NEW id \in EventIds, NEW d \in Descriptors,
           CreateEvent(t, id, d)
    PROVE  NonceInv'
<1> DEFINE n == NbNonces(d)
<1>1. /\ counter \in Nat /\ n \in Nat /\ counter' = counter + n
      /\ data' = data /\ announced' = announced /\ released' = released
      /\ requested' = requested \cup {id} /\ id \notin requested
      /\ call[t] = None
  BY NbNoncesOfDescriptor DEF NonceInv, StoreShape, CreateEvent, GetNextNonceIndexes, Busy
<1>2. \A s : Drawn(s, counter) => Drawn(s, counter')
  BY <1>1 DEF Drawn
<1>3. CASE ~ValidDescriptor(d)
  <2>1. call' = call
    BY <1>3 DEF CreateEvent
  <2>2. StoreShape'
    BY <1>1, <2>1 DEF NonceInv, StoreShape
  <2>3. DraftedOnce'
    BY <1>1, <2>1 DEF NonceInv, DraftedOnce, Creating
  <2>4. NoncesApart'
    BY <1>1, <1>2, <2>1 DEF NonceInv, NoncesApart, Creating
  <2>5. SignedAsStored'
    BY <1>1, <2>1 DEF NonceInv, SignedAsStored, Signing
  <2> QED BY <2>2, <2>3, <2>4, <2>5 DEF NonceInv
<1>4. CASE ValidDescriptor(d)
  <2> DEFINE new == Indexes(n)
  <2>1. /\ Drawn(new, counter')
        /\ \A s : Drawn(s, counter) => Apart(s, new) /\ Apart(new, s)
    BY <1>1, <1>4, NbNoncesOfDescriptor, NextIndexes
  <2>2. /\ call' = [u \in Tasks |-> call'[u]]
        /\ \A u \in Tasks \ {t} : call'[u] = call[u]
        /\ call'[t].op = "create" /\ call'[t].id = id /\ call'[t].indexes = new
    BY <1>4 DEF CreateEvent, Drafted, NonceInv, StoreShape
  <2> HIDE DEF new, n
  <2>3. /\ \A u \in Tasks : Creating(u)' => u = t \/ (u # t /\ Creating(u) /\ call'[u] = call[u])
        /\ \A u \in Tasks : Signing(u)' => Signing(u) /\ call'[u] = call[u]
    BY <2>2 DEF Creating, Signing
  <2>4. StoreShape'
    BY <1>1, <2>2 DEF NonceInv, StoreShape
  <2>5. DraftedOnce'
    BY <1>1, <2>2, <2>3 DEF NonceInv, DraftedOnce
  <2>6. NoncesApart'
    BY <1>1, <1>2, <2>1, <2>2, <2>3 DEF NonceInv, NoncesApart
  <2>7. SignedAsStored'
    BY <1>1, <2>3 DEF NonceInv, SignedAsStored
  <2> QED BY <2>4, <2>5, <2>6, <2>7 DEF NonceInv
<1> QED BY <1>3, <1>4

\* save_announcement: what was drafted moves to the store.
LEMMA SaveAnnouncementKeepsInv ==
    ASSUME NonceInv, NEW t \in Tasks, SaveAnnouncement(t)
    PROVE  NonceInv'
<1> DEFINE id == call[t].id
<1>1. /\ Creating(t) /\ id \in requested /\ id \notin DOMAIN data
      /\ counter' = counter /\ requested' = requested /\ released' = released
      /\ call[t] # None
  BY DEF SaveAnnouncement, Creating, Busy, NonceInv, DraftedOnce
<1>2. /\ DOMAIN data' = DOMAIN data \cup {id}
      /\ data' = [x \in DOMAIN data' |-> data'[x]]
      /\ \A x \in DOMAIN data : data'[x] = data[x]
      /\ data'[id] = [descriptor |-> call[t].descriptor, indexes |-> call[t].indexes,
                      signatures |-> <<>>]
  BY <1>1 DEF SaveAnnouncement
<1>3. /\ call' = [u \in Tasks |-> call'[u]]
      /\ call'[t] = None /\ \A u \in Tasks \ {t} : call'[u] = call[u]
  BY DEF SaveAnnouncement, NonceInv, StoreShape
<1>4. /\ \A u \in Tasks : Creating(u)' => u # t /\ Creating(u) /\ call'[u] = call[u]
      /\ \A u \in Tasks : Signing(u)' => Signing(u) /\ call'[u] = call[u]
  BY <1>3 DEF Creating, Signing
<1>5. \A a \in announced' :
        a \in announced \/ (a.id = id /\ a.indexes = call[t].indexes)
  BY DEF SaveAnnouncement, Announcement
<1> HIDE DEF id
<1>6. StoreShape'
  BY <1>1, <1>2, <1>3 DEF NonceInv, StoreShape
<1>7. DraftedOnce'
  BY <1>1, <1>2, <1>4 DEF NonceInv, DraftedOnce, id
<1>8. NoncesApart'
  BY <1>1, <1>2, <1>4 DEF NonceInv, NoncesApart
<1>9. SignedAsStored'
  BY <1>1, <1>2, <1>4, <1>5 DEF NonceInv, SignedAsStored
<1> QED BY <1>6, <1>7, <1>8, <1>9 DEF NonceInv

\* sign_enum_event, sign_numeric_event: the copy has the stored indexes.
LEMMA SignEventKeepsInv ==
    ASSUME NonceInv, NEW t \in Tasks, NEW id \in EventIds, NEW request, SignEvent(t, id, request)
    PROVE  NonceInv'
<1>1. /\ counter' = counter /\ data' = data /\ requested' = requested
      /\ announced' = announced /\ released' = released /\ id \in DOMAIN data
  BY DEF SignEvent
<1>2. /\ call' = [u \in Tasks |-> call'[u]]
      /\ \A u \in Tasks \ {t} : call'[u] = call[u]
      /\ call'[t].op = "sign" /\ call'[t].id = id /\ call'[t].indexes = data[id].indexes
      /\ DOMAIN call'[t].messages = DOMAIN data[id].indexes
  BY DEF SignEvent, NonceInv, StoreShape
<1>3. /\ \A u \in Tasks : Creating(u)' => u # t /\ Creating(u) /\ call'[u] = call[u]
      /\ \A u \in Tasks : Signing(u)' => u = t \/ (Signing(u) /\ call'[u] = call[u])
  BY <1>2 DEF Creating, Signing
<1>4. StoreShape'
  BY <1>1, <1>2 DEF NonceInv, StoreShape
<1>5. DraftedOnce'
  BY <1>1, <1>3 DEF NonceInv, DraftedOnce
<1>6. NoncesApart'
  BY <1>1, <1>3 DEF NonceInv, NoncesApart
<1>7. SignedAsStored'
  BY <1>1, <1>2, <1>3 DEF NonceInv, SignedAsStored
<1> QED BY <1>4, <1>5, <1>6, <1>7 DEF NonceInv

\* save_signatures: signatures are stored once, and those of the loser dropped.
LEMMA SaveSignaturesKeepsInv ==
    ASSUME NonceInv, NEW t \in Tasks, SaveSignatures(t)
    PROVE  NonceInv'
<1> DEFINE id == call[t].id
<1>1. /\ Signing(t) /\ id \in DOMAIN data
      /\ call[t].indexes = data[id].indexes
      /\ DOMAIN call[t].messages = DOMAIN data[id].indexes
      /\ DOMAIN data[id].indexes # {}
      /\ counter' = counter /\ requested' = requested /\ announced' = announced
  BY DEF SaveSignatures, Signing, Busy, NonceInv, SignedAsStored, NoncesApart, Drawn
<1>2. /\ call' = [u \in Tasks |-> call'[u]]
      /\ call'[t] = None /\ \A u \in Tasks \ {t} : call'[u] = call[u]
  BY DEF SaveSignatures, NonceInv, StoreShape
<1>3. /\ \A u \in Tasks : Creating(u)' => Creating(u) /\ call'[u] = call[u]
      /\ \A u \in Tasks : Signing(u)' => Signing(u) /\ call'[u] = call[u]
  BY <1>2 DEF Creating, Signing
<1>4. CASE data[id].signatures = <<>>
  <2>1. /\ DOMAIN data' = DOMAIN data
        /\ data' = [x \in DOMAIN data' |-> data'[x]]
        /\ \A x \in DOMAIN data \ {id} : data'[x] = data[x]
        /\ data'[id] = [descriptor |-> data[id].descriptor, indexes |-> data[id].indexes,
                        signatures |-> call[t].messages]
    BY <1>1, <1>4 DEF SaveSignatures, StoreSignatures, NonceInv, StoreShape
  <2>2. call[t].messages # <<>>
    BY <1>1
  <2>3. \A r \in released' :
          r \in released \/ (/\ r.id = id /\ r.indexes = data[id].indexes
                            /\ r.messages = call[t].messages)
    BY <1>1, <1>4 DEF SaveSignatures, StoreSignatures, Attestation
  <2>4. \A r \in released : r.id # id
    BY <1>4 DEF NonceInv, SignedAsStored
  <2>5. \A x \in DOMAIN data : data'[x].indexes = data[x].indexes
    BY <1>1, <2>1
  <2> HIDE DEF id
  <2>6. StoreShape'
    BY <1>1, <1>2, <2>1 DEF NonceInv, StoreShape
  <2>7. DraftedOnce'
    BY <1>1, <1>3, <2>1 DEF NonceInv, DraftedOnce
  <2>8. NoncesApart'
    BY <1>1, <1>3, <2>1, <2>5 DEF NonceInv, NoncesApart
  <2>9. SignedAsStored'
    BY <1>1, <1>3, <2>1, <2>2, <2>3, <2>4, <2>5 DEF NonceInv, SignedAsStored
  <2> QED BY <2>6, <2>7, <2>8, <2>9 DEF NonceInv
<1>5. CASE data[id].signatures # <<>>
  <2>1. data' = data /\ released' = released
    BY <1>5 DEF SaveSignatures
  <2> HIDE DEF id
  <2>2. StoreShape' /\ DraftedOnce' /\ NoncesApart' /\ SignedAsStored'
    BY <1>1, <1>2, <1>3, <2>1 DEF NonceInv, StoreShape, DraftedOnce, NoncesApart, SignedAsStored
  <2> QED BY <2>2 DEF NonceInv
<1> QED BY <1>4, <1>5

\* A task that panics, and a reader, change no record.
LEMMA PanicKeepsInv ==
    ASSUME NonceInv, NEW t \in Tasks, Panics(t)
    PROVE  NonceInv'
<1>1. /\ counter' = counter /\ data' = data /\ requested' = requested
      /\ announced' = announced /\ released' = released
  BY DEF Panics
<1>2. /\ call' = [u \in Tasks |-> call'[u]]
      /\ call'[t] = None /\ \A u \in Tasks \ {t} : call'[u] = call[u]
  BY DEF Panics, NonceInv, StoreShape
<1>3. /\ \A u \in Tasks : Creating(u)' => Creating(u) /\ call'[u] = call[u]
      /\ \A u \in Tasks : Signing(u)' => Signing(u) /\ call'[u] = call[u]
  BY <1>2 DEF Creating, Signing
<1>4. StoreShape' /\ DraftedOnce' /\ NoncesApart' /\ SignedAsStored'
  BY <1>1, <1>2, <1>3 DEF NonceInv, StoreShape, DraftedOnce, NoncesApart, SignedAsStored
<1> QED BY <1>4 DEF NonceInv

LEMMA GetAttestationKeepsInv ==
    ASSUME NonceInv, NEW id \in EventIds, GetAttestation(id)
    PROVE  NonceInv'
<1>1. /\ counter' = counter /\ data' = data /\ call' = call /\ requested' = requested
      /\ announced' = announced /\ id \in DOMAIN data /\ data[id].signatures # <<>>
  BY DEF GetAttestation
<1>2. \A r \in released' :
        r \in released \/ (/\ r.id = id /\ r.indexes = data[id].indexes
                          /\ r.messages = data[id].signatures)
  BY DEF GetAttestation
<1>3. StoreShape' /\ DraftedOnce' /\ NoncesApart'
  BY <1>1 DEF NonceInv, StoreShape, DraftedOnce, NoncesApart, Creating
<1>4. SignedAsStored'
  BY <1>1, <1>2 DEF NonceInv, SignedAsStored, Signing
<1> QED BY <1>3, <1>4 DEF NonceInv

-----------------------------------------------------------------------------
\* Every index belongs to one event, from the draft to the attestation.
THEOREM IndexesBelongToOneEvent == KormirSpec => []NonceInv
<1>1. KormirInit => NonceInv
  BY DEF KormirInit, NonceInv, StoreShape, DraftedOnce, NoncesApart, SignedAsStored, Creating, Signing
<1>2. NonceInv /\ [KormirNext]_kormir => NonceInv'
  <2> SUFFICES ASSUME NonceInv, [KormirNext]_kormir PROVE NonceInv'
    OBVIOUS
  <2>1. ASSUME NEW t \in Tasks, NEW id \in EventIds, NEW d \in Descriptors,
               CreateEvent(t, id, d)
        PROVE  NonceInv'
    BY <2>1, CreateEventKeepsInv
  <2>2. ASSUME NEW t \in Tasks, NEW id \in EventIds, NEW request, SignEvent(t, id, request)
        PROVE  NonceInv'
    BY <2>2, SignEventKeepsInv
  <2>3. ASSUME NEW t \in Tasks, SaveAnnouncement(t) PROVE NonceInv'
    BY <2>3, SaveAnnouncementKeepsInv
  <2>4. ASSUME NEW t \in Tasks, SaveSignatures(t) PROVE NonceInv'
    BY <2>4, SaveSignaturesKeepsInv
  <2>5. ASSUME NEW t \in Tasks, Panics(t) PROVE NonceInv'
    BY <2>5, PanicKeepsInv
  <2>6. ASSUME NEW id \in EventIds, GetAttestation(id) PROVE NonceInv'
    BY <2>6, GetAttestationKeepsInv
  <2>7. CASE UNCHANGED kormir
    BY <2>7 DEF kormir, NonceInv, StoreShape, DraftedOnce, NoncesApart, SignedAsStored,
                Creating, Signing
  <2> QED
    BY <2>1, <2>2, <2>3, <2>4, <2>5, <2>6, <2>7 DEF KormirNext
<1> QED BY <1>1, <1>2, PTL DEF KormirSpec

\* Nobody can compute the oracle's key from what it published: whatever tasks
\* overlap, fail or panic, no nonce is announced for two events and none signs
\* two messages (get_next_nonce_indexes, save_announcement, save_signatures).
THEOREM NoNonceSignsTwice == KormirSpec => []NonceSignsOnce
<1>1. ASSUME NonceInv PROVE NonceSignsOnce
  <2>1. ASSUME NEW r \in released, NEW q \in released,
               NEW i \in DOMAIN r.messages, NEW j \in DOMAIN q.messages,
               r.indexes[i] = q.indexes[j]
        PROVE  r.id = q.id /\ i = j /\ r.messages[i] = q.messages[j]
    <3>1. /\ r.id \in DOMAIN data /\ r.indexes = data[r.id].indexes
          /\ r.messages = data[r.id].signatures
          /\ DOMAIN r.messages = DOMAIN data[r.id].indexes
          /\ q.id \in DOMAIN data /\ q.indexes = data[q.id].indexes
          /\ q.messages = data[q.id].signatures
          /\ DOMAIN q.messages = DOMAIN data[q.id].indexes
      BY <1>1 DEF NonceInv, SignedAsStored
    <3>2. r.id = q.id
      BY <1>1, <2>1, <3>1 DEF NonceInv, NoncesApart, Apart
    <3>3. i = j
      BY <1>1, <2>1, <3>1, <3>2 DEF NonceInv, NoncesApart, Drawn
    <3> QED BY <3>1, <3>2, <3>3
  <2>2. ASSUME NEW a \in announced, NEW b \in announced, a.id # b.id
        PROVE  ToSet(a.indexes) \cap ToSet(b.indexes) = {}
    <3>1. /\ a.id \in DOMAIN data /\ a.indexes = data[a.id].indexes
          /\ b.id \in DOMAIN data /\ b.indexes = data[b.id].indexes
      BY <1>1 DEF NonceInv, SignedAsStored
    <3>2. Apart(a.indexes, b.indexes)
      BY <1>1, <2>2, <3>1 DEF NonceInv, NoncesApart
    <3> QED BY <3>2 DEF Apart, ToSet
  <2> QED BY <2>1, <2>2 DEF NonceSignsOnce
<1> QED BY <1>1, IndexesBelongToOneEvent, PTL

-----------------------------------------------------------------------------
(* What is stored, and what was announced.                                 *)

\* A draft and a record of an event that can be attested.
Attestable(c) ==
    /\ c.descriptor \in Descriptors /\ ValidDescriptor(c.descriptor)
    /\ DOMAIN c.indexes = 1..NbNonces(c.descriptor)

RecordInv ==
    /\ counter \in 0..MaxIndex
    /\ \A t \in Tasks : Creating(t) => Attestable(call[t])
    /\ \A id \in DOMAIN data : Attestable(data[id])
    /\ AnnouncedIsKept

LEMMA NextKeepsRecords ==
    ASSUME NonceInv, RecordInv, [KormirNext]_kormir
    PROVE  RecordInv'
<1>1. /\ counter \in Nat /\ counter \in 0..MaxIndex /\ MaxIndex \in Nat
      /\ call = [t \in Tasks |-> call[t]]
      /\ \A t \in Tasks : Creating(t) => call[t].id \notin DOMAIN data
      /\ \A t \in Tasks : Signing(t) => call[t].id \in DOMAIN data
  BY KormirAssumption DEF NonceInv, StoreShape, DraftedOnce, SignedAsStored, RecordInv
<1>2. ASSUME NEW t \in Tasks, NEW id \in EventIds, NEW d \in Descriptors, CreateEvent(t, id, d)
      PROVE  RecordInv'
  <2> DEFINE n == NbNonces(d)
  <2>1. n \in Nat /\ counter' = counter + n /\ counter + n <= MaxIndex
    BY <1>2, NbNoncesOfDescriptor DEF CreateEvent, GetNextNonceIndexes
  <2>2. counter' \in 0..MaxIndex
    BY <1>1, <2>1
  <2>3. DOMAIN Indexes(n) = 1..n
    BY DEF Indexes
  <2>4. \A u \in Tasks : Creating(u)' => Attestable(call'[u])
    <3>1. CASE ValidDescriptor(d)
      <4>1. /\ \A u \in Tasks \ {t} : call'[u] = call[u]
            /\ call'[t].descriptor = d /\ call'[t].indexes = Indexes(n)
        BY <1>1, <1>2, <3>1 DEF CreateEvent, Drafted
      <4> HIDE DEF n
      <4>2. Attestable(call'[t])
        BY <2>3, <3>1, <4>1 DEF Attestable, n
      <4> QED BY <4>1, <4>2 DEF RecordInv, Creating
    <3>2. CASE ~ValidDescriptor(d)
      BY <1>2, <3>2 DEF CreateEvent, RecordInv, Creating
    <3> QED BY <3>1, <3>2
  <2>5. data' = data /\ announced' = announced
    BY <1>2 DEF CreateEvent
  <2> QED BY <2>2, <2>4, <2>5 DEF RecordInv, AnnouncedIsKept
<1>3. ASSUME NEW t \in Tasks, SaveAnnouncement(t)
      PROVE  RecordInv'
  <2> DEFINE id == call[t].id
  <2>1. Creating(t) /\ Attestable(call[t]) /\ id \notin DOMAIN data /\ counter' = counter
    BY <1>1, <1>3 DEF SaveAnnouncement, Creating, Busy, RecordInv
  <2>2. /\ DOMAIN data' = DOMAIN data \cup {id} /\ \A x \in DOMAIN data : data'[x] = data[x]
        /\ data'[id] = [descriptor |-> call[t].descriptor, indexes |-> call[t].indexes,
                        signatures |-> <<>>]
    BY <1>3, <2>1 DEF SaveAnnouncement
  <2>3. call'[t] = None /\ \A u \in Tasks \ {t} : call'[u] = call[u]
    BY <1>1, <1>3 DEF SaveAnnouncement
  <2>4. \A a \in announced' :
          a \in announced \/ (/\ a.id = id /\ a.indexes = call[t].indexes
                              /\ a.descriptor = call[t].descriptor)
    BY <1>3 DEF SaveAnnouncement, Announcement
  <2> HIDE DEF id
  <2>5. Attestable(data'[id])
    BY <2>1, <2>2 DEF Attestable
  <2>6. \A x \in DOMAIN data' : Attestable(data'[x])
    BY <2>2, <2>5 DEF RecordInv
  <2>7. \A u \in Tasks : Creating(u)' => Attestable(call'[u])
    BY <2>3 DEF RecordInv, Creating
  <2>8. AnnouncedIsKept'
    BY <2>1, <2>2, <2>4 DEF RecordInv, AnnouncedIsKept
  <2> QED BY <2>1, <2>6, <2>7, <2>8 DEF RecordInv
<1>4. ASSUME NEW t \in Tasks, NEW id \in EventIds, NEW request, SignEvent(t, id, request)
      PROVE  RecordInv'
  <2>1. /\ \A u \in Tasks \ {t} : call'[u] = call[u]
        /\ call'[t].op = "sign" /\ UNCHANGED <<counter, data, announced>>
    BY <1>1, <1>4 DEF SignEvent
  <2> QED BY <2>1 DEF RecordInv, AnnouncedIsKept, Creating
<1>5. ASSUME NEW t \in Tasks, SaveSignatures(t) \/ Panics(t)
      PROVE  RecordInv'
  <2>1. call'[t] = None /\ \A u \in Tasks \ {t} : call'[u] = call[u]
    BY <1>1, <1>5 DEF SaveSignatures, Panics
  <2>2. counter' = counter /\ announced' = announced
    BY <1>5 DEF SaveSignatures, Panics
  <2>3. /\ DOMAIN data' = DOMAIN data
        /\ \A x \in DOMAIN data : /\ data'[x].indexes = data[x].indexes
                                  /\ data'[x].descriptor = data[x].descriptor
    <3>1. CASE data' = data
      BY <3>1
    <3>2. CASE SaveSignatures(t) /\ StoreSignatures(t)
      <4>1. call[t].id \in DOMAIN data
        BY <1>1, <3>2 DEF SaveSignatures, Signing, Busy
      <4> QED BY <3>2, <4>1 DEF StoreSignatures, NonceInv, StoreShape
    <3> QED BY <1>5, <3>1, <3>2 DEF SaveSignatures, Panics
  <2> QED BY <2>1, <2>2, <2>3 DEF RecordInv, AnnouncedIsKept, Creating, Attestable
<1>6. ASSUME NEW id \in EventIds, GetAttestation(id)
      PROVE  RecordInv'
  BY <1>6 DEF GetAttestation, RecordInv, AnnouncedIsKept, Creating
<1>7. CASE UNCHANGED kormir
  BY <1>7 DEF kormir, RecordInv, AnnouncedIsKept, Creating
<1> QED BY <1>2, <1>3, <1>4, <1>5, <1>6, <1>7 DEF KormirNext

\* The first parts of KormirInv: an announcement a party builds a contract on
\* stays in the store as it was answered, and every event in the store can be
\* attested, with one nonce for each message (create_enum_event,
\* create_numeric_event, save_announcement).
THEOREM AnnouncedEventsAreKept == KormirSpec => [](KormirTypeOK /\ AnnouncedIsKept)
<1>1. KormirInit => RecordInv
  BY KormirAssumption DEF KormirInit, RecordInv, AnnouncedIsKept, Creating
<1>2. NonceInv /\ RecordInv => KormirTypeOK /\ AnnouncedIsKept
  <2> SUFFICES ASSUME NonceInv, RecordInv PROVE KormirTypeOK
    BY DEF RecordInv
  <2>1. ASSUME NEW id \in DOMAIN data
        PROVE  /\ Len(data[id].indexes) = NbNonces(data[id].descriptor)
               /\ Len(data[id].signatures) \in {0, Len(data[id].indexes)}
    <3>1. /\ NbNonces(data[id].descriptor) \in Nat
          /\ DOMAIN data[id].indexes = 1..NbNonces(data[id].descriptor)
      BY NbNoncesOfDescriptor DEF RecordInv, Attestable
    <3>2. data[id].signatures = <<>> \/ DOMAIN data[id].signatures = DOMAIN data[id].indexes
      BY DEF NonceInv, SignedAsStored
    <3>3. Len(data[id].indexes) = NbNonces(data[id].descriptor)
      BY <3>1
    <3>4. CASE data[id].signatures = <<>>
      BY <3>3, <3>4
    <3>5. CASE DOMAIN data[id].signatures = DOMAIN data[id].indexes
      BY <3>1, <3>3, <3>5
    <3> QED BY <3>2, <3>3, <3>4, <3>5
  <2>2. \A a \in announced : a.id \in requested
    BY DEF NonceInv, DraftedOnce, RecordInv, AnnouncedIsKept
  <2> QED BY <2>1, <2>2 DEF KormirTypeOK, RecordInv, Attestable, NonceInv, DraftedOnce
<1>3. NonceInv /\ RecordInv /\ [KormirNext]_kormir => RecordInv'
  BY NextKeepsRecords
<1> QED BY <1>1, <1>2, <1>3, IndexesBelongToOneEvent, PTL DEF KormirSpec

-----------------------------------------------------------------------------
(***************************************************************************)
(* Arithmetic.  Induction over the numbers is by the least number that is  *)
(* not in a set.                                                           *)
(***************************************************************************)
LEMMA LeastNumber ==
    ASSUME NEW S \in SUBSET Nat, S # {}
    PROVE  \E m \in S : \A k \in S : m <= k
<1>1. PICK m \in S : \A k \in S : ~(<<k, m>> \in OpToRel(<, Nat))
  BY WFMin, NatLessThanWellFounded
<1>2. ASSUME NEW k \in S PROVE m <= k
  <2>1. ~(<<k, m>> \in OpToRel(<, Nat)) /\ k \in Nat /\ m \in Nat
    BY <1>1
  <2>2. ~(k < m)
    BY <2>1 DEF OpToRel
  <2>3. k \in Nat /\ m \in Nat
    BY <2>1
  <2> QED BY <2>2, <2>3
<1> QED BY <1>2

LEMMA Induction ==
    ASSUME NEW S, 0 \in S, \A n \in Nat : n \in S => n + 1 \in S
    PROVE  \A n \in Nat : n \in S
<1> DEFINE T == {n \in Nat : n \notin S}
<1> SUFFICES ASSUME T # {} PROVE FALSE
  OBVIOUS
<1>1. PICK m \in T : \A k \in T : m <= k
  BY LeastNumber
<1>2. m \in Nat /\ m # 0 /\ m - 1 \in Nat /\ (m - 1) + 1 = m
  BY <1>1
<1>3. m - 1 \notin T
  BY <1>1, <1>2
<1> QED BY <1>1, <1>2, <1>3

\* 2^n counts the subsets of n things.
LEMMA PowerOfTwo ==
    ASSUME NEW n \in Nat
    PROVE  2^n \in Nat /\ 2^0 = 1 /\ 2^(n + 1) = 2 * 2^n
<1> DEFINE S == SUBSET (1..n)
           T == SUBSET (1..(n + 1))
           With == [s \in S |-> s \union {n + 1}]
           U == {s \union {n + 1} : s \in S}
<1>1. IsFiniteSet(1..n) /\ Cardinality(1..n) = n
  BY FS_Interval
<1>2. IsFiniteSet(1..(n + 1)) /\ Cardinality(1..(n + 1)) = n + 1
  BY FS_Interval
<1>3. IsFiniteSet(S) /\ Cardinality(S) = 2^n
  BY <1>1, FS_SUBSET
<1>4. IsFiniteSet(T) /\ Cardinality(T) = 2^(n + 1)
  BY <1>2, FS_SUBSET
<1>5. Cardinality(S) \in Nat
  BY <1>3, FS_CardinalityType
<1>6. With \in Bijection(S, U)
  <2>1. ASSUME NEW s \in S PROVE n + 1 \notin s
    OBVIOUS
  <2>2. ASSUME NEW s \in S, NEW t \in S, With[s] = With[t] PROVE s = t
    <3>1. s \union {n + 1} = t \union {n + 1}
      BY <2>2
    <3> QED BY <2>1, <3>1
  <2>3. With \in [S -> U] /\ \A u \in U : \E s \in S : With[s] = u
    OBVIOUS
  <2> QED BY <2>2, <2>3 DEF Bijection, Injection, Surjection, IsInjective
<1>7. IsFiniteSet(U) /\ Cardinality(U) = Cardinality(S)
  BY <1>3, <1>6, FS_Bijection DEF ExistsBijection
<1>8. T = S \union U /\ S \cap U = {}
  <2>1. \A s \in S : n + 1 \notin s
    OBVIOUS
  <2>2. S \cap U = {}
    BY <2>1
  <2>3. ASSUME NEW t \in T PROVE t \in S \union U
    <3>1. t \ {n + 1} \in S
      BY <2>3
    <3>2. n + 1 \in t => t = (t \ {n + 1}) \union {n + 1}
      OBVIOUS
    <3> QED BY <3>1, <3>2, <2>3
  <2>4. 1..n \subseteq 1..(n + 1) /\ n + 1 \in 1..(n + 1)
    OBVIOUS
  <2>5. S \subseteq T
    BY <2>4
  <2>6. U \subseteq T
    BY <2>4
  <2> QED BY <2>2, <2>3, <2>5, <2>6
<1>9. Cardinality(T) = Cardinality(S) + Cardinality(U)
  <2>1. Cardinality(S \cap U) = 0
    BY <1>8, FS_EmptySet
  <2>2. Cardinality(S \union U) = Cardinality(S) + Cardinality(U) - Cardinality(S \cap U)
    BY <1>3, <1>7, FS_Union
  <2> HIDE DEF S, T, U
  <2> QED BY <1>5, <1>7, <1>8, <2>1, <2>2
<1>10. 2^0 = 1
  OBVIOUS
<1> HIDE DEF S, T, U
<1> QED BY <1>3, <1>4, <1>5, <1>7, <1>9, <1>10

LEMMA PowersGrow ==
    ASSUME NEW m \in Nat, NEW n \in Nat, m <= n
    PROVE  2^m \in Nat /\ 2^n \in Nat /\ 1 <= 2^m /\ 2^m <= 2^n
<1> DEFINE S == {k \in Nat : 1 <= 2^k}
           T == {k \in Nat : 2^m <= 2^(m + k)}
<1>1. \A k \in Nat : 2^k \in Nat /\ 2^(k + 1) = 2 * 2^k
  BY PowerOfTwo
<1>2. 0 \in S /\ \A k \in Nat : k \in S => k + 1 \in S
  <2>1. 0 \in S
    BY PowerOfTwo
  <2>2. ASSUME NEW k \in Nat, k \in S PROVE k + 1 \in S
    <3>1. 2^k \in Nat /\ 2^(k + 1) = 2 * 2^k /\ 1 <= 2^k
      BY <1>1, <2>2
    <3>2. 1 <= 2^(k + 1)
      BY <3>1
    <3> QED BY <3>2
  <2> QED BY <2>1, <2>2
<1>3. \A k \in Nat : k \in S
  <2> HIDE DEF S
  <2> QED BY <1>2, Induction
<1>4. 0 \in T /\ \A k \in Nat : k \in T => k + 1 \in T
  <2>1. 0 \in T
    <3>1. 2^m \in Nat /\ m + 0 = m
      BY <1>1
    <3>2. 2^m <= 2^(m + 0)
      BY <3>1
    <3> QED BY <3>2
  <2>2. ASSUME NEW k \in Nat, k \in T PROVE k + 1 \in T
    <3>1. m + k \in Nat /\ m + (k + 1) = (m + k) + 1
      OBVIOUS
    <3>2. 2^((m + k) + 1) = 2 * 2^(m + k) /\ 2^(m + k) \in Nat /\ 2^m <= 2^(m + k) /\ 2^m \in Nat
      BY <1>1, <2>2, <3>1
    <3>3. 2^m <= 2^((m + k) + 1)
      BY <3>2
    <3> QED BY <3>1, <3>3
  <2> QED BY <2>1, <2>2
<1>5. \A k \in Nat : k \in T
  <2> HIDE DEF T
  <2> QED BY <1>4, Induction
<1>6. n - m \in Nat /\ m + (n - m) = n
  OBVIOUS
<1>7. 2^m <= 2^(m + (n - m))
  BY <1>5, <1>6
<1> QED BY <1>1, <1>3, <1>6, <1>7

\* The quotients of two powers that follow each other.
LEMMA HalfQuotient ==
    ASSUME NEW n \in Nat, NEW p \in Nat, p >= 1
    PROVE  /\ n \div p \in Nat /\ n \div (2 * p) \in Nat
           /\ n \div p = 2 * (n \div (2 * p)) + ((n \div p) % 2)
<1> DEFINE q == n \div p
           r == n % p
           h == q \div 2
           b == q % 2
           c == p * b + r
<1>1. q \in Nat /\ r \in 0..(p - 1) /\ n = p * q + r
  OBVIOUS
<1>2. h \in Nat /\ b \in {0, 1} /\ q = 2 * h + b
  BY <1>1
<1>3. c \in 0..(2 * p - 1)
  <2> HIDE DEF q, r, h, b
  <2>1. CASE b = 0
    BY <1>1, <2>1
  <2>2. CASE b = 1
    BY <1>1, <2>2
  <2> QED BY <1>2, <2>1, <2>2
<1>4. n = (2 * p) * h + c
  <2> HIDE DEF q, r, h, b
  <2>1. p * q = p * (2 * h + b)
    BY <1>2
  <2>2. p * (2 * h + b) = (2 * p) * h + p * b
    BY <1>2
  <2> QED BY <1>1, <1>2, <2>1, <2>2
<1>5. n \div (2 * p) = h
  <2> DEFINE P == 2 * p
             k == n \div P
             d == n % P
  <2>1. P \in Nat /\ P >= 1
    OBVIOUS
  <2> HIDE DEF P
  <2>2. k \in Nat /\ d \in 0..(P - 1) /\ n = P * k + d
    BY <2>1
  <2>3. c \in 0..(P - 1) /\ n = P * h + c
    BY <1>3, <1>4 DEF P
  <2> HIDE DEF k, d, c, q, h
  <2>4. h \in Nat /\ P * (k - h) = c - d
    BY <1>2, <2>1, <2>2, <2>3
  <2>5. c - d < P /\ d - c < P
    BY <2>1, <2>2, <2>3
  <2>6. k - h >= 1 => P * (k - h) >= P
    BY <2>1, <2>2, <2>4
  <2>7. h - k >= 1 => P * (h - k) >= P
    BY <2>1, <2>2, <2>4
  <2>8. P * (h - k) = d - c
    BY <2>1, <2>2, <2>3, <2>4
  <2>9. ~(k - h >= 1) /\ ~(h - k >= 1)
    BY <2>1, <2>2, <2>3, <2>4, <2>5, <2>6, <2>7, <2>8
  <2>10. k = h
    BY <2>2, <2>4, <2>9
  <2> QED BY <2>10 DEF k, P
<1> QED BY <1>1, <1>2, <1>5

-----------------------------------------------------------------------------
(***************************************************************************)
(* The sum that FoldSet computes over the digits, which it takes in an     *)
(* order that is not specified.                                            *)
(***************************************************************************)
Chosen(s) == CHOOSE x \in s : TRUE
Bit(m, i) == IF m[i] = "1" THEN 2^(Len(m) - i) ELSE 0
DigitsValue(m) == FoldSet(LAMBDA i, acc : acc + Bit(m, i), 0, DOMAIN m)
\* f[s] is the sum over s, for each set s of S.
Sums(f, m, S) == f = [s \in S |-> IF s = {} THEN 0
                                  ELSE f[s \ {Chosen(s)}] + Bit(m, Chosen(s))]

InAnyOrder(f, m, S) ==
    \A s \in SUBSET S : /\ f[s] \in Int
                        /\ s = {} => f[s] = 0
                        /\ \A x \in s : f[s] = f[s \ {x}] + Bit(m, x)

LEMMA ChosenIsElement == ASSUME NEW s, s # {} PROVE Chosen(s) \in s
  BY DEF Chosen

LEMMA FoldIsSum ==
    ASSUME NEW m
    PROVE  DigitsValue(m) = (CHOOSE f : Sums(f, m, SUBSET (DOMAIN m)))[DOMAIN m]
  BY DEF DigitsValue, FoldSet, MapThenFoldSet, Sums, Chosen

LEMMA SumsExist ==
    ASSUME NEW m, NEW S, IsFiniteSet(S)
    PROVE  \E f : Sums(f, m, SUBSET S)
<1> DEFINE Level(k) == {s \in SUBSET S : Cardinality(s) <= k}
           T == {k \in Nat : \E f : Sums(f, m, Level(k))}
<1>1. \A s \in SUBSET S : IsFiniteSet(s) /\ Cardinality(s) \in Nat /\ (Cardinality(s) = 0 <=> s = {})
  BY FS_Subset, FS_CardinalityType, FS_EmptySet
<1>2. \A s \in SUBSET S : s # {} => /\ s \ {Chosen(s)} \in SUBSET S
                                    /\ Cardinality(s \ {Chosen(s)}) = Cardinality(s) - 1
  BY <1>1, ChosenIsElement, FS_RemoveElement
<1>3. 0 \in T
  <2>1. \A s \in Level(0) : s = {}
    BY <1>1
  <2>2. Sums([s \in Level(0) |-> 0], m, Level(0))
    <3> DEFINE f == [s \in Level(0) |-> 0]
    <3>1. f = [s \in Level(0) |-> IF s = {} THEN 0 ELSE f[s \ {Chosen(s)}] + Bit(m, Chosen(s))]
      BY <2>1
    <3> QED BY <3>1 DEF Sums
  <2> QED BY <2>2
<1>4. ASSUME NEW k \in Nat, k \in T PROVE k + 1 \in T
  <2>1. PICK f : Sums(f, m, Level(k))
    BY <1>4
  <2> DEFINE g == [s \in Level(k + 1) |-> IF s = {} THEN 0
                                          ELSE f[s \ {Chosen(s)}] + Bit(m, Chosen(s))]
  <2>2. ASSUME NEW s \in Level(k) PROVE s \in Level(k + 1) /\ g[s] = f[s]
    <3>1. s \in Level(k + 1)
      BY <1>1
    <3>2. f[s] = IF s = {} THEN 0 ELSE f[s \ {Chosen(s)}] + Bit(m, Chosen(s))
      BY <2>1 DEF Sums
    <3> QED BY <3>1, <3>2
  <2>3. ASSUME NEW s \in Level(k + 1), s # {} PROVE s \ {Chosen(s)} \in Level(k)
    <3>1. Cardinality(s) \in Nat /\ Cardinality(s) <= k + 1
      BY <1>1
    <3>2. Cardinality(s \ {Chosen(s)}) = Cardinality(s) - 1 /\ s \ {Chosen(s)} \in SUBSET S
      BY <1>2, <2>3
    <3> QED BY <3>1, <3>2
  <2>4. ASSUME NEW s \in Level(k + 1)
        PROVE  g[s] = IF s = {} THEN 0 ELSE g[s \ {Chosen(s)}] + Bit(m, Chosen(s))
    <3>1. g[s] = IF s = {} THEN 0 ELSE f[s \ {Chosen(s)}] + Bit(m, Chosen(s))
      OBVIOUS
    <3> HIDE DEF g, Level
    <3> QED BY <2>2, <2>3, <3>1
  <2>5. g = [s \in Level(k + 1) |-> g[s]]
    OBVIOUS
  <2> HIDE DEF g, Level
  <2>6. Sums(g, m, Level(k + 1))
    BY <2>4, <2>5 DEF Sums
  <2> QED BY <2>6
<1>5. \A k \in Nat : k \in T
  <2> HIDE DEF T
  <2> QED BY <1>3, <1>4, Induction
<1>6. Cardinality(S) \in Nat /\ \A s \in SUBSET S : Cardinality(s) <= Cardinality(S)
  BY FS_Subset, FS_CardinalityType
<1>7. Level(Cardinality(S)) = SUBSET S
  BY <1>6
<1>8. \E f : Sums(f, m, Level(Cardinality(S)))
  BY <1>5, <1>6
<1> QED BY <1>7, <1>8

LEMMA SumInAnyOrder ==
    ASSUME NEW m, NEW S, IsFiniteSet(S), NEW f, Sums(f, m, SUBSET S),
           \A i \in S : Bit(m, i) \in Int
    PROVE  InAnyOrder(f, m, S)
<1> DEFINE Right(s) == /\ f[s] \in Int
                       /\ \A x \in s : f[s] = f[s \ {x}] + Bit(m, x)
           T == {k \in Nat : \A s \in SUBSET S : Cardinality(s) <= k => Right(s)}
<1>1. \A s \in SUBSET S : IsFiniteSet(s) /\ Cardinality(s) \in Nat /\ (Cardinality(s) = 0 <=> s = {})
  BY FS_Subset, FS_CardinalityType, FS_EmptySet
<1>2. \A s \in SUBSET S : \A x \in s : /\ s \ {x} \in SUBSET S
                                       /\ Cardinality(s \ {x}) = Cardinality(s) - 1
  BY <1>1, FS_RemoveElement
<1>3. \A s \in SUBSET S : f[s] = IF s = {} THEN 0 ELSE f[s \ {Chosen(s)}] + Bit(m, Chosen(s))
  BY DEF Sums
<1>9. ASSUME NEW s \in SUBSET S, s = {} PROVE f[s] = 0 /\ Right(s)
  <2>1. f[s] = 0
    BY <1>3, <1>9
  <2>2. \A x : x \notin s
    BY <1>9
  <2> QED BY <2>1, <2>2
<1> HIDE DEF Right
<1>4. 0 \in T
  <2>1. \A s \in SUBSET S : Cardinality(s) <= 0 => s = {}
    BY <1>1
  <2> QED BY <1>9, <2>1
<1>5. ASSUME NEW k \in Nat, k \in T PROVE k + 1 \in T
  <2> SUFFICES ASSUME NEW s \in SUBSET S, Cardinality(s) <= k + 1 PROVE Right(s)
    OBVIOUS
  <2> SUFFICES ASSUME s # {} PROVE Right(s)
    BY <1>9
  <2> DEFINE c == Chosen(s)
  <2>1. c \in s
    BY ChosenIsElement
  <2>2. \A x \in s : s \ {x} \in SUBSET S /\ Cardinality(s \ {x}) <= k
    BY <1>1, <1>2
  <2>3. \A x \in s : Right(s \ {x})
    BY <1>5, <2>2
  <2>4. f[s] = f[s \ {c}] + Bit(m, c)
    BY <1>3
  <2> HIDE DEF c
  <2>5. f[s] \in Int
    <3>1. f[s \ {c}] \in Int /\ Bit(m, c) \in Int
      BY <2>1, <2>3 DEF Right
    <3> QED BY <2>4, <3>1
  <2>6. ASSUME NEW x \in s PROVE f[s] = f[s \ {x}] + Bit(m, x)
    <3>1. CASE x = c
      BY <2>4, <3>1
    <3>2. CASE x # c
      <4> DEFINE u == (s \ {x}) \ {c}
      <4>1. c \in s \ {x} /\ x \in s \ {c} /\ (s \ {c}) \ {x} = u
        BY <2>1, <3>2
      <4>2. f[s \ {x}] = f[u] + Bit(m, c)
        BY <2>3, <4>1 DEF Right
      <4>3. f[s \ {c}] = f[u] + Bit(m, x)
        BY <2>1, <2>3, <4>1 DEF Right
      <4>4. u \in SUBSET S /\ Cardinality(u) <= k
        <5>1. Cardinality(u) = Cardinality(s \ {x}) - 1
          BY <1>2, <2>2, <4>1
        <5> QED BY <1>1, <2>2, <5>1
      <4>5. Right(u)
        BY <1>5, <4>4
      <4>6. f[u] \in Int /\ Bit(m, x) \in Int /\ Bit(m, c) \in Int
        BY <2>1, <4>5 DEF Right
      <4> HIDE DEF u
      <4> QED BY <2>4, <4>2, <4>3, <4>6
    <3> QED BY <3>1, <3>2
  <2> QED BY <2>5, <2>6 DEF Right
<1>6. \A k \in Nat : k \in T
  <2> HIDE DEF T
  <2> QED BY <1>4, <1>5, Induction
<1>7. \A s \in SUBSET S : Right(s)
  BY <1>1, <1>6
<1> QED BY <1>7, <1>9 DEF Right, InAnyOrder

-----------------------------------------------------------------------------
(* The messages of a number.                                               *)

Digits(n, w) == [i \in 1..w |-> IF (n \div 2^(w - i)) % 2 = 1 THEN "1" ELSE "0"]

\* A number that fits has as many digits as are asked for.
LEMMA BinaryOfWidth ==
    ASSUME NEW n \in Nat, NEW w \in Nat, n < 2^w
    PROVE  Binary(n, w) = Digits(n, w)
<1> DEFINE Fits(k) == n < 2^k /\ (k = w \/ n >= 2^(k - 1))
           len == CHOOSE k \in w..(w + n) : Fits(k)
<1>1. w \in w..(w + n) /\ Fits(w)
  OBVIOUS
<1>2. ASSUME NEW k \in w..(w + n), Fits(k) PROVE k = w
  <2> SUFFICES ASSUME k # w PROVE FALSE
    OBVIOUS
  <2>1. k - 1 \in Nat /\ w <= k - 1
    OBVIOUS
  <2>2. 2^w \in Nat /\ 2^(k - 1) \in Nat /\ 2^w <= 2^(k - 1)
    BY <2>1, PowersGrow
  <2>3. n >= 2^(k - 1)
    BY <1>2
  <2> QED BY <2>2, <2>3
<1>3. len \in w..(w + n) /\ Fits(len)
  BY <1>1
<1>4. len = w
  BY <1>2, <1>3
<1>5. Binary(n, w) = Digits(n, len)
  BY DEF Binary, Digits
<1> QED BY <1>4, <1>5

\* What binary digits stand for is the number they are of.
LEMMA ValueOfDigits ==
    ASSUME NEW n \in Nat, NEW w \in Nat, n < 2^w
    PROVE  DigitsValue(Digits(n, w)) = n
<1> DEFINE m == Digits(n, w)
           S == 1..w
           f == CHOOSE g : Sums(g, m, SUBSET S)
           T == {k \in Nat : k <= w => f[1..k] = (n \div 2^(w - k)) * 2^(w - k)}
<1>1. DOMAIN m = S /\ Len(m) = w
  BY DEF Digits
<1>2. \A i \in S : m[i] = IF (n \div 2^(w - i)) % 2 = 1 THEN "1" ELSE "0"
  BY DEF Digits
<1>3. IsFiniteSet(S)
  BY FS_Interval
<1> HIDE DEF m
<1>4. Sums(f, m, SUBSET S)
  <2>1. \E g : Sums(g, m, SUBSET S)
    BY <1>3, SumsExist
  <2> QED BY <2>1, Zenon
<1>5. DigitsValue(m) = f[S]
  BY <1>1, FoldIsSum
<1> HIDE DEF f
<1>6. \A k \in Nat : k <= w => w - k \in Nat /\ 2^(w - k) \in Nat /\ 2^(w - k) >= 1
  <2> SUFFICES ASSUME NEW k \in Nat, k <= w PROVE w - k \in Nat /\ 2^(w - k) \in Nat /\ 2^(w - k) >= 1
    OBVIOUS
  <2>1. w - k \in Nat
    OBVIOUS
  <2> QED BY <2>1, PowersGrow
<1>7. \A i \in S : Bit(m, i) = (IF (n \div 2^(w - i)) % 2 = 1 THEN 2^(w - i) ELSE 0)
  <2> SUFFICES ASSUME NEW i \in S
               PROVE  Bit(m, i) = (IF (n \div 2^(w - i)) % 2 = 1 THEN 2^(w - i) ELSE 0)
    OBVIOUS
  <2>1. "0" # "1"
    OBVIOUS
  <2> QED BY <1>1, <1>2, <2>1 DEF Bit
<1>8. \A i \in S : Bit(m, i) \in Int
  <2> SUFFICES ASSUME NEW i \in S PROVE Bit(m, i) \in Int
    OBVIOUS
  <2>1. i \in Nat /\ i <= w
    OBVIOUS
  <2>2. 2^(w - i) \in Nat
    BY <1>6, <2>1
  <2> QED BY <1>7, <2>2
<1>9. InAnyOrder(f, m, S)
  <2> HIDE DEF S
  <2> QED BY <1>3, <1>4, <1>8, SumInAnyOrder
<1>10. 0 \in T
  <2>1. 1..0 = {} /\ 1..0 \in SUBSET S /\ w - 0 = w
    OBVIOUS
  <2>2. f[1..0] = 0
    BY <1>9, <2>1 DEF InAnyOrder
  <2>3. 2^w \in Nat /\ 2^w >= 1
    BY PowersGrow
  <2>4. n \div 2^w = 0
    BY <2>3
  <2>5. (n \div 2^w) * 2^w = 0
    BY <2>3, <2>4
  <2> QED BY <2>1, <2>2, <2>5
<1>11. ASSUME NEW k \in Nat, k \in T PROVE k + 1 \in T
  <2> SUFFICES ASSUME k + 1 <= w
               PROVE  f[1..(k + 1)] = (n \div 2^(w - (k + 1))) * 2^(w - (k + 1))
    OBVIOUS
  <2> DEFINE i == k + 1
             p == 2^(w - i)
             q == n \div p
             h == n \div (2 * p)
  <2>1. w - i \in Nat /\ (w - i) + 1 = w - k /\ i \in S /\ i \in Nat /\ i <= w /\ k <= w
    OBVIOUS
  <2>2. p \in Nat /\ p >= 1 /\ 2^(w - k) = 2 * p
    BY <1>6, <2>1, PowerOfTwo
  <2>3. 1..i \in SUBSET S /\ i \in 1..i /\ (1..i) \ {i} = 1..k
    BY <2>1
  <2>4. f[1..i] = f[1..k] + Bit(m, i)
    BY <1>9, <2>3 DEF InAnyOrder
  <2>5. f[1..k] = h * (2 * p)
    BY <1>11, <2>1, <2>2
  <2>6. Bit(m, i) = IF q % 2 = 1 THEN p ELSE 0
    BY <1>7, <2>1
  <2> HIDE DEF p
  <2>7. q \in Nat /\ h \in Nat /\ q = 2 * h + (q % 2)
    BY <2>2, HalfQuotient
  <2> HIDE DEF q, h
  <2>8. q % 2 \in {0, 1}
    BY <2>7
  <2>9. q * p = (2 * h) * p + (q % 2) * p
    BY <2>2, <2>7, <2>8
  <2>10. (2 * h) * p = h * (2 * p)
    BY <2>2, <2>7
  <2>11. (q % 2) * p = Bit(m, i)
    BY <2>2, <2>6, <2>8
  <2>12. f[1..i] = q * p
    BY <2>4, <2>5, <2>9, <2>10, <2>11
  <2> QED BY <2>12 DEF q, p
<1>12. \A k \in Nat : k \in T
  <2> HIDE DEF T
  <2> QED BY <1>10, <1>11, Induction
<1>13. f[S] = (n \div 2^(w - w)) * 2^(w - w)
  <2>1. w \in T
    BY <1>12
  <2>2. w <= w => f[1..w] = (n \div 2^(w - w)) * 2^(w - w)
    BY <2>1
  <2> QED BY <2>2
<1>14. w - w = 0 /\ 2^0 = 1
  BY PowerOfTwo
<1>15. (n \div 1) * 1 = n
  OBVIOUS
<1> QED BY <1>5, <1>13, <1>14, <1>15 DEF m

LEMMA MaxMinOfTwo ==
    ASSUME NEW a \in Int, NEW b \in Int
    PROVE  Max({a, b}) = (IF a >= b THEN a ELSE b) /\ Min({a, b}) = (IF a <= b THEN a ELSE b)
<1>1. \E x \in {a, b} : \A y \in {a, b} : x >= y
  OBVIOUS
<1>2. \E x \in {a, b} : \A y \in {a, b} : x <= y
  OBVIOUS
<1>3. Max({a, b}) \in {a, b} /\ \A y \in {a, b} : Max({a, b}) >= y
  BY <1>1 DEF Max
<1>4. Min({a, b}) \in {a, b} /\ \A y \in {a, b} : Min({a, b}) <= y
  BY <1>2 DEF Min
<1>5. Max({a, b}) = IF a >= b THEN a ELSE b
  BY <1>3
<1>6. Min({a, b}) = IF a <= b THEN a ELSE b
  BY <1>4
<1> QED BY <1>5, <1>6

\* The messages of any number asked for stand for the nearest one there is.
LEMMA NearestNumber ==
    ASSUME NEW d \in Descriptors, ValidDescriptor(d), ~d.enum, NEW x \in Int,
           NEW n \in GetMinValue(d)..GetMaxValue(d)
    PROVE  AbsoluteValue(NumberOf(d, NumericOutcomes(d, x)) - x) <= AbsoluteValue(n - x)
<1> DEFINE lo == GetMinValue(d)
           hi == GetMaxValue(d)
           y == IF x < lo \/ x > hi THEN Max({Min({x, hi}), lo}) ELSE x
           a == AbsoluteValue(y)
           w == d.digits
           m == WithSign(d, y, Digits(a, w))
<1>1. w \in Nat /\ d.signed \in BOOLEAN
  <2>1. PICK k \in DigitCounts, s \in BOOLEAN : d = Numeric(k, s)
    BY DEF Descriptors, Enum
  <2> QED BY <2>1, KormirAssumption DEF Numeric
<1>2. 2^w \in Nat /\ 2^w >= 1
  BY <1>1, PowersGrow
<1>3. hi = 2^w - 1 /\ lo = IF d.signed THEN -hi ELSE 0
  BY DEF GetMaxValue, GetMinValue
<1>4. hi \in Int /\ lo \in Int /\ hi >= 0 /\ lo <= 0 /\ lo >= -hi
  <2> HIDE DEF hi, lo
  <2> QED BY <1>2, <1>3
<1>5. y \in Int /\ lo <= y /\ y <= hi /\ AbsoluteValue(y - x) <= AbsoluteValue(n - x)
  <2>1. n \in Int /\ lo <= n /\ n <= hi
    BY <1>4
  <2> HIDE DEF hi, lo
  <2>2. Min({x, hi}) = (IF x <= hi THEN x ELSE hi) /\ Min({x, hi}) \in Int
    BY <1>4, MaxMinOfTwo
  <2>3. Max({Min({x, hi}), lo}) = IF Min({x, hi}) >= lo THEN Min({x, hi}) ELSE lo
    BY <1>4, <2>2, MaxMinOfTwo
  <2>4. y = IF x < lo THEN lo ELSE IF x > hi THEN hi ELSE x
    BY <1>4, <2>2, <2>3
  <2> HIDE DEF y
  <2> QED BY <1>4, <2>1, <2>4 DEF AbsoluteValue
<1>6. a \in Nat /\ a < 2^w /\ (y < 0 => d.signed) /\ (IF y < 0 THEN -a ELSE a) = y
  <2> HIDE DEF y, hi, lo
  <2> QED BY <1>1, <1>2, <1>3, <1>4, <1>5 DEF AbsoluteValue
<1>7. NumericOutcomes(d, x) = m
  <2>1. NumericOutcomes(d, x) = WithSign(d, y, Binary(a, w))
    BY DEF NumericOutcomes
  <2>2. Binary(a, w) = Digits(a, w)
    BY <1>1, <1>6, BinaryOfWidth
  <2> QED BY <2>1, <2>2
<1>8. DigitsValue(Digits(a, w)) = a
  BY <1>1, <1>6, ValueOfDigits
<1>9. NumberOf(d, m) = y
  <2> DEFINE b == Digits(a, w)
             digits == IF d.signed THEN Tail(m) ELSE m
  <2>1. b \in Seq({"0", "1"})
    <3>1. b = [i \in 1..w |-> b[i]] /\ \A i \in 1..w : b[i] \in {"0", "1"}
      BY DEF Digits
    <3> HIDE DEF b, w
    <3>2. b \in [1..w -> {"0", "1"}]
      BY <3>1, Zenon
    <3> QED BY <1>1, <3>2
  <2>2. NumberOf(d, m) = IF d.signed /\ Head(m) = "-" THEN -DigitsValue(digits) ELSE DigitsValue(digits)
    BY DEF NumberOf, DigitsValue, Bit
  <2>3. d.signed => m = <<IF y < 0 THEN "-" ELSE "+">> \o b
    BY DEF WithSign
  <2>4. ~d.signed => m = b
    BY DEF WithSign
  <2> HIDE DEF b, m, y, a
  <2>5. d.signed => Head(m) = (IF y < 0 THEN "-" ELSE "+") /\ Tail(m) = b
    <3>1. ASSUME NEW s \in {"-", "+"}, NEW B, {s} \cup {"0", "1"} = B
          PROVE  Head(<<s>> \o b) = s /\ Tail(<<s>> \o b) = b
      <4>1. s \in B /\ b \in Seq(B)
        BY <2>1, <3>1
      <4> QED BY <4>1
    <3> QED BY <2>3, <3>1
  <2>6. digits = b
    BY <2>4, <2>5
  <2>7. "-" # "+"
    OBVIOUS
  <2>8. DigitsValue(digits) = a
    BY <1>8, <2>6 DEF b
  <2>9. d.signed /\ Head(m) = "-" <=> y < 0
    BY <1>6, <2>5, <2>7
  <2> HIDE DEF digits
  <2> QED BY <1>6, <2>2, <2>8, <2>9
<1> HIDE DEF m, y
<1> QED BY <1>5, <1>7, <1>9

-----------------------------------------------------------------------------
(* What is signed and answered.                                            *)

\* A copy, or an attestation, signs what its request asked for.
SignsRequest(c) ==
    /\ c.id \in DOMAIN data
    /\ c.messages = Messages(data[c.id].descriptor, c.request)
    /\ ~data[c.id].descriptor.enum => c.request \in Int

RequestInv ==
    /\ \A t \in Tasks : Signing(t) => SignsRequest(call[t])
    /\ \A r \in released : r.request # None => SignsRequest(r)

LEMMA NextKeepsRequests ==
    ASSUME NonceInv, RequestInv, [KormirNext]_kormir
    PROVE  RequestInv'
<1>1. /\ call = [t \in Tasks |-> call[t]]
      /\ data = [id \in DOMAIN data |-> data[id]]
      /\ \A t \in Tasks : Creating(t) => call[t].id \notin DOMAIN data
      /\ \A t \in Tasks : Signing(t) => call[t].id \in DOMAIN data
      /\ \A id \in DOMAIN data :
            data[id] = [descriptor |-> data[id].descriptor, indexes |-> data[id].indexes,
                        signatures |-> data[id].signatures]
  BY DEF NonceInv, StoreShape, DraftedOnce, SignedAsStored
\* No record goes and none changes its descriptor: what is signed stays as it was.
<1>2. ASSUME \A id \in DOMAIN data : id \in DOMAIN data' /\ data'[id].descriptor = data[id].descriptor
      PROVE  \A c : SignsRequest(c) => SignsRequest(c)'
  <2> SUFFICES ASSUME NEW CONSTANT c, SignsRequest(c) PROVE SignsRequest(c)'
    OBVIOUS
  <2> QED BY <1>2 DEF SignsRequest
<1>3. ASSUME NEW t \in Tasks, NEW id \in EventIds, NEW d \in Descriptors, CreateEvent(t, id, d)
      PROVE  RequestInv'
  <2>1. data' = data /\ released' = released
    BY <1>3 DEF CreateEvent
  <2>2. call' = call \/ (/\ \A u \in Tasks \ {t} : call'[u] = call[u]
                         /\ call'[t].op = "create")
    BY <1>1, <1>3 DEF CreateEvent, Drafted
  <2>3. \A u \in Tasks : Signing(u)' => Signing(u) /\ call'[u] = call[u]
    BY <2>2 DEF Signing
  <2> QED BY <1>2, <2>1, <2>3 DEF RequestInv
<1>4. ASSUME NEW t \in Tasks, SaveAnnouncement(t)
      PROVE  RequestInv'
  <2>1. call[t].id \notin DOMAIN data
    BY <1>1, <1>4 DEF SaveAnnouncement, Creating, Busy
  <2>2. /\ DOMAIN data' = DOMAIN data \cup {call[t].id}
        /\ \A x \in DOMAIN data : data'[x] = data[x]
    BY <1>4, <2>1 DEF SaveAnnouncement
  <2>3. \A u \in Tasks : Signing(u)' => Signing(u) /\ call'[u] = call[u]
    <3>1. call'[t] = None /\ \A u \in Tasks \ {t} : call'[u] = call[u]
      BY <1>1, <1>4 DEF SaveAnnouncement
    <3> QED BY <3>1 DEF Signing
  <2>4. released' = released
    BY <1>4 DEF SaveAnnouncement
  <2> QED BY <1>2, <2>2, <2>3, <2>4 DEF RequestInv
<1>5. ASSUME NEW t \in Tasks, NEW id \in EventIds, NEW request \in Requests(id),
             SignEvent(t, id, request)
      PROVE  RequestInv'
  <2>1. /\ data' = data /\ released' = released /\ id \in DOMAIN data
        /\ \A u \in Tasks \ {t} : call'[u] = call[u]
        /\ call'[t].id = id /\ call'[t].request = request
        /\ call'[t].messages = Messages(data[id].descriptor, request)
    BY <1>1, <1>5 DEF SignEvent
  <2>2. ~data[id].descriptor.enum => request \in Int
    BY <2>1, KormirAssumption DEF Requests, Numbers
  <2>3. SignsRequest(call[t])'
    BY <2>1, <2>2 DEF SignsRequest
  <2>4. \A u \in Tasks \ {t} : Signing(u)' => Signing(u) /\ call'[u] = call[u]
    BY <2>1 DEF Signing
  <2> QED BY <1>2, <2>1, <2>3, <2>4 DEF RequestInv
<1>6. ASSUME NEW t \in Tasks, SaveSignatures(t) \/ Panics(t)
      PROVE  RequestInv'
  <2>1. \A u \in Tasks : Signing(u)' => Signing(u) /\ call'[u] = call[u]
    <3>1. call'[t] = None /\ \A u \in Tasks \ {t} : call'[u] = call[u]
      BY <1>1, <1>6 DEF SaveSignatures, Panics
    <3> QED BY <3>1 DEF Signing
  <2>2. CASE data' = data /\ released' = released
    BY <1>2, <2>1, <2>2 DEF RequestInv
  <2>3. CASE SaveSignatures(t) /\ StoreSignatures(t)
    <3>1. Signing(t) /\ call[t].id \in DOMAIN data
      BY <1>1, <2>3 DEF SaveSignatures, Signing, Busy
    <3>2. /\ DOMAIN data' = DOMAIN data
          /\ \A x \in DOMAIN data : data'[x].descriptor = data[x].descriptor
      BY <1>1, <2>3, <3>1 DEF StoreSignatures
    <3>3. \A r \in released' :
            r \in released \/ (/\ r.id = call[t].id /\ r.messages = call[t].messages
                               /\ r.request = call[t].request)
      BY <2>3 DEF StoreSignatures, Attestation
    <3>4. SignsRequest(call[t])
      BY <3>1 DEF RequestInv
    <3>5. \A r \in released' : r.request # None => SignsRequest(r)
      BY <3>3, <3>4 DEF RequestInv, SignsRequest
    <3>6. \A r \in released' : r.request # None => SignsRequest(r)'
      BY <1>2, <3>2, <3>5
    <3> QED BY <1>2, <2>1, <3>2, <3>6 DEF RequestInv
  <2> QED BY <1>6, <2>2, <2>3 DEF SaveSignatures, Panics
<1>7. ASSUME NEW id \in EventIds, GetAttestation(id)
      PROVE  RequestInv'
  <2>1. data' = data /\ call' = call /\ \A r \in released' : r \in released \/ r.request = None
    BY <1>7 DEF GetAttestation
  <2> QED BY <1>2, <2>1 DEF RequestInv, Signing
<1>8. CASE UNCHANGED kormir
  BY <1>8 DEF kormir, RequestInv, SignsRequest, Signing
<1> QED BY <1>3, <1>4, <1>5, <1>6, <1>7, <1>8 DEF KormirNext

\* What clients were answered stays true, for any numbers of digits and any
\* requests: an announced event stays in the store and can be attested, and a number
\* is attested as the representable number nearest to the one asked for
\* (save_announcement, sign_numeric_event).
THEOREM OracleKeepsItsWord == KormirSpec => []KormirInv
<1>1. KormirInit => RequestInv
  BY DEF KormirInit, RequestInv, Signing
<1>2. NonceInv /\ RequestInv /\ [KormirNext]_kormir => RequestInv'
  BY NextKeepsRequests
<1>3. KormirTypeOK /\ RequestInv => AttestsNearestNumber
  <2> SUFFICES ASSUME KormirTypeOK, RequestInv, NEW r \in released, r.request # None,
                      ~data[r.id].descriptor.enum,
                      NEW n \in GetMinValue(data[r.id].descriptor)..GetMaxValue(data[r.id].descriptor)
               PROVE  AbsoluteValue(NumberOf(data[r.id].descriptor, r.messages) - r.request)
                         <= AbsoluteValue(n - r.request)
    BY DEF AttestsNearestNumber
  <2> DEFINE d == data[r.id].descriptor
  <2>1. SignsRequest(r)
    BY DEF RequestInv
  <2>2. d \in Descriptors /\ ValidDescriptor(d) /\ r.request \in Int
    BY <2>1 DEF KormirTypeOK, SignsRequest
  <2>3. r.messages = NumericOutcomes(d, r.request)
    BY <2>1 DEF SignsRequest, Messages
  <2> QED BY <2>2, <2>3, NearestNumber
<1> QED BY <1>1, <1>2, <1>3, IndexesBelongToOneEvent, AnnouncedEventsAreKept, PTL DEF KormirSpec, KormirInv

=============================================================================
