------------------------------- MODULE Ledger -------------------------------
(***************************************************************************)
(* The Bitcoin network as ddk-manager sees it through the Blockchain trait *)
(* (ddk-manager/src/lib.rs): transactions are handed over with             *)
(* send_transaction and looked up with get_transaction_confirmations.      *)
(*                                                                         *)
(* A transaction is an atom.  Parent[t] is the transaction whose tracked   *)
(* output t spends (NoTx when it spends only wallet coins); two            *)
(* transactions with the same parent are rivals, and the network holds at  *)
(* most one of them.  Confirmations are counted up to SafeConf, the depth  *)
(* from which the manager treats a transaction as settled; a               *)
(* reorganisation undoes only transactions that are not that deep.         *)
(*                                                                         *)
(* There is one mempool.  Two esplora servers with different mempools are  *)
(* covered by Evict followed by Rebroadcast.                               *)
(***************************************************************************)
EXTENDS Naturals

CONSTANTS Tx,        \* the transactions of one contract or channel
          NoTx,      \* "no transaction"
          Parent,    \* Parent[t]: the transaction t spends, or NoTx
          SafeConf   \* confirmations from which a transaction is settled

VARIABLES mempool,   \* transactions with zero confirmations
          conf,      \* conf[t]: confirmations of t, counted up to SafeConf
          seen       \* every transaction the network ever accepted

LedgerTypeOK == /\ mempool \subseteq Tx
                /\ conf \in [Tx -> 0..SafeConf]
                /\ seen \subseteq Tx

\* ConfirmationStatus: NotFound is ~Known(t), InMempool is Known(t) with
\* conf[t] = 0, Confirmed(n) is conf[t] = n.
Known(t) == t \in mempool \/ conf[t] > 0

Rivals(t) == {u \in Tx \ {t} : Parent[t] # NoTx /\ Parent[u] = Parent[t]}

\* The network takes t: what it spends exists and nothing else spends it.
Acceptable(t) == /\ Parent[t] # NoTx => Known(Parent[t])
                 /\ \A u \in Rivals(t) : ~Known(u)

\* send_transaction succeeds for a transaction the network already has
\* (esplora.rs returns early when it is confirmed; a mempool accepts it again).
SendSucceeds(t) == Known(t) \/ Acceptable(t)

Send(t) == /\ mempool' = IF conf[t] > 0 THEN mempool ELSE mempool \union {t}
           /\ seen' = seen \union {t}
           /\ conf' = conf

-----------------------------------------------------------------------------
\* Steps of the network.

\* A block with the transactions of S: they must be minable, i.e. spend an
\* output that is on chain or created in the same block.
MineBlock(S) ==
    /\ S \subseteq mempool
    /\ \A t \in S : Parent[t] # NoTx => conf[Parent[t]] > 0 \/ Parent[t] \in S
    /\ S # {} \/ \E t \in Tx : conf[t] \in 1..(SafeConf - 1)
    /\ mempool' = mempool \ S
    /\ conf' = [t \in Tx |-> IF t \in S THEN 1
                             ELSE IF conf[t] \in 1..(SafeConf - 1) THEN conf[t] + 1
                             ELSE conf[t]]
    /\ seen' = seen

\* The mempool drops t, everything that depends on it, and possibly more.
Evict(t) ==
    \E D \in SUBSET mempool :
        /\ t \in D
        /\ \A u \in mempool : Parent[u] \in D => u \in D
        /\ mempool' = mempool \ D
        /\ UNCHANGED <<conf, seen>>

\* A reorganisation that returns t to the mempool.
Reorg(t) ==
    /\ conf[t] \in 1..(SafeConf - 1)
    /\ \A u \in Tx : Parent[u] = t => conf[u] = 0
    /\ mempool' = mempool \union {t}
    /\ conf' = [conf EXCEPT ![t] = 0]
    /\ seen' = seen

\* Any node that still holds a transaction may relay it again.
Rebroadcast(t) ==
    /\ t \in seen
    /\ ~Known(t)
    /\ Acceptable(t)
    /\ Send(t)

\* No output is spent twice, nothing is known without what it spends, and
\* the three views of a transaction agree.
NoDoubleSpend == \A t \in Tx : Known(t) => \A u \in Rivals(t) : ~Known(u)
ParentsKnown == \A t \in Tx : Known(t) /\ Parent[t] # NoTx => Known(Parent[t])
ParentsFirst == \A t \in Tx : conf[t] > 0 /\ Parent[t] # NoTx => conf[Parent[t]] > 0
ViewsAgree == /\ \A t \in mempool : conf[t] = 0
              /\ \A t \in Tx : Known(t) => t \in seen
LedgerInv == NoDoubleSpend /\ ParentsKnown /\ ParentsFirst /\ ViewsAgree
=============================================================================
