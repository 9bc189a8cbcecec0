------------------------------- MODULE Store -------------------------------
(***************************************************************************)
(* What a durable storage back end promises to the contract manager and to *)
(* the wallet: the traits ddk_manager::Storage (contracts) and             *)
(* ddk::Storage (the change set of the BDK wallet).  A call takes effect   *)
(* at one instant between its start and its return; a call that succeeds   *)
(* took effect, and one that fails took effect entirely or not at all.     *)
(* A removal is weaker: it may miss a record that another call stores      *)
(* while it is under way.                                                  *)
(*                                                                         *)
(* PostgresStore is shown to implement this module.                        *)
(***************************************************************************)
EXTENDS Naturals

CONSTANTS
    Clients,        \* tasks of the program that call the store
    Ids,            \* contract identifiers, temporary and final ones
    Keychains,      \* keychains of the wallet
    Heights, Txs,   \* block heights and transactions the wallet knows of
    Hashes,         \* block hashes
    Ops,            \* the calls that may be made
    None            \* nothing: no record, no call, no answer

VARIABLES
    contracts,      \* the state stored under each identifier, or None
    wallet,         \* the merged change set of the wallet
    pending,        \* the call each client is waiting for, or None
    reply,          \* how the last call of each client ended
    fresh           \* the records other calls wrote since a client's call began

vars == <<contracts, wallet, pending, reply, fresh>>

MaxOf(a, b) == IF a > b THEN a ELSE b

(* The least of two time stamps, 0 standing for "unknown".                 *)
MinOf(a, b) == IF a = 0 THEN b ELSE IF b = 0 \/ a < b THEN a ELSE b

EmptyChangeSet ==
    [descriptors |-> {}, revealed |-> [k \in Keychains |-> 0],
     spks |-> {}, blocks |-> [h \in Heights |-> None], txs |-> {},
     last_seen |-> [t \in Txs |-> 0], first_seen |-> [t \in Txs |-> 0],
     last_evicted |-> [t \in Txs |-> 0], anchors |-> {}]

(* BDK's Merge: sets grow, indexes and times are clamped, blocks are       *)
(* replaced.  cs.heights is the domain of the sparse map of blocks.        *)
MergeChangeSet(old, cs) ==
    [descriptors |-> old.descriptors \cup cs.descriptors,
     revealed |-> [k \in Keychains |-> MaxOf(old.revealed[k], cs.revealed[k])],
     spks |-> old.spks \cup cs.spks,
     blocks |-> [h \in Heights |-> IF h \in cs.heights THEN cs.blocks[h] ELSE old.blocks[h]],
     txs |-> old.txs \cup cs.txs,
     last_seen |-> [t \in Txs |-> MaxOf(old.last_seen[t], cs.last_seen[t])],
     first_seen |-> [t \in Txs |-> MinOf(old.first_seen[t], cs.first_seen[t])],
     last_evicted |-> [t \in Txs |-> MaxOf(old.last_evicted[t], cs.last_evicted[t])],
     anchors |-> old.anchors \cup cs.anchors]

(* Accepting and signing replace the record kept under the temporary id.   *)
Removed(op) ==
    CASE op.kind = "delete" -> {op.id}
      [] op.kind = "update" /\ op.state \in {"Accepted", "Signed"} -> {op.temp} \ {op.id}
      [] OTHER -> {}

(* The record a call stores, and the state it stores it in.                *)
Stored(op) == IF op.kind \in {"create", "update"} THEN {op.id} ELSE {}
NewState(op) == IF op.kind = "create" THEN "Offered" ELSE op.state

ContractsAfter(op, missed) ==
    [id \in Ids |-> IF id \in Stored(op) THEN NewState(op)
                    ELSE IF id \in Removed(op) \ missed THEN None ELSE contracts[id]]

FreshAfter(c) ==
    [d \in Clients |-> fresh[d] \cup IF d = c THEN {} ELSE Stored(pending[c])]

WalletAfter(op) == IF op.kind = "write" THEN MergeChangeSet(wallet, op.changes) ELSE wallet

Init ==
    /\ contracts = [id \in Ids |-> None]
    /\ wallet = EmptyChangeSet
    /\ pending = [c \in Clients |-> None]
    /\ reply = [c \in Clients |-> None]
    /\ fresh = [c \in Clients |-> {}]

(* The change set that creates a wallet carries its descriptors; later     *)
(* ones may rely on them.                                                  *)
Describes(op) ==
    op.kind = "write" =>
        \A k \in Keychains :
            op.changes.revealed[k] > 0 => k \in wallet.descriptors \cup op.changes.descriptors

Call(c, op) ==
    /\ pending[c] = None
    /\ Describes(op)
    /\ pending' = [pending EXCEPT ![c] = op]
    /\ reply' = [reply EXCEPT ![c] = None]
    /\ fresh' = [fresh EXCEPT ![c] = {}]
    /\ UNCHANGED <<contracts, wallet>>

(* The call takes effect; its caller may still be told of an error.        *)
TakeEffect(c, answer) ==
    /\ pending[c] # None
    /\ \E missed \in SUBSET (Removed(pending[c]) \cap fresh[c]) :
          contracts' = ContractsAfter(pending[c], missed)
    /\ wallet' = WalletAfter(pending[c])
    /\ pending' = [pending EXCEPT ![c] = None]
    /\ reply' = [reply EXCEPT ![c] = answer]
    /\ fresh' = FreshAfter(c)

Refuse(c) ==
    /\ pending[c] # None
    /\ pending' = [pending EXCEPT ![c] = None]
    /\ reply' = [reply EXCEPT ![c] = "error"]
    /\ UNCHANGED <<contracts, wallet, fresh>>

(* The process stops: calls under way are forgotten, what is stored stays. *)
Restart ==
    /\ pending' = [c \in Clients |-> None]
    /\ reply' = [c \in Clients |-> None]
    /\ UNCHANGED <<contracts, wallet, fresh>>

Next ==
    \/ \E c \in Clients :
          \/ \E op \in Ops : Call(c, op)
          \/ \E answer \in {"ok", "error"} : TakeEffect(c, answer)
          \/ Refuse(c)
    \/ Restart

Spec == Init /\ [][Next]_vars
=============================================================================
