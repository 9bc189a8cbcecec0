--------------------------- MODULE PostgresStore ---------------------------
(***************************************************************************)
(* PostgresStore (ddk/src/storage/postgres) and SledStorage                *)
(* (ddk/src/storage/sled).  Every operation of the former is a list of SQL *)
(* statements that runs in one READ COMMITTED transaction on a connection  *)
(* of the pool; the server locks the rows a statement touches until the    *)
(* transaction ends, and aborts one of the transactions that wait for each *)
(* other.  The latter keeps one key-value tree per kind of record, and     *)
(* merges the wallet's change set into the stored one.                     *)
(***************************************************************************)
EXTENDS Naturals, Sequences, FiniteSets, SequencesExt

CONSTANTS Clients, Ids, Keychains, Heights, Txs, Hashes, None,
          ContractOps,      \* calls of the manager's tasks
          WalletOps,        \* change sets the wallet's actor persists
          WalletClient,     \* the actor
          OwnOffers,        \* contracts this party offers (is_offer_party)
          Backends,         \* the back ends to consider
          MaxConnections,   \* size of the pool
          MaxCalls          \* bound on the number of calls

Ops == ContractOps \cup WalletOps

(* A change set of the wallet, and what is stored of a transaction.        *)
ChangeSet == [descriptors : SUBSET Keychains, revealed : [Keychains -> Nat],
              spks : SUBSET Keychains, heights : SUBSET Heights,
              blocks : [Heights -> Hashes \cup {None}], txs : SUBSET Txs,
              last_seen : [Txs -> Nat], first_seen : [Txs -> Nat],
              last_evicted : [Txs -> Nat], anchors : SUBSET (Txs \X Hashes)]
TxRows == [whole_tx : BOOLEAN, last_seen : Nat, first_seen : Nat, last_evicted : Nat]

(* The states a contract is stored in.                                     *)
States == {"Offered"} \cup {op.state : op \in {o \in ContractOps : o.kind = "update"}}

ASSUME StoreAssumption ==
    /\ MaxConnections \in Nat \ {0} /\ MaxCalls \in Nat /\ Backends \subseteq {"postgres", "sled"}
    /\ OwnOffers \subseteq Ids
    /\ IsFiniteSet(Clients) /\ WalletClient \in Clients
    /\ IsFiniteSet(Keychains) /\ IsFiniteSet(Heights) /\ IsFiniteSet(Txs) /\ IsFiniteSet(Hashes)

(* The manager's tasks store contracts, and only the actor the wallet.     *)
ASSUME CallAssumption ==
    /\ \A op \in ContractOps : /\ op.kind \in {"create", "update", "delete"} /\ op.id \in Ids
                               /\ op.kind = "update" => op.temp \in Ids
    /\ \A op \in WalletOps : op.kind = "write" /\ op.changes \in ChangeSet

ASSUME NoneAssumption ==
    /\ None \notin Ops /\ None \notin States /\ None \notin Hashes
    /\ None \notin Nat /\ None \notin BOOLEAN /\ None \notin TxRows

VARIABLES
    backend,    \* "postgres" or "sled"
    db,         \* committed rows: [Rows -> value or None]
    writes,     \* uncommitted rows of each client, which it holds locked
    todo,       \* statements left to each client
    phase,      \* "idle", "acquire", "open" or, with sled, "got"
    tree,       \* sled: the tree of contracts
    changeset,  \* sled: the stored change set of the wallet
    copy,       \* sled: the change set a client has read
    pending, reply,
    fresh,      \* history: records other calls stored since a call began
    calls       \* calls made so far

vars == <<backend, db, writes, todo, phase, tree, changeset, copy, pending, reply, fresh, calls>>

(* The tables: a contract's metadata and data, and those of the wallet.    *)
Row(table, key) == <<table, key>>
Rows == {Row(t, id) : t \in {"metadata", "data"}, id \in Ids}
        \cup {Row(t, k) : t \in {"keychain", "spk_cache"}, k \in Keychains}
        \cup {Row("block", h) : h \in Heights} \cup {Row("tx", t) : t \in Txs}
        \cup {Row("anchor_tx", a) : a \in Txs \X Hashes}

(* The abstract store, with the committed rows as its contents.            *)
RowTx(t) == IF db[Row("tx", t)] = None
            THEN [whole_tx |-> FALSE, last_seen |-> 0, first_seen |-> 0, last_evicted |-> 0]
            ELSE db[Row("tx", t)]

Read == [descriptors |-> {k \in Keychains : db[Row("keychain", k)] # None},
         revealed |-> [k \in Keychains |-> IF db[Row("keychain", k)] = None
                                           THEN 0 ELSE db[Row("keychain", k)]],
         spks |-> {k \in Keychains : db[Row("spk_cache", k)] # None},
         blocks |-> [h \in Heights |-> db[Row("block", h)]],
         txs |-> {t \in Txs : RowTx(t).whole_tx},
         last_seen |-> [t \in Txs |-> RowTx(t).last_seen],
         first_seen |-> [t \in Txs |-> RowTx(t).first_seen],
         last_evicted |-> [t \in Txs |-> RowTx(t).last_evicted],
         anchors |-> {a \in Txs \X Hashes : db[Row("anchor_tx", a)] # None}]

(* The lists read from one table or the other.                             *)
GetContractMetadata(states) == {id \in Ids : db[Row("metadata", id)] \in states}
GetContractsInState(state) == {id \in Ids : db[Row("data", id)] = state}

(* get_contract_offers reads the data of what the metadata calls an offer  *)
(* of the other party.                                                     *)
GetContractOffers ==
    {id \in GetContractMetadata({"Offered"}) \ OwnOffers : db[Row("data", id)] # None}

Abstract == INSTANCE Store WITH
    contracts <- IF backend = "sled" THEN tree ELSE [id \in Ids |-> db[Row("data", id)]],
    wallet <- IF backend = "sled" THEN changeset ELSE Read

-----------------------------------------------------------------------------
(* The statements of each operation.                                       *)

Statement(do, row, value) == [do |-> do, row |-> row, value |-> value]

CreateContract(op) ==
    <<Statement("insert", Row("metadata", op.id), "Offered"),
      Statement("insert", Row("data", op.id), "Offered")>>

DeleteContract(id) ==
    <<Statement("delete", Row("data", id), None),
      Statement("delete", Row("metadata", id), None)>>

UpdateContractKeepsState(op) ==
    (IF op.state \in {"Accepted", "Signed"} THEN DeleteContract(op.temp) ELSE <<>>)
    \o <<Statement("ignore", Row("metadata", op.id), op.state),
         Statement("upsert", Row("data", op.id), op.state)>>

(* Both halves of a record are upserted; Accepted and Signed contracts     *)
(* first remove what is stored under their temporary id.                   *)
UpdateContract(op) ==
    (IF op.state \in {"Accepted", "Signed"} THEN DeleteContract(op.temp) ELSE <<>>)
    \o <<Statement("upsert", Row("metadata", op.id), op.state),
         Statement("upsert", Row("data", op.id), op.state)>>

(* One statement for every entry of a set, in some fixed order.            *)
ForEach(S, Stmt(_)) == LET order == SetToSeq(S) IN [i \in DOMAIN order |-> Stmt(order[i])]

InsertDescriptor(cs) ==
    ForEach(cs.descriptors, LAMBDA k : Statement("ignore", Row("keychain", k), 0))

UpdateLastRevealedStale(cs) ==
    ForEach({k \in Keychains : cs.revealed[k] > 0},
            LAMBDA k : Statement("upsert", Row("keychain", k), cs.revealed[k]))

UpdateLastRevealed(cs) ==
    ForEach({k \in Keychains : cs.revealed[k] > 0},
            LAMBDA k : Statement("greatest", Row("keychain", k), cs.revealed[k]))

PersistSpkCache(cs) ==
    ForEach(cs.spks, LAMBDA k : Statement("ignore", Row("spk_cache", k), TRUE))

(* A block that a reorganisation removed arrives without a hash.           *)
PersistLocalChain(cs) ==
    ForEach(cs.heights,
            LAMBDA h : IF cs.blocks[h] = None THEN Statement("delete", Row("block", h), None)
                       ELSE Statement("upsert", Row("block", h), cs.blocks[h]))

TxRow(whole, seen, first, evicted) ==
    [whole_tx |-> whole, last_seen |-> seen, first_seen |-> first, last_evicted |-> evicted]

(* Transactions, then their times, then the anchors that refer to them.    *)
PersistTxGraph(cs) ==
    ForEach(cs.txs, LAMBDA t : Statement("merge", Row("tx", t), TxRow(TRUE, 0, 0, 0)))
        \o ForEach({t \in Txs : cs.last_seen[t] > 0},
                   LAMBDA t : Statement("merge", Row("tx", t), TxRow(FALSE, cs.last_seen[t], 0, 0)))
        \o ForEach({t \in Txs : cs.first_seen[t] > 0},
                   LAMBDA t : Statement("merge", Row("tx", t), TxRow(FALSE, 0, cs.first_seen[t], 0)))
        \o ForEach({t \in Txs : cs.last_evicted[t] > 0},
                   LAMBDA t : Statement("merge", Row("tx", t), TxRow(FALSE, 0, 0, cs.last_evicted[t])))
        \o ForEach(cs.anchors, LAMBDA a : Statement("reference", Row("anchor_tx", a), TRUE))

Write(cs) ==
    InsertDescriptor(cs) \o UpdateLastRevealed(cs) \o PersistSpkCache(cs)
        \o PersistLocalChain(cs) \o PersistTxGraph(cs)

Statements(op) ==
    CASE op.kind = "create" -> CreateContract(op)
      [] op.kind = "update" -> UpdateContract(op)
      [] op.kind = "delete" -> DeleteContract(op.id)
      [] op.kind = "write"  -> Write(op.changes)

-----------------------------------------------------------------------------
(* The server: row locks, constraints, commits and aborts.                 *)

Nothing == [r \in {} |-> None]      \* a transaction that wrote nothing

View(c) == [r \in Rows |-> IF r \in DOMAIN writes[c] THEN writes[c][r] ELSE db[r]]

(* Deleting a contract's metadata cascades to its data.                    *)
Touched(c, s) ==
    {r \in {s.row} \cup {Row("data", id) : id \in {i \in Ids :
                s.do = "delete" /\ s.row = Row("metadata", i)}} :
        s.do \in {"delete", "greatest"} => View(c)[r] # None}

Holds(d, r) == r \in DOMAIN writes[d]

(* The clients whose locks statement s of c waits for.                     *)
Blockers(c, s) == {d \in Clients \ {c} : \E r \in Touched(c, s) : Holds(d, r)}

WaitsFor(c, d) == phase[c] = "open" /\ todo[c] # <<>> /\ d \in Blockers(c, Head(todo[c]))

Violates(c, s) ==
    \/ s.do = "insert" /\ View(c)[s.row] # None
    \/ s.row[1] = "data" /\ s.do # "delete" /\ View(c)[Row("metadata", s.row[2])] = None
    \/ s.do = "reference" /\ View(c)[Row("tx", s.row[2][1])] = None

MergeTx(old, new) ==
    TxRow(old.whole_tx \/ new.whole_tx, Abstract!MaxOf(old.last_seen, new.last_seen),
          Abstract!MinOf(old.first_seen, new.first_seen),
          Abstract!MaxOf(old.last_evicted, new.last_evicted))

(* The value a statement leaves in a row that it touches.                  *)
Written(s, old) ==
    CASE s.do = "delete" -> None
      [] s.do = "ignore" /\ old # None -> old
      [] s.do = "merge" /\ old # None -> MergeTx(old, s.value)
      [] s.do = "greatest" -> Abstract!MaxOf(old, s.value)
      [] OTHER -> s.value

Connections == Cardinality({c \in Clients : phase[c] = "open"})

(* The end of a call: its connection goes back to the pool.                *)
Return(c, answer) ==
    /\ phase' = [phase EXCEPT ![c] = "idle"]
    /\ todo' = [todo EXCEPT ![c] = <<>>]
    /\ writes' = [writes EXCEPT ![c] = Nothing]
    /\ pending' = [pending EXCEPT ![c] = None]
    /\ reply' = [reply EXCEPT ![c] = answer]

(* The early return of an error drops the transaction.                     *)
Fail(c) == Return(c, "error") /\ UNCHANGED <<backend, db, tree, changeset, copy, fresh, calls>>

Begin(c, op) ==
    /\ pending[c] = None /\ calls < MaxCalls
    /\ Abstract!Describes(op)
    /\ pending' = [pending EXCEPT ![c] = op]
    /\ reply' = [reply EXCEPT ![c] = None]
    /\ phase' = [phase EXCEPT ![c] = "acquire"]
    /\ fresh' = [fresh EXCEPT ![c] = {}]
    /\ calls' = calls + 1
    /\ UNCHANGED <<backend, db, writes, todo, tree, changeset, copy>>

(* pool.begin(): wait for a connection and open a transaction.             *)
Acquire(c) ==
    /\ backend = "postgres" /\ phase[c] = "acquire" /\ Connections < MaxConnections
    /\ phase' = [phase EXCEPT ![c] = "open"]
    /\ todo' = [todo EXCEPT ![c] = Statements(pending[c])]
    /\ UNCHANGED <<backend, db, writes, tree, changeset, copy, pending, reply, fresh, calls>>

AcquireTimeout(c) ==
    /\ backend = "postgres" /\ phase[c] = "acquire" /\ Connections = MaxConnections
    /\ Fail(c)

Execute(c) ==
    /\ phase[c] = "open" /\ todo[c] # <<>>
    /\ LET s == Head(todo[c])
       IN  /\ Blockers(c, s) = {} /\ ~Violates(c, s)
           /\ writes' = [writes EXCEPT ![c] =
                 [r \in Touched(c, s) \cup DOMAIN @ |->
                    IF r \in Touched(c, s) THEN Written(s, View(c)[r]) ELSE @[r]]]
    /\ todo' = [todo EXCEPT ![c] = Tail(@)]
    /\ UNCHANGED <<backend, db, phase, tree, changeset, copy, pending, reply, fresh, calls>>

StatementFailsRetries(c) ==
    /\ phase[c] = "open" /\ todo[c] # <<>>
    /\ Blockers(c, Head(todo[c])) = {} /\ Violates(c, Head(todo[c]))
    /\ todo' = [todo EXCEPT ![c] = Statements(pending[c])]
    /\ writes' = [writes EXCEPT ![c] = Nothing]
    /\ UNCHANGED <<backend, db, phase, tree, changeset, copy, pending, reply, fresh, calls>>

StatementFails(c) ==
    /\ phase[c] = "open" /\ todo[c] # <<>>
    /\ Blockers(c, Head(todo[c])) = {} /\ Violates(c, Head(todo[c]))
    /\ Fail(c)

(* Two transactions wait for each other: the server aborts one of them.    *)
DeadlockDetected(c) ==
    /\ \E d \in Clients : WaitsFor(c, d) /\ WaitsFor(d, c)
    /\ Fail(c)

(* commit(): the answer may be lost on its way back.                       *)
Commit(c, answer) ==
    /\ phase[c] = "open" /\ todo[c] = <<>>
    /\ db' = View(c)
    /\ fresh' = Abstract!FreshAfter(c)
    /\ Return(c, answer)
    /\ UNCHANGED <<backend, tree, changeset, copy, calls>>

ConnectionLost(c) == phase[c] = "open" /\ Fail(c)

-----------------------------------------------------------------------------
(* Sled: every operation on the contract tree is one sled transaction.     *)

SledContracts(c) ==
    /\ backend = "sled" /\ phase[c] = "acquire" /\ pending[c].kind # "write"
    /\ tree' = Abstract!ContractsAfter(pending[c], {})
    /\ fresh' = Abstract!FreshAfter(c)
    /\ Return(c, "ok")
    /\ UNCHANGED <<backend, db, changeset, copy, calls>>

SledPersistGet(c) ==
    /\ backend = "sled" /\ phase[c] = "acquire" /\ pending[c].kind = "write"
    /\ copy' = [copy EXCEPT ![c] = changeset]
    /\ phase' = [phase EXCEPT ![c] = "got"]
    /\ UNCHANGED <<backend, db, writes, todo, tree, changeset, pending, reply, fresh, calls>>

SledPersistInsert(c) ==
    /\ phase[c] = "got"
    /\ changeset' = Abstract!MergeChangeSet(copy[c], pending[c].changes)
    /\ copy' = [copy EXCEPT ![c] = None]
    /\ Return(c, "ok")
    /\ UNCHANGED <<backend, db, tree, fresh, calls>>

SledFails(c) ==
    /\ backend = "sled" /\ phase[c] \in {"acquire", "got"}
    /\ copy' = [copy EXCEPT ![c] = None]
    /\ Return(c, "error")
    /\ UNCHANGED <<backend, db, tree, changeset, fresh, calls>>

(* The process stops; the server rolls its transactions back.              *)
Restart ==
    /\ phase' = [c \in Clients |-> "idle"]
    /\ todo' = [c \in Clients |-> <<>>]
    /\ writes' = [c \in Clients |-> Nothing]
    /\ copy' = [c \in Clients |-> None]
    /\ pending' = [c \in Clients |-> None]
    /\ reply' = [c \in Clients |-> None]
    /\ UNCHANGED <<backend, db, tree, changeset, fresh, calls>>

Init ==
    /\ backend \in Backends
    /\ db = [r \in Rows |-> None]
    /\ writes = [c \in Clients |-> Nothing]
    /\ todo = [c \in Clients |-> <<>>]
    /\ phase = [c \in Clients |-> "idle"]
    /\ tree = [id \in Ids |-> None]
    /\ changeset = Abstract!EmptyChangeSet
    /\ copy = [c \in Clients |-> None]
    /\ pending = [c \in Clients |-> None]
    /\ reply = [c \in Clients |-> None]
    /\ fresh = [c \in Clients |-> {}]
    /\ calls = 0

Proceed(c) ==
    \/ Acquire(c) \/ Execute(c) \/ StatementFails(c) \/ DeadlockDetected(c) \/ Commit(c, "ok")
    \/ SledContracts(c) \/ SledPersistGet(c) \/ SledPersistInsert(c)

Next ==
    \/ \E c \in Clients :
          \/ \E op \in IF c = WalletClient THEN WalletOps ELSE ContractOps : Begin(c, op)
          \/ Proceed(c)
          \/ Commit(c, "error") \/ AcquireTimeout(c) \/ ConnectionLost(c) \/ SledFails(c)
    \/ Restart

(* The runtime polls every task, and the server answers every statement.   *)
Spec == Init /\ [][Next]_vars /\ \A c \in Clients : SF_vars(Acquire(c)) /\ WF_vars(Proceed(c))

-----------------------------------------------------------------------------
(* Properties.                                                             *)

TypeOK ==
    /\ \A r \in Rows : r[1] \in {"metadata", "data"} => db[r] \in {None} \cup States
    /\ \A c \in Clients :
          /\ DOMAIN writes[c] \subseteq Rows
          /\ phase[c] \in {"idle", "acquire", "open", "got"}
          /\ (pending[c] = None) = (phase[c] = "idle")
          /\ reply[c] \in {None, "ok", "error"}
    /\ Connections <= MaxConnections
    /\ calls \in 0..MaxCalls

(* The two tables that hold a contract always tell of the same contracts   *)
(* in the same states, so the lists read from one (get_contract_offers     *)
(* joins both, get_contract_metadata reads the other) are never at odds,   *)
(* whatever calls overlap, fail or are cut short.                          *)
HalvesAgree ==
    /\ \A state \in States : GetContractMetadata({state}) = GetContractsInState(state)
    /\ GetContractOffers = GetContractsInState("Offered") \ OwnOffers

(* The tables, the transactions under way and the pool hold what they can, *)
(* and the halves of a contract agree (update_contract, delete_contract).  *)
StoreInv == TypeOK /\ HalvesAgree

(* Whatever the interleaving of their statements, the locks they wait for, *)
(* the aborts, lost answers and restarts, calls are atomic: see Store.     *)
StoreIsAtomic == Abstract!Spec

(* Every call of the store returns: tasks that lock the same rows in       *)
(* opposite orders, or that wait for a connection, do not wait for ever.   *)
EveryCallReturns == \A c \in Clients : pending[c] # None ~> pending[c] = None
=============================================================================
