# A verification development for dlcdevkit

TLA+ models of [dlcdevkit](../src), model-checked with TLC and proved with
TLAPS. Every definition follows the Rust source; `PROJECT.json` maps
each to the lines it stands for. Paths below are relative to the repository.

## 1. The system

dlcdevkit lets two parties lock bitcoin in a 2-of-2 output and pay it out
according to what an oracle attests (a discreet log contract, DLC). The parties
prepare and sign every possible payout (a *CET*) before they fund the contract.

| Component | State it keeps | Operations | Interacts with |
|---|---|---|---|
| Contract negotiation (`ddk-manager/src/manager.rs`, `contract_updater.rs`) | a contract per temporary id, then per contract id: Offered, Accepted, Signed, FailedAccept, FailedSign | `send_offer`, `on_offer_message`, `accept_contract_offer`, `on_accept_message`, `on_sign_message` | storage, transport, wallet, blockchain (funding) |
| Contract execution (`manager.rs`) | Signed, Confirmed, PreClosed, Closed, Refunded, `pending_close_txs` | `periodic_check` and its checks, `close_confirmed_contract`, `check_and_broadcast_refund`, `cooperative_close_contract`, `accept_cooperative_close`, `on_counterparty_close` | storage, blockchain, oracles |
| DLC channels (`manager.rs`, `channel_updater.rs`) | `Channel`, `SignedChannelState`, a rollback state, update index, per-update secrets | offer / accept / sign, settle, renew, collaborative and forced close, punishment, timeouts | storage, chain monitor, blockchain |
| Chain monitor (`chain_monitor.rs`) | watched transactions and outputs, last height | `add_tx`, `process_block`, `confirmed_txs`, `remove_tx`, `cleanup_channel` | channels, storage |
| Splicing (`manager.rs`, `dlc_input.rs`) | two contracts linked by a DLC input | `send_splice_offer`, `check_for_spliced_contract` | execution of both contracts |
| Blockchain interface (`lib.rs`, `ddk/src/chain`) | none of its own; the network has a mempool and a chain | `send_transaction`, `get_transaction_confirmations`, blocks | everything on chain |
| Storage (`ddk/src/storage`: sled, Postgres, memory) | contracts, channels, chain monitor, wallet data | `create_contract`, `update_contract`, lists by state, `upsert_channel` | manager, wallet |
| Runtime (`ddk/src/builder.rs`, `ddk.rs`) | an actor task behind a channel, a timer, the shared `Manager` | offer, accept, periodic check through the actor; every other call directly | manager, transport |
| Transports (`ddk/src/transport`) | peers, sockets, relay subscriptions | deliver messages, one at a time per connection | manager |
| Message segmentation (`dlc-messages`) | a segment reader per peer, outgoing queues, received messages | split and reassemble messages | transport |
| Oracles (`kormir`, `ddk/src/oracle`) | a counter of nonce indexes, events with their signatures | `create_*_event`, `sign_*_event`, `get_attestation` | execution |
| Wallet (`ddk/src/wallet`) | a BDK wallet owned by one actor, its staged and its stored change set, a command channel | `sync`, addresses, payments, signing, coin selection | negotiation, storage |
| Signing (`contract_updater.rs`, `contract/`) | lists of adaptor signatures, addressed by position | `accept_contract`, `verify_accepted_and_sign_contract`, `verify_signed_contract`, `get_signed_cet` | negotiation, execution, tries |
| Algorithms (`dlc`, `dlc-trie`, `payout_curve.rs`, `payouts`) | tries (arenas of nodes); otherwise none | transactions and fees, digit prefixes, tries, payout intervals | signing |
| Stateless API (`ddk/src/contract`) | none: the caller keeps messages, keys and PSBTs | `create_offer` to `finalize_sign`, `sign_cet`, `sign_refund` | signing without a manager |
| Serialization, `ddk-node`, logger, `testenv` | none | encodings, front end, test support | |

### What is hard

* **Two writers, no lock.** The actor runs `periodic_check` while the
  application calls `close_confirmed_contract`, `check_and_broadcast_refund` or
  `accept_cooperative_close` on the same `Arc<Manager>`. Each reads the record,
  awaits the network and writes a record made from what it read.
* **Broadcast, then store.** A crash between the two leaves a record behind the
  network; in `on_sign_message` the order is the opposite one.
* **The network takes things back.** A transaction in the mempool can be
  evicted, a block can be reorganised away, a rival can win.
* **Messages** are lost, replayed (nostr relays keep events) and reordered.
* **Limits**: `NB_CONFIRMATIONS = 0`, lock times, confirmation counts.
* **Channels**: revocation secrets are exchanged in several messages, with
  timeouts that force a close, and a chain monitor that must survive a crash.

* **Storage under the tasks**: several statements per call, row locks taken in
  different orders, a pool with a limit, answers lost after a commit.
* **Positions instead of names**: signatures, witnesses and attestations are
  matched by their place in a list; serial ids, the bytes of keys, the oracles
  that answered, and the iterator of a trie decide the place.
* **Edges of numbers**: prefixes of digits at the ends of a range, oracles with
  more digits than others, rounding intervals, dust and fees.

`PROJECT.json` lists the hazards with their lines, and for each the properties
that would catch it, or why there are none.

### What makes each component correct

* Negotiation: nobody's coins get locked in a contract that one side has not
  stored with all its signatures; the offered coins are signed away once; a
  verdict is final.
* Execution: the record is never ahead of the network, *Closed* means settled,
  both parties see one outcome, and the collateral eventually leaves the
  funding output.
* Channels: after any order of offers, rejections and stale messages both
  parties can close with the same transaction, an honest party does not publish
  a state it revoked, each notices what the other publishes, and a silent peer
  cannot freeze the channel.
* Storage: a call takes effect at once or not at all, whatever statements,
  locks, aborts and crashes it is made of, and it returns.
* Transports and segmentation: what arrives is what was sent, whole; a
  broken connection neither mixes messages nor makes an honest peer look wrong.
* Wallet: an address that was handed out is watched for ever, and not handed out
  again once it was paid; a sync at a new height finds every coin, one at a known
  height loses none that was there before.
* Oracle: a nonce signs one message, an announced event can be attested.
* Signing and tries: both parties number the signatures in the same way, every
  outcome of every quorum has one, and what settles was attested.
* Transactions: the fee rate is paid, nobody is paid less than due, sound terms
  never make the arithmetic panic.

## 2. The modules

### `Ledger` (external: the Bitcoin network as the `Blockchain` trait shows it)

`mempool`, `conf` (confirmations, counted up to `SafeConf`) and `seen` (every
transaction ever accepted). `Known`, `SendSucceeds`, `Send` are what
`ddk/src/chain/esplora.rs` makes of the network; `MineBlock`, `Evict`, `Reorg`
and `Rebroadcast` are the network's own steps. A transaction is an atom with at
most one tracked parent; transactions with the same parent are rivals.
A transaction that is `SafeConf` deep is final: this is what
`NB_CONFIRMATIONS` means to the code.

### `Negotiation`

One offer, and one contract id per call of `accept_contract_offer`. `temp[p]` is
the record under the temporary id, `rec[p][i]` the one under contract id `i`.
`DropsTemporary` tells sled and Postgres (`update_contract` removes the
temporary record in the same transaction) from `MemoryStorage`. Messages stay in
a set: lost if never read, repeated if read again, in any order. Each handler is
one action, because the transports handle one message at a time, except
`on_sign_message`, whose store and broadcast are separate steps: a stop or a
refused broadcast in between is `SendFundLost`.

| Action | Code |
|---|---|
| `SendOffer` | `send_offer_with_announcements` |
| `OnOfferMessage` | `on_offer_message` |
| `AcceptContractOffer` | `accept_contract_offer` |
| `OnAcceptMessage`, `AcceptFailOnError` | `on_accept_message`, `accept_fail_on_error` |
| `OnSignMessage`, `SendFund`, `SendFundLost`, `SignFailOnError` | `on_sign_message`, `sign_fail_on_error` |

### `Execution`

One signed contract. `db[p]` is the stored record, `actor[p]` the task that runs
`periodic_check`, `api[p]` a direct call. A check is `read` (the list), `act`
(the network), `write` (the store); a direct call is `ApiBegins`, the body,
`ApiWrites`; anything may happen in between. A party outside `Honest`
publishes whatever it has signatures for. `Ledger` is instantiated with the
funding transaction as parent of every CET, cooperative close and the refund.

| Action | Code |
|---|---|
| `PeriodicCheck`, `ReadContracts`, `CheckFails` | the actor of `builder.rs`, `periodic_check`, `check_*_contracts` |
| `CheckSignedContract` | `check_signed_contract` |
| `CheckConfirmedContract`, `CloseContract`, `CloseContractSends` | `check_confirmed_contract` with attestations, `close_contract` |
| `CheckPendingCloses` | `check_confirmed_contract` without attestations |
| `CheckRefund` | `check_refund` (and `check_and_broadcast_refund` called from it) |
| `CheckPreclosedContract` | `check_preclosed_contract` |
| `CloseConfirmedContract`, `CheckAndBroadcastRefund`, `CooperativeCloseContract`, `AcceptCooperativeClose` | the calls of the same names |
| `ApiFails`, `ApiBreaks` | their error returns |
| `OnCounterpartyClose` | `on_counterparty_close` (takes `&mut self`, so it is exclusive) |
| `Crash` | stop and restart: the tasks are gone, the record stays |

A query of the network and the `send_transaction` decided on it are one step:
what can happen between them (a confirmation, an eviction) gives the same result
as happening before or after. `on_close_message` only validates and is not an
action. `pending_close_txs` holds a transaction without the other party's
signature (`full = FALSE`), which the network refuses when it is sent again.

### `DlcChannel`

One channel between two parties that both run the code, with the chain monitor
of each and the part of the network that matters to a channel: the funding
output and what spends it. It is a module of its own, not a composition with
`Ledger`, because a channel asks the network other questions: which transaction
spends an output, how many blocks deep, and what spends that one.

* `ch[p]` is the stored channel: its kind, the state `s` and the roll back state
  `rb` of a signed channel, the update index, the two current per-update points,
  and the secrets received. `update_idx` counts down from
  `INITIAL_UPDATE_NUMBER`; `ver` counts the updates made. The point, the secret
  and the contract of version `k` are all named `k`.
* A transaction is named by its kind, by who proposed its state and by the
  points of the proposer and of the other party in it. Two parties that disagree
  about a point have different transactions, and refuse each other's signature.
* `mon[p]` is the chain monitor in memory and `disk[p]` the stored one. A
  handler is one step; where it stores a channel, then the monitor, or broadcasts
  and then stores, a fault may stop it in between (`FinishPersist`, `SendThenCrash`) and the program starts
  again from what is stored. The storage is sled's (Postgres refuses channels).
* `msgs` is the set of messages on their way: lost if never read, read in any
  order, and repeated as often as the scenario allows.
* An `expect()` that fails is recorded in `panics`, and the program starts again.

| Action | Code |
|---|---|
| `offer_channel`, `accept_channel`, `reject_channel`, `on_offer_channel`, `on_accept_channel`, `on_sign_channel`, `check_signed_contract` | setup, with the functions of the same names in `manager.rs` and the updater calls they make |
| `settle_offer`, `accept_settle_offer`, `reject_settle_offer`, `on_settle_*` | settling: offer, accept, confirm, finalize |
| `renew_offer`, `accept_renew_offer`, `reject_renew_offer`, `on_renew_*` | renewing: offer, accept, confirm, finalize, revoke |
| `offer_collaborative_close`, `accept_collaborative_close`, `on_collaborative_close_offer`, `on_reject` | as named |
| `force_close_channel`, `check_for_timed_out_channels` | both call `force_close_channel_internal` |
| `periodic_chain_monitor` | `process_block` for each block not seen yet |
| `process_watched_txs` | one watched transaction or output: `OnBufferTx`, `OnRevoked`, `OnCollaborativeClose`, `OnSettleTx`, `OnCet` |
| `check_for_watched_tx` | the monitor is persisted when nothing is left to process |
| `try_finalize_closing_established_channel` | the CET is published and the channel closed |
| `Crash`, `Mine`, `OracleAttests` | the environment |

Two blocks matter: the one with the transaction that spends the funding output,
and the one with what spends that. Of two transactions that spend the funding
output the first published wins. What the applications do besides setting
up the channel, and how many updates, repetitions and faults there are, is the
`scenario` a behaviour starts with. `MaxUpdates` bounds the versions of a channel
in all scenarios; the code's bound is `INITIAL_UPDATE_NUMBER`, 2^48 - 1.

### `Store` and `PostgresStore`

`Store` is what a durable back end promises (`ddk_manager::Storage` for
contracts, `ddk::Storage` for the wallet's change set): a call is `Call`, then
either `TakeEffect` at one instant, with the answer possibly lost, or `Refuse`; a
`Restart` forgets the calls under way. One weakness is part of the promise: a
removal may miss a record that another call stores meanwhile (READ COMMITTED).

`PostgresStore` has the statements. `backend` chooses Postgres or sled.

| Action | Code |
|---|---|
| `Begin`, `Acquire`, `AcquireTimeout` | a call, and `pool.begin()` |
| `Execute`, `StatementFails`, `Commit`, `ConnectionLost` | the statements of `create_contract`, `update_contract`, `delete_contract`, `write` and the helpers of the latter, one by one |
| `DeadlockDetected` | the server aborts one of two transactions that wait for each other |
| `SledContracts`, `SledPersistGet`, `SledPersistInsert`, `SledFails` | `SledStorage`, the change set read, merged and written in separate steps |
| `Restart` | the process stops, open transactions are rolled back |

The refinement mapping takes the contracts from the rows of `contract_data` (or
the tree) and the wallet from the tables of the change set. Both modules build the
stored state with the same operators (`NewState`, `MergeChangeSet`), so that the
mapping relates rows to records and not two notions of merging.

### `Wallet`

The actor of `ddk/src/wallet/mod.rs`: `Request` puts a command into the channel,
one action per command answers it on its oneshot (`Sync`, `NewExternalAddress`,
`NewChangeAddress`, `SendToAddress`, `SendAll`, `SendFails`, `Read`,
`SignPsbtInput`). `mem` is the wallet in memory, `disk` what was persisted; a
write may fail, and `Restart` loads `disk`. `SignPsbtInputPanics` ends the task:
all later commands fail. `Deposit`, `MineBlock` and `ReplaceBlock` (another block of
the same height) are the network. `Sync` looks at nothing when the height is the
one it knows (`SyncSkipsKnownTip`, `command.rs:27`); a transaction has the height at
which it was published, so that the properties can say what that leaves out. The store is
atomic (`Store`). No keychain reveals more than `MaxIndex` addresses.

### `Kormir`

Several tasks call one oracle over its `MemoryStorage`. A call is split where it
takes the storage's lock: `CreateEvent` (indexes drawn) and `SaveAnnouncement`,
`SignEvent` (record read, signed) and `SaveSignatures`, and `GetAttestation`. A
nonce is named by its derivation index. `Panics` is `try_write().unwrap()` when
another task holds the lock. Clamping, sign and binary digits of a number are
computed as in `sign_numeric_event`. The names of the specification start with
`Kormir`, so that one module can extend it and `Execution`.

### `Messaging`

How a message gets to the peer over each transport. Lightning: `Send` segments
and queues (`Enqueue`), `Flush` is LDK taking the queue, `HandleCustomMessage`
the reader of segments, `TakeReceived` and `ProcessMessage` the polling loop,
`Connect` and `Disconnect` the connection. A packet longer than `MaxData` (`Fits`)
makes the LDK's encryptor panic in `process_events`, with the peer's lock held: the
party is `seized`, sends and reads nothing until it is restarted, and the other one
may disconnect. Nostr: `Send` publishes, `HandleEvent`
handles an event and publishes the answer. Memory: a channel of bounded
capacity, `ReceiveMemory`, `AnswerMemory` (which waits for room). `Stop` and `Start` restart a party. A
byte carries its message and position, so that a message reassembled from wrong
bytes is another message.

### Signing and the algorithms

* `CombinationIterator`: the order of the combinations of oracles, as the
  iterator steps through it, and the place of a combination.
* `DigitDecomposition`, `OutcomeCombinations`, `DigitTrie`, `PayoutCurve`: the
  algorithms of the files of those names (`multi_oracle.rs` for the second), as
  operators. The curves are evaluated in fractions instead of doubles.
* `OracleTries`: `Init` turns a payout function into ranges and groups,
  `InsertGroup`, `InsertGroupWithDiff`, `InsertMaxPaths` generate the trie, entry by
  entry, `Attest` reports numbers and looks them up.
* `ContractSigning`: `AcceptContract`, `VerifyAcceptedAndSign`, `VerifySigned` over
  a list of signatures, with a wrong signature, a list that is too short (at whose end
  the code panics, taken as a failure) or too long, a missing funding signature, any
  order of serial ids and a spliced input; `altered` records that a peer did so.
  `Mature`, `Attest`, `CheckConfirmed` until a CET is signed.
* `DlcTransactions`: the amounts of a contract or channel. `Fund`, `RefuseOffer`,
  `Settle`, `Renew`, `CloseTogether`, `ExecuteCet`, `Refund`, `PublishSettle`,
  `Cheat`, `Punish`; the `Panic...` actions are failing assertions, divisions and
  subtractions. A property sees what each published transaction spends and pays.
  The names of the specification start with `Amounts`, so that one module can
  extend it and `Negotiation`.
* `StatelessContract`: the API of `ddk/src/contract`, from `CreateOffer` to
  `SignCet`. A party keeps three messages and a PSBT and rebuilds the transactions
  in each call; what it is handed may be wrong in one place (another message,
  PSBT, key, witness or attestation). A call that fails changes nothing, but for
  `SignFundingPsbt`, which leaves the inputs before the failing one signed (`done`).
* `ContractSignatures`: a behaviour is an exchange with the manager or one without
  it; the properties that both share, and what a contract and a setup can be
  (`ExchangeAssumption`). `SerialOrder` has `order_by_serial_ids`, which
  `DlcTransactions` and `StatelessContract` use.

### The MC modules

`MCContractTerms` runs the numbers, `DlcTransactions` and both parts of
`ContractSignatures` beside each other: a behaviour belongs to one of them
(`part`), the others' variables stay `None`. They are independent
computations over one contract's terms, and their properties are paired in one
statement where they say the same thing of different layers.
`MCNegotiationOracle` puts `Negotiation` and `Kormir` side by side in the same way;
the one that takes no steps stays as it began. `MCDlcTransactions` holds its offers,
`MCContractSigning` the contract of two legs of the finding. `MCDlcChannel` holds
scenarios: the initial state picks what the applications do (`ops`), the number of
updates, repeated messages and faults. `MCMessaging` and `MCPostgresStore` give sizes
and calls.

### `ContractProofs`, `ContractSignatureProofs`, `OutcomeProofs`, `WalletProofs`, `PostgresStoreProofs`, `DlcChannelProofs`, `DlcChannelChainProofs`, `MessagingProofs`

The proofs; see section 4. Each extends the module it is about. `OutcomeProofs` is
about the contract and the oracle that attests its outcome: those of `Ledger` are its
first part, those of `Kormir` its last. `ContractProofs` is about the negotiation and
the amounts, `ContractSignatureProofs` about `ContractSignatures`. `DlcChannelProofs` has one
section per kind of step of a party, and `DlcChannelChainProofs` goes on from its
invariants.

## 3. The runs

| Run | Expected | Shows |
|---|---|---|
| `negotiation_oracle` | pass | With sled or Postgres, a funding transaction on the network is signed in both stores, the offered coins are signed away once, and a verdict is final, for lost, repeated and reordered messages. Overlapping requests to the oracle: one nonce, one message; numbers are attested as the nearest one |
| `exec_one_party` | pass | One party against any counter party, with direct calls next to the periodic check, a crash, an eviction or a reorganisation: `ClosedIsSettled`, `RecordedWasBroadcast`, `PendingCloseDetected` |
| `exec_two_parties` | pass | Both parties run the code: `OneOutcome`, a settled close is recorded (`PreClosedSettles`), and the collateral is paid out by a CET or the refund (`FundsReleased`) |
| `channel_safety` | pass | Five scenarios of two updates, rejections, forced and collaborative closes, time-outs, a repeated message and a fault: both can close alike, nobody publishes what it revoked, what is published is watched |
| `channel_live` | pass | Lost messages and time-outs: `WaitingEnds`, `ClosingEnds` |
| `channel_panics` | violation | `NoPanic` fails when a buffer transaction confirms during settling |
| `messaging` | pass | Three transports with broken connections and restarts: delivery as sent; an honest peer is disconnected only by a fault or a panic of `process_events`; everything sent is handled, but for these and for in-memory listeners that wait for each other |
| `messaging_packet_limit` | violation | `PacketsFit` fails: a message just above the packet limit is queued as one packet |
| `storage` | pass | `PostgresStore` and sled implement `Store`, the two tables agree, every call returns |
| `wallet` | pass | Failed writes and restarts: addresses handed out are watched, not reused once paid; a sync at a new height finds every transaction of the wallet, one at a known height misses at most what is younger than that height |
| `contract_terms` | pass | Signing, tries, transactions and the stateless API, see `MCContractTerms` |
| `signing_disjoint` | violation | `EveryQuorumSettles` fails: a disjoint contract does not settle on its second event |

`storage` checks `Abstract!Spec` of `Store` as a property: the refinement holds
for every interleaving of statements of three clients.

### Where the code and its own text disagree

The violations:

1. `process_watched_txs` expects a channel whose buffer transaction confirmed
   "to have a contract id"; a channel that is settled or being settled has none,
   and the periodic check panics, again after every restart.
2. The acceptor signs each leg of a disjoint contract over its own CETs, the
   offerer signs every leg over the list of all of them, and `get_signed_cet` looks
   a leg's CET up in the whole list. A test says that a disjoint contract "settles
   on whichever attests, in whatever order it was offered"
   (`ddk-manager/tests/test_utils.rs:683`).
3. `send_message` segments messages of more than 65536 bytes, the largest packet has
   65535 ("Maximum allowed size by noise protocol", `segmentation/mod.rs:13`), and the
   type takes two: messages of 65534 to 65536 bytes cannot be sent.

Others met on the way have no run of their own. The models contain them, and the
properties are stated so that they hold beside them.

Contracts:

* `check_confirmed_contract` returns the error of the refused CET before it
  looks at `pending_close_txs` and the refund (`manager.rs:1140`), so that after a
  cooperative close of a contract whose event is attested the proposing party may
  stay *Confirmed* (`manager.rs:1688`: "until the close transaction is broadcast").
  `PendingCloseDetected` is about events without attestations.
* `on_counterparty_close` lacks the `max(1)` of the two periodic checks,
  although the comment at `manager.rs:1393` explains why *Closed* needs a
  confirmation "also when `NB_CONFIRMATIONS` is zero". The runs use at least two
  confirmations, the theorem assumes `ClosesAreChecked`.
* A periodic check that read *Confirmed* and was overtaken by
  `close_confirmed_contract` writes *PreClosed* over *Closed*, which the same
  comment calls terminal. The safety theorems cover such stale writes.
* A list of adaptor signatures that is too short makes the check panic
  (`enum_descriptor.rs:129`, `dlc-trie/src/lib.rs:311`); signatures beyond those needed
  are kept. Missing funding signatures are passed over by a `zip`
  (`contract_updater.rs:897`), and the transaction is then refused by the network.
* Attestations are taken in the order the oracles answer, and in another
  order than the contract's they do not settle (`utils.rs:245`); `QuorumSettles` is
  about ordered ones.
* The refund after a settlement pays the first collateral; `dlc/src/lib.rs:138`
  calls it "returning the collateral for each party".
* `cooperative_close_contract` gives the `counter_payout` it is called with to the
  accepting party, also when that party calls it (`accept_payout` of the message).
* `create_punish_transaction` subtracts its fee from the output it takes: a share
  that does not pay for its punishment makes it panic, and more shares do the
  higher the rate is. `SoundTerms` excludes them, the model has the panic.
* `numerical_descriptor.rs:26` guarantees that values within the support settle;
  a pair of larger oracles on both sides of the smallest one's limit does not. A
  constant piece of a curve ignores the rounding intervals after its first number.

Channels:

* Two more calls of `expect()` can fail: the per-update secret is missing
  (`manager.rs:3146`) when the old buffer transaction, watched as revoked before
  `RenewRevoke` brings its secret, confirms; the roll back state is missing
  (`manager.rs:3464`) when a collaborative close was offered during an update.
* After a renewal both parties have `is_offer = true` (`channel_updater.rs:1742`
  and `1814`), while `signed_channel.rs:107` says "Whether the local party is the
  one that initiated the latest channel state change".
* `renew_channel_on_revoke` leaves the roll back state in place;
  `signed_channel.rs:417` says it is `None` in a stable state. That party refuses
  later collaborative close offers.
* A party that sees the old buffer transaction in *RenewOffered*,
  *RenewAccepted* or *RenewConfirmed* stores the contract under negotiation as
  the one "that was used to close the channel" (`signed_channel.rs:314`).
* `check_for_timed_out_channels` does not look at *CollaborativeCloseOffered*,
  although `manager.rs:2136` says the channel "will be forced closed after a
  timeout".
* `PostgresStore` leaves the channel methods `unimplemented!`: channels need sled.

Transports, wallet, oracle:

* An in-memory listener that answers waits for room in the other party's channel
  and does not receive; when both channels are full neither "processes incoming
  messages" (`ddk/src/lib.rs:107`). With the code's capacity it takes a hundred
  messages each way. `Jammed` is that state; the run reaches it, and `SentIsHandled`
  is about the behaviours that do not stay in it.
* `sync` returns `Ok` at once when the height is the one it knows: a payment in a
  block that replaced another of that height, or still in the mempool, is not found
  before the next block, while the call "updates the wallet's UTXO set and
  transaction history" (`ddk/src/wallet/mod.rs:530`). `SyncFindsOwnCoins` says of such
  a sync only that it leaves out nothing older than the height.
* `read_dlc_message` has no case for *Close* and *RenewRevoke*
  (`message_handler.rs:101`, against the list at `:27`): over lightning they do not
  arrive. The nostr subscription starts at the time of the call, so that what was
  published while a party was down is not handled, and one event that fails ends
  the listener's task.
* `lock_utxos` is ignored by the coin selection and `unreserve_utxos` does
  nothing. A command that panics (`psbt.inputs[input_index]`) ends the actor.
* `MemoryStorage` of kormir starts its counter at zero, so a restarted oracle
  derives the same nonces again; `Kormir` has no restart.

Stateless API:

* "CETs carry the offer's `cet_locktime`" (`ddk/src/contract/mod.rs:118`): those of
  the second and later legs are built with lock time zero (`context.rs:144`).
* `settle.rs:33` says the attestations of one event are enough; when two events
  have an outcome in common, those of the second are checked against the first
  and refused.
* Attestations in another order than that of the oracles give a CET the network
  refuses; one with an index out of range fails the whole call. `validate_offer`
  accepts two inputs with one serial id, which `accept_offer` then refuses.
  `finalize_sign` does not verify the offerer's ordinary witnesses.

### Bounds

Negotiation: four acceptances of one offer; two already show a repeated
acceptance after a signature. Execution: two CETs, `NB_CONFIRMATIONS = 2`, so that
not found, mempool, confirmed and settled are four different situations; the
clock has the values before and after the lock times; `MaxFaults` bounds crashes
and I/O errors, `MaxDrops` evictions and reorganisations, one each: a stale write
needs one of each. One direct call per party runs at a time.

Channel: two updates in the first scenario (a settlement after a renewal, a
renewal after a settlement, a message of one update arriving in the next); one
in the others, where time-outs, collaborative closes, a repeated message or a
crash multiply the interleavings, and one is enough to have a revoked and a
current transaction side by side.

Messaging: packets of 20 bytes and messages of one byte, of the largest packet, of
the lengths at both ends of the gap above it (19 and 21; all three behave alike in
the proof), and of two and three segments, full and with one byte in the last; two
openings of each party, so that both in-memory channels, of capacity one, can be
full while both listeners have an answer; three faults.
Storage: three calls of three clients over two connections; the calls are those
of a contract's temporary and final record, an offer of the party's own (which
`get_contract_offers` of PostgreSQL leaves out), and five change sets whose merge is
not idempotent. Wallet: three transactions, five addresses, four commands, two
faults, a lookahead above the stop gap. Kormir: two tasks and events, numbers of
0 to 3 digits of which 2 are supported, numbers beyond the range on both sides.

Terms: one to three oracles of two to five digits, thresholds below and at their
number, four supports and errors; payout functions of every kind of piece, flat,
between and beyond the collateral; offers at the limits of dust, of the change
and of the coins' worth, in both orders of serial ids and with one or both
parties funding; one wrong argument per behaviour of the stateless API.

### Fairness

The actor and a started call keep running (a tokio task that is ready is
polled), the timer triggers the periodic check for ever, time passes, and miners
eventually include a transaction that stays in the mempool. The environment's
other steps (relay, the counter party's publications, attestations, new direct
calls) have no fairness. Faults are bounded in number, so liveness says: once
they stop. `FundsReleased` excepts an evicted refund, which is not broadcast
again by this code, since *Refunded* is never examined again (a hazard listed
with its line).

For a channel the two periodic tasks (`periodic_chain_monitor` and each part of
`periodic_check`) run for ever: the Manager leaves both to its user, and the actor of
`ddk` calls only the second, so a node that keeps channels has to call the first.
Blocks are mined and the oracles attest. Nothing is assumed of the applications or of
the delivery of messages, so every message may be lost: `WaitingEnds` holds through
the time-outs alone.

Messaging: the loops of a party serve what waits for them, unless its
`process_events` panicked (its listener may be the task that did); nothing is assumed
of connections and restarts, and `SentIsHandled` excepts behaviours with a fault, a
panic, or in-memory listeners that wait for each other.
Storage: a started call is polled and the server answers (weak fairness of
`Proceed`), and the pool's queue is served in turn (strong fairness of
`Acquire`). Wallet: the actor takes the next command.

## 4. What is proved

All theorems hold for every value of the constants: any sets of CETs, closes,
contract ids, tasks, events, clients, calls and messages, any size of the pool, of a
message and of a packet, any `NB_CONFIRMATIONS`, any lock times, any scenarios and
bounds. What is assumed of the constants:

* `NegotiationAssumption`, `ExecutionAssumption`, `KormirAssumption`: types, and
  that the kinds of transactions are distinct.
* `WalletAssumption`: the bounds are numbers and there is an address;
  `ChannelAssumption`: a scenario's bounds are numbers, its updates at most
  `MaxUpdates`.
* `StoreAssumption`, `CallAssumption`: clients and the wallet's tables are finite,
  the pool has a connection, and only the actor stores the wallet.
* `SizesAssumption`, `PartiesAssumption`: two parties, and a packet holds more than
  the header of a segment. `MessagesAssumption`: a message has an id, a type and a
  length. `AnswersAssumption` (external: the manager): an answer names what it
  answers, so it is sent for one message and opens nothing.
* `ExchangeAssumption`: a leg's threshold is between one and the number of its oracles
  (`OracleInput::validate`); a wallet's coin has one key, an earlier DLC two that
  differ, and the two parties share one earlier DLC; the funding keys differ.
* `AmountsAssumption`: every offer in `Terms` passed the validation of
  `contract_input.rs` and of the funding inputs (`ValidTerms`), and amounts are
  natural numbers, like `Amount`.
* `NoneAssumption` (wallet, store) and the last line of `ChannelAssumption`: the
  value for "nothing" is not one of the things.

* `OutcomeProofs`, the ledger: each step of the network keeps `LedgerInv` (no double spend,
  parents known and confirmed first) and undoes neither a settled nor a seen
  transaction.
* `ContractProofs`, the negotiation: `TypesAreCorrect`, `FundedSignedByBoth`,
  `CoinsOfferedOnce` (under `DropsTemporary`), `VerdictsAreFinal`. The inductive
  invariant records two orderings of the code: a SignDlc message exists only
  after the offering party stored *Signed*, and the funding transaction waits
  only after the accepting party did. `CoinsOfferedOnce` adds that signing
  consumes the one temporary record.
* `ContractProofs`, the amounts: `RateIsAlwaysPaid` is `RateIsPaid`,
  `EveryoneGetsItsDue` is `EachGetsItsDue`, `SoundTermsAreSafe` is
  `SoundTermsNeverPanic`, for any lists of coins and payouts, any serial ids, rates,
  renewals and settlements. The invariant `AmountsInv` says that what is held was
  built from the terms and the agreed shares (`IsOpen`, `IsSettled`), that each
  revoked state is the buffer or a settlement of this channel (`Entries`), and that
  what is published is paid for and fair (`Paid`, `Fair`). The argument has three
  layers. Sums: a fold's result does not depend on its order (`SumRules`, by the
  least counterexample), ordering by serial ids rearranges (`OrderingWeighs`), and
  discarding dust leaves what the rest weighed (`DiscardWeighs`). Fees: the shares
  of both parties, each rounded up, cover the funding transaction (`FundPays`), and
  the funding output holds the collateral, the extra fee and 170 times the rate (147
  if one party funds; `SetAside`), which covers what may follow (`PayoutFee`,
  `SettlePays`). Owners: a settlement has an output for each share that is not dust
  (`SettleHasShape`), and the punished one is the cheater's, or the only one and
  then worth the collateral but dust (`PunishTakesAll`).
* `ContractSignatureProofs`: `FundingCompletes` is
  `HonestFundingCompletes`, `FundedContractsAreCovered` is `FundedIsCovered`, with the
  manager and without it, for any outcomes, oracles, thresholds, inputs, serial ids and
  number of wrong arguments. With the manager, `FundedIsCovered` assumes contracts of
  one event: a disjoint one that is funded does not settle on its second event
  (section 3), because the offering party signs every leg over the CETs of all legs.
  Without it, contracts have any number of legs. The
  iterator comes first: `NextSelector` yields the least later combination, so that
  its repetition (`Repeats`) yields each of them once, in order, and
  `get_index_for_combination` finds each. Lists of signatures are joined leg by leg
  (`Joins`), hence the signature of leg `k`, outcome `x` and combination `c` is at a
  place that depends on the legs alone (`FlattenPlaces`, `AdaptorFor`), where
  both the check and the look-up find it. `SignaturesInv` says of each stage
  what is held and verified. `MessagesInv` says of each message a party keeps what it
  was checked for, from the offer to the funding transaction: none of the properties
  is inductive, as what `sign_cet` needs was checked calls before. `HonestInv` is
  about behaviours without a wrong argument: both keep the same messages, every
  witness is of the right key or not there yet, and so no check fails.
  Serial ids that are distinct give each input its place (`AgreedInputs`), where
  both halves of the witness of an earlier DLC meet in the order of the keys
  (`TwoAreWitnessed`).
* `OutcomeProofs`, the contract: `TypeCorrect`, `StaleCopiesAreBacked`,
  `NeverAheadOfTheNetwork`, `ClosedOnlyWhenSettled`, `PartiesAgree`.
  `ClosedIsSettled` is not inductive: a task may hold a record it read or built
  long ago and write it now. The invariant (`CopiesAreBacked`) therefore says of
  every such copy what it says of the stored record; that a copy stays justified
  while it waits is the monotonicity proved for the ledger.
  `ClosedOnlyWhenSettled` and `PartiesAgree` assume `ClosesAreChecked`
  (`NB_CONFIRMATIONS > 0`, or no `on_counterparty_close`), as otherwise
  `ClosedIsSettled` fails (section 3). The proof has one lemma per group of
  actions; each shows that the step is a step of the network or none and that
  the tasks end up in the sets `Records`, `Actors`, `Calls`.
* `OutcomeProofs`, the oracle: `IndexesBelongToOneEvent`, `NoNonceSignsTwice`.
  `NonceSignsOnce` speaks of what was released; the invariant `NonceInv` follows an
  index from the counter on. `StoreShape` is the form of the records;
  `DraftedOnce`: an event id is drafted by one task and not once stored;
  `NoncesApart`: the indexes of what is drafted or stored are below the counter,
  differ from each other and from those of every other event; `SignedAsStored`:
  what a task signs and what was released has the indexes of its event, and
  what was released has the stored signatures, which `save_signatures` writes once.

  `AnnouncedEventsAreKept`: the announcement a contract is built on stays in the
  store as answered, and each event there can be attested. `OracleKeepsItsWord` is
  `KormirInv`: `RequestInv` says that what a task signs is what it was asked for,
  and `NearestNumber` that the digits written for a number are those of the nearest
  one the event has; powers of two are counted as sets of subsets, and a fold's
  value is found by its least counterexample.
* `WalletProofs`: `GivenAddressesAreWatched` is `WalletInv`, from an
  invariant in two parts: of the data, memory is never behind disk and disk covers
  what was given (`WalletData`); of the actor's channel, each waiting caller is in
  it once (`QueueInv`). `PaidAddressIsNotReused`: an address callers are paid at is
  not given out again once a sync saw a payment. `NoAddressIsReused` and
  `SyncFindsEveryCoin` say the same of change addresses, and that a sync at a new
  height finds everything and one at a known height has what is older (`OldKnown`:
  what was published before the height on disk is in the graph on disk), under `[]WithinLookahead`: no payment is further beyond the persisted
  index than BDK derives ahead. Without that they are false: sends that are
  published and then not persisted can run ahead of any lookahead.
  `ShortWallet`: a wallet with no more addresses than the lookahead needs no
  hypothesis.
* `PostgresStoreProofs`: `HalvesAlwaysAgree` is `StoreInv`, and `CallsAreAtomic` is the
  refinement of `Store`. The invariant `Inv`: no row is written by two open
  transactions (`LocksInv`), both halves of a committed contract agree (`DbInv`), and
  each open transaction has done exactly what its statements so far say
  (`TxsInv`). A contract's transaction is followed by its stages (`Progress`);
  a wallet's, whose statements merge with what is committed meanwhile, row by
  row (`KeychainDone`, `SpkDone`, `BlockDone`, `TxDone`, `AnchorDone`). A commit is
  then `TakeEffect`; a deletion may have missed records, which are among `fresh`;
  statements stutter, errors are `Refuse`, and a restart is `Restart`.
* `DlcChannelProofs`, one party: `ChannelIsWellTyped`, `StoredStateIsSafeToClose`,
  `ChannelCanAlwaysBeClosed`, `PublisherHasNotRevoked`. Each step
  of `Next` is shown to be one of sixteen moves of one party (`Move`: set up, propose, accept, confirm, settle, revoke, close...) or a step of the
  environment, with what it changes in the record, the monitor and the messages,
  the crash in between included (`Turn`). The invariant `ChannelsInv` is kept move by
  move. `StateInv`: the transaction of a state, and of the roll back state, is made
  of the points the record has. `SecretInv`: a secret that was given away is of a
  version that is over, or of the one that ends with the update. `WatchInv`: what is
  watched as a buffer is the current transaction, the one a renewal is about to
  make current, or one of an older version. A party that sees such a buffer
  confirm closes with it, so `HiddenInv` says that (where nothing is settled) none
  has its secret given away, and `OwnPointInv` that it has the party's own point;
  `SafeToClose` and `CanAlwaysClose` need them for a close that is pending.
  `MessageInv` and `UseInv` say whose
  transactions and secrets are in messages, and that what the applications do not
  start does not happen. `PublisherInv` follows what was published.
* `DlcChannelProofs`, both parties: `PartiesAgreeWhenStable` is `AgreeWhenStable`, in all
  scenarios, after crashes as well. The invariant is `PairInv`. Two channels are
  level, with the same current transaction, or one is a version ahead while the
  other one has confirmed and waits for the message that takes it there
  (`TogetherInv`). That is not inductive without what the messages on their way say
  (`SaidInv`): an acceptance that can still be confirmed is the one the other party
  stored, a confirmation is of what its sender has or is out of date. A secret that
  ends an update is of a version that is over for its sender (`EndInv`), so that who
  receives it is behind. And until a party has signed, the other one gets
  no further than an offer (`SetupInv`).
* `DlcChannelChainProofs`, what is stored next to the channel: `StoredFitsTheChain` is
  `ChannelInv`. `EstablishedContractIsConfirmed` needs `ContractInv`: the contract of
  every state an update can end in or be rolled back to is Confirmed, and none that
  a renewal replaces is the one it introduces (an offer is for the next version at
  most, `LeadInv`). `ClosesHaveAReason` needs `ReasonInv`, of both monitors, as a crash
  goes back to the stored one: what a watch of each type is of, and that a
  transaction watched as revoked has its secret given away, unless its renewal is
  not over (`MonitorInv`); that the secrets a party has are of versions that are over
  (`Past`); and that who published something without a crash has left for it and
  watches no such buffer (`SpendInv`), so that it does not take its own transaction
  for the other party's.
* `DlcChannelChainProofs`, what is watched: `WatchesWhatIsPublished` is
  `PublishedIsWatched`, for what happens without a crash or a collaborative close (the
  property says the same). The invariant `SightInv` relates each party's monitor to
  the other party's record: it watches all the other one can publish (its current
  transaction and, once a renewal is finalized, the next; `Looks`), or waits for the
  RenewFinalize that brings the new buffer. What a party stored of its monitor has
  the watches memory has of buffers and of revoked transactions, and its own current
  buffer (`Guards`), because a task that panics goes on from what is stored. Each
  step rests, moves or ends one channel and leaves the other party's watches as
  they were (`Alert`), and `TogetherInv` says how far apart the two then are.
* `MessagingProofs`: `MessagesArriveAsSent` is `MessagingInv`. Over lightning the
  invariant (`Flow`) splits what a party sent into what arrived, what is on the way
  and what waits in `msg_events`, with what was lost in between: each is picked
  from `sent` in its order, and the packets on the way are whole messages but for
  the beginning of the first one, which the reader has (`Stream`, `Holds`). A
  packet is then either one the reader waits for or the first of a message, and a
  message that was cut never comes back. That rests on what `get_segments` makes
  for any length (`SegmentsOf`: the chunks joined are the bytes, the last is not
  empty, their number is the one announced) and on bytes being read back as one
  message (`ReadBack`). In memory nothing is lost (`InMemory`). Over a relay a message
  comes once because it is published once (`Fresh`, `Caused`).
  `OnlyFaultsDisconnect` is `HonestPeerStaysConnected`, if every message has a type
  `read_dlc_message` lists and at most `MaxSegments` segments: an honest party's
  packets meet none of the errors of the reader. The property excepts a panic of
  `process_events`; `PacketsFitOutsideTheGap` shows that the three lengths of the
  finding (`Unsendable`) are all that can cause one, as every start and chunk is at
  most as long as a packet (`FittingPackets`), and `SendablePeersDisconnectByFaults`
  that without them only a fault ends a connection.

Only model-checked: the liveness properties (temporal reasoning under fairness
is out of the prover's reach); the payout curve and the tries (`TypeOK`,
`EachNumberHasItsCet`, `TrieMatchesSignatures`, and `PaysWhatWasAttested` and
`QuorumSettles`, which pair a statement about them with one about the exchange): they
rest on the recursive algorithms of `DigitDecomposition`, and with it
`OutcomeCombinations` and `OracleTries`, and what a recursive operator computes for
all inputs is out of the prover's reach. Of the amounts, the invariant `AmountsOK` stays
with TLC: nothing keeps a huge `PunishRate` from owing the punisher a negative amount.

## 5. What is not modelled

Signatures and scripts (a signature is a record of what it signs, a script its
owner and length); wall-clock drift between the parties and median time of the
chain; double-signing users (the application is assumed to accept only offers it
received). Two direct calls of one party at the same time.
`check_for_spliced_contract`, which links the records of two contracts. For a
channel: the wallet's reservations, several channels over one chain monitor,
reorganisations, evictions, the delays between `CET_NSEQUENCE` and the refund, and
the `additional_inputs` of a close offer. Four things the channel code does with
a crash or with a repeated message are left out of the properties: the watches
lost between the two writes of a handler, the funded channel lost between
broadcast and store, the close that is stored after its secret may be sent, and
the finished renewal that is offered again.

Errors of `f64` in the payout curves and the builders of `payouts/`; the wallet's
descriptors, its coin selection and its deltas of fees; peers that send malformed
segments; relays that hand an event over twice; the HTTP and relay oracle
clients; start-up and shut-down of the runtime (the stop signal is never reset,
so listeners stop after a second start). Encodings, the node, the command line
and the test environment. See `PROJECT.json` for each.

## 6. Plan

1. `Splice`: two contracts over one ledger, `check_for_spliced_contract`.
2. `ContractLife`: an abstract contract (unfunded, funded, one outcome), shown
   to be implemented by `Negotiation` and `Execution`.
