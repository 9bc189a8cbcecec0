------------------------------- MODULE Wallet -------------------------------
(***************************************************************************)
(* DlcDevKitWallet: handles that send commands over a channel to one actor *)
(* task, which owns the BDK wallet, its store and the Esplora client, and  *)
(* answers each command on a oneshot.                                      *)
(*                                                                         *)
(* A coin is named by the transaction that pays it: a transaction has at   *)
(* most one output to the wallet, a deposit to an external address or the  *)
(* change of a payment.  The store is atomic (module Store).               *)
(***************************************************************************)
EXTENDS Naturals, Sequences, FiniteSets, FiniteSetsExt, SequencesExt

CONSTANTS
    Clients,        \* tasks that use a handle of the wallet
    None,
    MaxTxs,         \* bound on the transactions of the network
    MaxIndex,       \* bound on the addresses revealed per keychain
    MaxHeight,      \* bound on the height of the chain
    MaxCommands,    \* bound on the commands issued
    MaxFaults,      \* bound on restarts and failed writes
    StopGap,        \* unused addresses after which a full scan stops (10)
    Lookahead       \* addresses BDK derives ahead of the last revealed (25)

ASSUME WalletAssumption ==
    /\ {MaxTxs, MaxIndex, MaxHeight, MaxCommands, MaxFaults, StopGap, Lookahead} \subseteq Nat
    /\ MaxIndex > 0

Keychains == {"External", "Internal"}
Spks == Keychains \X (1..MaxIndex)
VARIABLES
    txs,        \* the network's transactions: inputs, script of the wallet's output, status,
                \* and born, the height of the chain at which it was published
    height,     \* height of the chain
    mem,        \* the actor's BDK wallet: revealed, used (marked), graph, evicted, tip
    disk,       \* what is persisted of it: revealed, graph, evicted, tip
    alive,      \* the actor's task is running
    queue,      \* clients whose commands are in the channel, in order
    command,    \* the command each client waits for, or None
    reply,      \* the last answer each client got
    given,      \* history: addresses given to callers
    seen,       \* history: addresses whose payment a successful sync had seen
    commands, faults, \* commands issued, and faults so far
    unsaved     \* history: a sync could not be persisted

vars == <<txs, height, mem, disk, alive, queue, command, reply, given, seen,
          commands, faults, unsaved>>

-----------------------------------------------------------------------------
(* The network.                                                            *)

Known == DOMAIN txs
Live == {t \in Known : txs[t].status # "gone"}
Spenders(coin) == {t \in Live : coin \in txs[t].inputs}

(* A transaction touches a script if it pays it or spends a coin of it.    *)
Touches(t, spks) ==
    txs[t].spk \in spks \/ \E coin \in txs[t].inputs : txs[coin].spk \in spks

(* Publish a transaction; what it conflicts with in the mempool is replaced *)
(* (BDK signals replaceability), a conflict with a mined one is refused.   *)
CanPublish(inputs) ==
    /\ Cardinality(Known) < MaxTxs
    /\ inputs \subseteq Live
    /\ \A coin \in inputs : \A t \in Spenders(coin) : txs[t].status = "mempool"

Dependants(inputs) ==
    LET direct == {t \in Live : txs[t].inputs \cap inputs # {}}
        Step[S \in SUBSET Live] ==
            LET more == {t \in Live : txs[t].inputs \cap S # {}} \ S
            IN  IF more = {} THEN S ELSE Step[S \cup more]
    IN  Step[direct]

Publish(inputs, spk) ==
    LET gone == Dependants(inputs)
        id == Cardinality(Known) + 1
    IN  txs' = [t \in Known \cup {id} |->
                   IF t = id THEN [inputs |-> inputs, spk |-> spk, status |-> "mempool", born |-> height]
                   ELSE IF t \in gone THEN [txs[t] EXCEPT !.status = "gone"] ELSE txs[t]]

(* Somebody pays to an address that was handed out.                        *)
Deposit ==
    /\ CanPublish({})
    /\ \E spk \in given : spk[1] = "External" /\ Publish({}, spk)
    /\ UNCHANGED <<height, mem, disk, alive, queue, command, reply, given, seen, commands, faults, unsaved>>

MineBlock ==
    /\ height < MaxHeight
    /\ height' = height + 1
    /\ txs' = [t \in Known |-> IF txs[t].status = "mempool" THEN [txs[t] EXCEPT !.status = "mined"]
                               ELSE txs[t]]
    /\ UNCHANGED <<mem, disk, alive, queue, command, reply, given, seen, commands, faults, unsaved>>

(* The last block is replaced by another of the same height, which holds   *)
(* other transactions; what it leaves out returns to the mempool.          *)
ReplaceBlock ==
    /\ \E mined \in SUBSET Live :
          /\ \A t \in mined : txs[t].inputs \subseteq mined
          /\ txs' = [t \in Known |-> IF t \notin Live THEN txs[t]
                        ELSE [txs[t] EXCEPT !.status = IF t \in mined THEN "mined" ELSE "mempool"]]
    /\ UNCHANGED <<height, mem, disk, alive, queue, command, reply, given, seen, commands, faults, unsaved>>

-----------------------------------------------------------------------------
(* The handles.                                                            *)

Ok == <<"ok", 0>>
Failed == <<"error", 0>>

Commands == {"sync", "external", "change", "send", "send_all", "read", "sign", "sign_missing_input"}

ASSUME NoneAssumption == None \notin Clients \cup Commands \cup Spks \cup {Ok, Failed}

Request(c, what) ==
    /\ command[c] = None /\ commands < MaxCommands
    /\ commands' = commands + 1
    /\ IF alive
       THEN /\ command' = [command EXCEPT ![c] = what]
            /\ reply' = [reply EXCEPT ![c] = None]
            /\ queue' = Append(queue, c)
       ELSE reply' = [reply EXCEPT ![c] = Failed] /\ UNCHANGED <<command, queue>>
    /\ UNCHANGED <<txs, height, mem, disk, alive, given, seen, faults, unsaved>>

-----------------------------------------------------------------------------
(* The actor.  Answer(answer) ends the command at the head of the channel. *)

Turn(what) == alive /\ queue # <<>> /\ command[Head(queue)] = what

Answer(answer) ==
    /\ queue' = Tail(queue)
    /\ command' = [command EXCEPT ![Head(queue)] = None]
    /\ reply' = [reply EXCEPT ![Head(queue)] = answer]

Used(k) == {i \in 1..MaxIndex : <<k, i>> \in mem.used \/ \E t \in mem.graph : txs[t].spk = <<k, i>>}

(* BDK reveals a new address only when all the revealed ones were used.    *)
(* The actions that hand one out stay below MaxIndex (spk \in Spks).       *)
NextUnused(k) ==
    LET unused == (1..mem.revealed[k]) \ Used(k)
    IN  IF unused = {} THEN mem.revealed[k] + 1 ELSE Min(unused)

Revealing(m, spk) == [m EXCEPT !.revealed[spk[1]] = Max({@, spk[2]})]

Saved(m) == [revealed |-> m.revealed, graph |-> m.graph, evicted |-> m.evicted, tip |-> m.tip]

(* The change set stays staged when it cannot be written.                  *)
Persist(m) == disk' = Saved(m)

WriteFails == faults < MaxFaults /\ faults' = faults + 1 /\ UNCHANGED disk

NewAddressIgnoresError(k) ==
    LET spk == <<k, NextUnused(k)>>
    IN  /\ spk \in Spks
        /\ mem' = Revealing(mem, spk)
        /\ given' = given \cup {spk}
        /\ Answer(spk)
        /\ \/ Persist(mem') /\ UNCHANGED faults
           \/ WriteFails
        /\ UNCHANGED <<txs, height, alive, seen, commands, unsaved>>

(* NewExternalAddress and NewChangeAddress.                                *)
NewAddress(k) ==
    LET spk == <<k, NextUnused(k)>>
    IN  /\ spk \in Spks
        /\ mem' = Revealing(mem, spk)
        /\ \/ Persist(mem') /\ Answer(spk) /\ given' = given \cup {spk} /\ UNCHANGED faults
           \/ WriteFails /\ Answer(Failed) /\ UNCHANGED given
        /\ UNCHANGED <<txs, height, alive, seen, commands, unsaved>>

NewExternalAddress == Turn("external") /\ NewAddress("External")
NewChangeAddress == Turn("change") /\ NewAddress("Internal")

(* Coins the wallet believes it can spend.  It does not look at what it    *)
(* sent itself until a sync brings it back.                                *)
Unspent == {t \in mem.graph : /\ txs[t].spk # None /\ t \notin mem.evicted
                              /\ ~\E s \in mem.graph \ mem.evicted : t \in txs[s].inputs}

(* Build, sign and broadcast; the transaction is neither applied to the    *)
(* wallet nor persisted.                                                   *)
SendToAddress ==
    /\ Turn("send")
    /\ \E inputs \in (SUBSET Unspent) \ {{}} :
          LET spk == <<"Internal", NextUnused("Internal")>>
          IN  /\ spk \in Spks
              /\ mem' = [Revealing(mem, spk) EXCEPT !.used = @ \cup {spk}]
              /\ \/ CanPublish(inputs) /\ Publish(inputs, spk) /\ Answer(Ok)
                 \/ UNCHANGED txs /\ Answer(Failed)
    /\ UNCHANGED <<height, disk, alive, given, seen, commands, faults, unsaved>>

SendAll ==
    /\ Turn("send_all") /\ Unspent # {}
    /\ \/ CanPublish(Unspent) /\ Publish(Unspent, None) /\ Answer(Ok)
       \/ UNCHANGED txs /\ Answer(Failed)
    /\ UNCHANGED <<height, mem, disk, alive, given, seen, commands, faults, unsaved>>

(* The builder finds no coins.                                             *)
SendFails ==
    /\ Turn("send") \/ Turn("send_all")
    /\ Unspent = {}
    /\ Answer(Failed)
    /\ UNCHANGED <<txs, height, mem, disk, alive, given, seen, commands, faults, unsaved>>

(* Balance, GetTransactions, ListUtxos, NextDerivationIndex.               *)
Read ==
    /\ Turn("read") /\ Answer(Ok)
    /\ UNCHANGED <<txs, height, mem, disk, alive, given, seen, commands, faults, unsaved>>

SignPsbtInput ==
    /\ Turn("sign") /\ \E answer \in {Ok, Failed} : Answer(answer)
    /\ UNCHANGED <<txs, height, mem, disk, alive, given, seen, commands, faults, unsaved>>

(* psbt.inputs[input_index] panics: the task ends, and with it the channel *)
(* and every oneshot in it.                                                *)
SignPsbtInputPanics ==
    /\ Turn("sign_missing_input")
    /\ alive' = FALSE
    /\ queue' = <<>>
    /\ command' = [c \in Clients |-> None]
    /\ reply' = [c \in Clients |-> IF command[c] # None THEN Failed ELSE reply[c]]
    /\ UNCHANGED <<txs, height, mem, disk, given, seen, commands, faults, unsaved>>

(* The first scan looks at external addresses only, until StopGap of them  *)
(* in a row have no history; later ones at everything that was revealed.   *)
History(spk) == \E t \in Live : Touches(t, {spk})

Scanned == {<<"External", i>> : i \in {n \in 1..MaxIndex :
               \A gap \in SUBSET (1..n-1) :
                  (gap # {} /\ gap = Min(gap)..Max(gap) /\ Cardinality(gap) >= StopGap)
                      => \E j \in gap : History(<<"External", j>>)}}

Revealed(m) == {spk \in Spks : spk[2] <= m.revealed[spk[1]]}

RequestedUnused == IF mem.tip = 0 THEN Scanned
                   ELSE {spk \in Revealed(mem) : spk[2] \notin Used(spk[1])}

Requested == IF mem.tip = 0 THEN Scanned ELSE Revealed(mem)

(* Applying an update: transactions join the graph; the addresses they pay *)
(* are revealed if they lie within the lookahead; those that the network   *)
(* forgot are evicted.  A later sync reveals the first address of each     *)
(* keychain (derivation_index(..).unwrap_or(0)).                           *)
Updated(spks) ==
    LET found == {t \in Live : Touches(t, spks)}
        paid(k) == {i \in 1..MaxIndex : /\ i <= mem.revealed[k] + Lookahead
                                        /\ \E t \in found : txs[t].spk = <<k, i>>}
        least == IF mem.tip = 0 THEN 0 ELSE 1
    IN  [mem EXCEPT
            !.revealed = [k \in Keychains |-> Max({mem.revealed[k], least} \cup paid(k))],
            !.graph = @ \cup found,
            !.evicted = (@ \cup IF mem.tip = 0 THEN {} ELSE mem.graph \ Live) \ found,
            !.tip = height]

SyncSkipsKnownTip == Turn("sync") /\ mem.tip = height /\ Answer(Ok)
                     /\ UNCHANGED <<txs, height, mem, disk, alive, given, seen, commands, faults, unsaved>>

SyncFails == Turn("sync") /\ Answer(Failed)
             /\ UNCHANGED <<txs, height, mem, disk, alive, given, seen, commands, faults, unsaved>>

SyncIgnoresError ==
    /\ Turn("sync") /\ mem.tip # height
    /\ mem' = Updated(Requested)
    /\ \/ Persist(mem') /\ UNCHANGED <<faults, unsaved>>
       \/ WriteFails /\ unsaved' = TRUE
    /\ Answer(Ok)
    /\ seen' = seen \cup {txs[t].spk : t \in mem'.graph}
    /\ UNCHANGED <<txs, height, alive, given, commands>>

SyncNewTip ==
    /\ Turn("sync") /\ mem.tip # height
    /\ mem' = Updated(Requested)
    /\ \/ /\ Persist(mem') /\ Answer(Ok)
          /\ seen' = seen \cup {txs[t].spk : t \in mem'.graph}
          /\ UNCHANGED <<faults, unsaved>>
       \/ /\ WriteFails /\ Answer(Failed)
          /\ unsaved' = TRUE
          /\ UNCHANGED seen
    /\ UNCHANGED <<txs, height, alive, given, commands>>

Sync == SyncSkipsKnownTip \/ SyncNewTip

-----------------------------------------------------------------------------
(* The process stops, at any moment, and DlcDevKitWallet::new loads the    *)
(* wallet from its store.                                                  *)
Restart ==
    /\ faults < MaxFaults
    /\ faults' = faults + 1
    /\ alive' = TRUE
    /\ mem' = [revealed |-> disk.revealed, used |-> {}, graph |-> disk.graph,
               evicted |-> disk.evicted, tip |-> disk.tip]
    /\ queue' = <<>>
    /\ command' = [c \in Clients |-> None]
    /\ reply' = [c \in Clients |-> None]
    /\ UNCHANGED <<txs, height, disk, given, seen, commands, unsaved>>

Fresh == [revealed |-> [k \in Keychains |-> 0], graph |-> {}, evicted |-> {}, tip |-> 0]

Init ==
    /\ txs = [t \in {} |-> None] /\ height = 1
    /\ disk = Fresh
    /\ mem = [revealed |-> Fresh.revealed, used |-> {}, graph |-> {}, evicted |-> {}, tip |-> 0]
    /\ alive = TRUE /\ queue = <<>>
    /\ command = [c \in Clients |-> None] /\ reply = [c \in Clients |-> None]
    /\ given = {} /\ seen = {} /\ commands = 0 /\ faults = 0 /\ unsaved = FALSE

Actor == \/ Sync \/ NewExternalAddress \/ NewChangeAddress \/ SendToAddress \/ SendAll
         \/ SendFails \/ Read \/ SignPsbtInput \/ SignPsbtInputPanics

Next ==
    \/ \E c \in Clients, what \in Commands : Request(c, what)
    \/ Actor \/ SyncFails
    \/ Deposit \/ MineBlock \/ ReplaceBlock \/ Restart

(* The actor's loop runs whenever a command is in the channel.             *)
Spec == Init /\ [][Next]_vars /\ WF_vars(Actor)

-----------------------------------------------------------------------------
(* Properties.                                                             *)

TypeOK ==
    /\ \A t \in Known : /\ txs[t].inputs \subseteq Known /\ txs[t].spk \in Spks \cup {None}
                        /\ txs[t].status \in {"mempool", "mined", "gone"} /\ txs[t].born \in Nat
    /\ mem.graph \subseteq Known /\ disk.graph \subseteq mem.graph
    /\ \A k \in Keychains : disk.revealed[k] <= mem.revealed[k] /\ mem.revealed[k] <= MaxIndex
    /\ \A c \in Clients : (command[c] # None) = (c \in Range(queue))
    /\ IsInjective(queue) /\ (queue # <<>> => alive)
    /\ given \subseteq Spks /\ disk.tip <= mem.tip /\ mem.tip <= height

(* An address that a caller was given is covered by what is persisted: no  *)
(* crash and no failed write makes the wallet forget to look at it, and    *)
(* money sent there is found ("A dropped persist error loses the revealed  *)
(* index and leads to address reuse after a restart").                     *)
GivenIsWatched == \A spk \in given : spk[2] <= disk.revealed[spk[1]]

(* The wallet in memory is never behind its copy on disk, and the copy     *)
(* covers what was handed out (new_external_address, persist).             *)
WalletInv == TypeOK /\ GivenIsWatched

(* Once a sync that succeeded had seen a payment to an address, the        *)
(* address is never given out again, not even after a restart.             *)
NotReusedOnceSeen ==
    [][\A c \in Clients : reply'[c] # reply[c] /\ reply'[c] \in Spks => reply'[c] \notin seen]_vars

(* What a sync that succeeds has found.  One that sees a new height finds  *)
(* every live transaction of the wallet, change addresses that were        *)
(* revealed by a payment and lost by a crash included, and persists the    *)
(* indexes of all their outputs to it.  One that sees the height it knows  *)
(* looks at nothing (command.rs): what it leaves out is at most what was   *)
(* published since the chain reached this height.  A sync that could not   *)
(* be saved ends the promise.                                              *)
Own == {t \in Live : Touches(t, Spks)}

SyncSucceeds == \E c \in Clients : /\ queue # <<>> /\ c = Head(queue) /\ command[c] = "sync"
                                   /\ command'[c] = None /\ reply'[c] = Ok

Knows(t, m, d) == t \in m.graph /\ (txs[t].spk # None => txs[t].spk[2] <= d.revealed[txs[t].spk[1]])

SyncFindsOwnCoins ==
    [][SyncSucceeds /\ ~unsaved =>
          \A t \in Own : mem.tip # height \/ txs[t].born < height => Knows(t, mem', disk')]_vars

=============================================================================
