---------------------------- MODULE WalletProofs ----------------------------
(***************************************************************************)
(* Proofs about Wallet, for every number of clients, transactions,         *)
(* addresses, crashes and failed writes.                                   *)
(*                                                                         *)
(* What an address is promised (GivenIsWatched) needs that the wallet in   *)
(* memory never falls behind its copy on disk.  That no address is given   *)
(* out twice, and that a sync finds every coin, need more: payments to an  *)
(* address must not be further ahead of the persisted index than BDK's     *)
(* lookahead, which only sends that are never synchronised could bring     *)
(* about (WithinLookahead).                                                *)
(***************************************************************************)
EXTENDS Wallet, FiniteSetTheorems, SequenceTheorems, TLAPS

Status == {"mempool", "mined", "gone"}
TxRecord == [inputs : SUBSET Nat, spk : Spks \cup {None}, status : Status, born : Nat]
Indexes == [Keychains -> 0..MaxIndex]
MemRecord == [revealed : Indexes, used : SUBSET Spks, graph : SUBSET Nat,
              evicted : SUBSET Nat, tip : Nat]
DiskRecord == [revealed : Indexes, graph : SUBSET Nat, evicted : SUBSET Nat, tip : Nat]
Answers == Spks \cup {Ok, Failed}

-----------------------------------------------------------------------------
(* Extrema of sets of numbers.                                             *)

\* A set of natural numbers has a least element.
LEMMA LeastNumber ==
    ASSUME NEW S \in SUBSET Nat, S # {}
    PROVE  Min(S) \in S /\ \A y \in S : Min(S) <= y
<1> DEFINE R == {ss \in Nat \X Nat : ss[1] < ss[2]}
<1>1. IsWellFoundedOn(R, Nat)
  BY NatLessThanWellFounded DEF OpToRel
<1> HIDE DEF R
<1>2. PICK x \in S : \A y \in S : ~(<<y, x>> \in R)
  BY <1>1, WFMin
<1>3. ASSUME NEW y \in S PROVE x <= y
  <2>1. x \in Nat /\ y \in Nat
    OBVIOUS
  <2>2. y < x => <<y, x>> \in R
    BY <2>1 DEF R
  <2> QED BY <1>2, <2>1, <2>2
<1> QED BY <1>3 DEF Min

\* A bounded one has a greatest.
LEMMA GreatestNumber ==
    ASSUME NEW n \in Nat, NEW S \in SUBSET (0..n), S # {}
    PROVE  Max(S) \in S /\ \A y \in S : y <= Max(S)
<1> DEFINE T == {n - x : x \in S}
<1>1. T \in SUBSET Nat /\ T # {}
  <2>1. \A x \in S : n - x \in Nat
    OBVIOUS
  <2> QED BY <2>1
<1>2. Min(T) \in T /\ \A y \in T : Min(T) <= y
  BY <1>1, LeastNumber
<1>3. PICK x \in S : Min(T) = n - x
  BY <1>2
<1>4. \A y \in S : n - x <= n - y
  BY <1>2, <1>3
<1>5. \A y \in S : x >= y
  BY <1>4
<1> QED BY <1>5 DEF Max

\* The greater of two numbers.
LEMMA MaxOfTwo ==
    ASSUME NEW a \in Nat, NEW b \in Nat
    PROVE  Max({a, b}) = IF a >= b THEN a ELSE b
BY DEF Max

-----------------------------------------------------------------------------
(* The channel of the actor and the callers that wait for it.              *)

QueueInv ==
    /\ alive \in BOOLEAN
    /\ queue \in Seq(Clients)
    /\ command \in [Clients -> Commands \cup {None}]
    /\ reply \in [Clients -> Answers \cup {None}]
    /\ \A c \in Clients : (command[c] # None) = (c \in Range(queue))
    /\ IsInjective(queue) /\ (queue # <<>> => alive)

\* Sending a command puts its caller into the channel, once.
LEMMA RequestKeepsQueue ==
    ASSUME QueueInv, NEW c \in Clients, NEW what \in Commands, Request(c, what)
    PROVE  QueueInv'
<1>0. what # None /\ Failed \in Answers /\ alive' = alive /\ command[c] = None
  BY NoneAssumption DEF Request, Answers
<1>1. CASE ~alive
  BY <1>0, <1>1 DEF QueueInv, Request
<1>2. CASE alive
  <2>1. /\ queue' = Append(queue, c) /\ command' = [command EXCEPT ![c] = what]
        /\ reply' = [reply EXCEPT ![c] = None]
    BY <1>2 DEF Request
  <2>2. /\ queue' \in Seq(Clients) /\ Len(queue') = Len(queue) + 1
        /\ \A i \in 1..Len(queue) : queue'[i] = queue[i]
        /\ queue'[Len(queue) + 1] = c
    BY <2>1, AppendProperties DEF QueueInv
  <2>3. c \notin Range(queue)
    BY <1>0 DEF QueueInv
  <2>4. DOMAIN queue = 1..Len(queue) /\ DOMAIN queue' = 1..(Len(queue) + 1) /\ Len(queue) \in Nat
    BY <2>2, LenProperties DEF QueueInv
  <2>5. Range(queue') = Range(queue) \cup {c}
    BY <2>2, <2>4 DEF Range
  <2>6. IsInjective(queue')
    BY <2>2, <2>3, <2>4 DEF IsInjective, Range, QueueInv
  <2>7. \A d \in Clients : (command'[d] # None) = (d \in Range(queue'))
    BY <1>0, <2>1, <2>5 DEF QueueInv
  <2> QED BY <1>0, <1>2, <2>1, <2>2, <2>6, <2>7 DEF QueueInv
<1> QED BY <1>1, <1>2

\* An answer takes its caller out of it.
LEMMA AnswerKeepsQueue ==
    ASSUME QueueInv, NEW what \in Commands, Turn(what), NEW a \in Answers, Answer(a),
           alive' = alive
    PROVE  QueueInv'
<1> DEFINE c == Head(queue)
<1>1. /\ queue # <<>> /\ queue' = Tail(queue) /\ alive
      /\ command' = [command EXCEPT ![c] = None] /\ reply' = [reply EXCEPT ![c] = a]
  BY DEF Turn, Answer
<1>2. /\ c \in Clients /\ queue' \in Seq(Clients) /\ Len(queue') = Len(queue) - 1
      /\ \A i \in 1..Len(queue') : queue'[i] = queue[i + 1]
  BY <1>1, HeadTailProperties DEF QueueInv
<1>3. Len(queue) \in Nat /\ Len(queue) > 0 /\ c = queue[1]
      /\ DOMAIN queue = 1..Len(queue) /\ DOMAIN queue' = 1..(Len(queue) - 1)
  BY <1>1, <1>2, LenProperties, EmptySeq DEF QueueInv
<1> HIDE DEF c
<1>4. IsInjective(queue')
  <2>1. \A i, j \in DOMAIN queue : queue[i] = queue[j] => i = j
    BY DEF IsInjective, QueueInv
  <2>2. ASSUME NEW i \in DOMAIN queue', NEW j \in DOMAIN queue', queue'[i] = queue'[j]
        PROVE  i = j
    <3>1. /\ i \in 1..Len(queue') /\ j \in 1..Len(queue')
          /\ i + 1 \in DOMAIN queue /\ j + 1 \in DOMAIN queue /\ i \in Int /\ j \in Int
      BY <1>2, <1>3
    <3>2. queue[i + 1] = queue[j + 1]
      BY <1>2, <2>2, <3>1
    <3>3. i + 1 = j + 1
      BY <2>1, <3>1, <3>2
    <3> QED BY <3>1, <3>3
  <2> QED BY <2>2 DEF IsInjective
<1>5. Range(queue') = Range(queue) \ {c}
  <2>0. \A i, j \in DOMAIN queue : queue[i] = queue[j] => i = j
    BY DEF IsInjective, QueueInv
  <2>1. ASSUME NEW i \in DOMAIN queue'
        PROVE  i + 1 \in DOMAIN queue /\ queue'[i] = queue[i + 1] /\ queue[i + 1] # c
    <3>1. i \in 1..Len(queue') /\ i + 1 \in DOMAIN queue /\ 1 \in DOMAIN queue /\ i + 1 # 1
      BY <1>2, <1>3
    <3> QED BY <1>2, <1>3, <2>0, <3>1
  <2>2. \A i \in DOMAIN queue : queue[i] # c => i - 1 \in DOMAIN queue' /\ queue'[i - 1] = queue[i]
    BY <1>2, <1>3
  <2> QED BY <2>1, <2>2 DEF Range
<1>6. \A d \in Clients : (command'[d] # None) = (d \in Range(queue'))
  BY <1>1, <1>2, <1>5 DEF QueueInv
<1> QED BY <1>1, <1>2, <1>4, <1>6 DEF QueueInv

\* Whatever forgets all commands.
LEMMA EmptyQueue ==
    ASSUME queue' = <<>>, command' = [c \in Clients |-> None], alive' \in BOOLEAN,
           reply' \in [Clients -> Answers \cup {None}]
    PROVE  QueueInv'
<1>1. queue' \in Seq(Clients) /\ DOMAIN queue' = {}
  OBVIOUS
<1> QED BY <1>1 DEF QueueInv, IsInjective, Range

-----------------------------------------------------------------------------
(* The network, and the wallet in memory and on disk.                      *)

NetworkShape ==
    /\ \E n \in Nat : Known = 1..n
    /\ txs \in [Known -> TxRecord]
    /\ \A t \in Known : txs[t].inputs \subseteq Known

WalletShape ==
    /\ mem \in MemRecord /\ disk \in DiskRecord /\ height \in Nat
    /\ mem.graph \subseteq Known /\ disk.graph \subseteq mem.graph
    /\ \A k \in Keychains : disk.revealed[k] <= mem.revealed[k]
    /\ disk.tip <= mem.tip /\ mem.tip <= height
    /\ given \subseteq Spks /\ GivenIsWatched

DataInv == NetworkShape /\ WalletShape

\* What a transaction spends and pays never changes; what the network forgot
\* stays forgotten.
SameOutputs == \A t \in Known :
    /\ t \in Known' /\ txs'[t].inputs = txs[t].inputs /\ txs'[t].spk = txs[t].spk
    /\ txs'[t].born = txs[t].born
    /\ t \in Live' => t \in Live

\* The network accepts a transaction with these inputs that pays to spk.
Extended(inputs, spk) ==
    /\ SameOutputs
    /\ \A t \in Known' \ Known : txs'[t].inputs = inputs /\ txs'[t].spk = spk /\ txs'[t].born = height

LEMMA PublishExtends ==
    ASSUME NetworkShape, height \in Nat, NEW inputs, NEW spk \in Spks \cup {None},
           CanPublish(inputs), Publish(inputs, spk)
    PROVE  NetworkShape' /\ Extended(inputs, spk)
<1> DEFINE gone == Dependants(inputs)
           id == Cardinality(Known) + 1
<1>1. PICK n \in Nat : Known = 1..n
  BY DEF NetworkShape
<1>2. id = n + 1 /\ id \notin Known
  BY <1>1, FS_Interval
<1>3. inputs \subseteq Known /\ Known \subseteq Nat
  BY <1>1 DEF CanPublish, Live
<1> HIDE DEF gone, id
<1>4. txs' = [t \in Known \cup {id} |->
                IF t = id THEN [inputs |-> inputs, spk |-> spk, status |-> "mempool", born |-> height]
                ELSE IF t \in gone THEN [txs[t] EXCEPT !.status = "gone"] ELSE txs[t]]
  BY DEF Publish, gone, id
<1>5. Known' = 1..(n + 1) /\ Known' = Known \cup {id}
  BY <1>1, <1>2, <1>4 DEF Known
<1>6. txs'[id] = [inputs |-> inputs, spk |-> spk, status |-> "mempool", born |-> height]
      /\ txs'[id] \in TxRecord
  BY <1>3, <1>4 DEF TxRecord, Status
<1>7. ASSUME NEW t \in Known
      PROVE  /\ txs'[t] \in TxRecord
             /\ txs'[t].inputs = txs[t].inputs /\ txs'[t].spk = txs[t].spk
             /\ txs'[t].born = txs[t].born
             /\ t \in Live' => t \in Live
  <2>1. txs[t] \in TxRecord /\ t # id
    BY <1>2 DEF NetworkShape
  <2>2. txs'[t] = IF t \in gone THEN [txs[t] EXCEPT !.status = "gone"] ELSE txs[t]
    BY <1>4, <2>1
  <2>3. /\ txs'[t] \in TxRecord /\ txs'[t].inputs = txs[t].inputs /\ txs'[t].spk = txs[t].spk
        /\ txs'[t].born = txs[t].born
        /\ txs'[t].status # "gone" => txs[t].status # "gone"
    BY <2>1, <2>2 DEF TxRecord, Status
  <2> QED BY <2>3 DEF Live
<1>8. NetworkShape'
  <2>1. \A t \in Known' : txs'[t] \in TxRecord
    BY <1>5, <1>6, <1>7
  <2>2. txs' = [t \in Known' |-> txs'[t]]
    BY <1>4, <1>5
  <2>3. \A t \in Known' : txs'[t].inputs \subseteq Known'
    BY <1>3, <1>5, <1>6, <1>7 DEF NetworkShape
  <2>4. n + 1 \in Nat
    OBVIOUS
  <2> QED BY <1>5, <2>1, <2>2, <2>3, <2>4 DEF NetworkShape
<1> QED BY <1>5, <1>6, <1>7, <1>8 DEF Extended, SameOutputs

\* A payment of somebody else.
LEMMA DepositExtends ==
    ASSUME NetworkShape, height \in Nat, given \subseteq Spks, Deposit
    PROVE  /\ NetworkShape'
           /\ \E spk \in given : spk[1] = "External" /\ Extended({}, spk)
<1>1. PICK spk \in given : spk[1] = "External" /\ Publish({}, spk)
  BY DEF Deposit
<1> QED BY <1>1, PublishExtends DEF Deposit

\* Blocks change nothing but what is mined.
LEMMA BlocksExtend ==
    ASSUME NetworkShape, height \in Nat, MineBlock \/ ReplaceBlock
    PROVE  NetworkShape' /\ SameOutputs /\ Known' = Known /\ height' \in Nat /\ height <= height'
<1>1. Known' = Known /\ txs' = [t \in Known' |-> txs'[t]]
  BY DEF MineBlock, ReplaceBlock, Known
<1>2. ASSUME NEW t \in Known
      PROVE  /\ txs'[t] \in TxRecord /\ txs'[t].inputs = txs[t].inputs
             /\ txs'[t].spk = txs[t].spk /\ txs'[t].born = txs[t].born
             /\ t \in Live' => t \in Live
  <2>1. txs[t] \in TxRecord
    BY DEF NetworkShape
  <2>2. \/ txs'[t] = txs[t]
        \/ txs[t].status # "gone" /\ \E status \in Status : txs'[t] = [txs[t] EXCEPT !.status = status]
    <3>1. CASE MineBlock
      BY <3>1 DEF MineBlock, Status
    <3>2. CASE ReplaceBlock
      BY <3>2 DEF ReplaceBlock, Status, Live
    <3> QED BY <3>1, <3>2
  <2>3. txs'[t] \in TxRecord
    BY <2>1, <2>2 DEF TxRecord
  <2> QED BY <1>1, <2>1, <2>2, <2>3 DEF TxRecord, Live
<1>3. NetworkShape'
  BY <1>1, <1>2 DEF NetworkShape
<1>4. height' \in Nat /\ height <= height'
  BY DEF MineBlock, ReplaceBlock
<1>5. SameOutputs
  BY <1>1, <1>2 DEF SameOutputs
<1> QED BY <1>1, <1>3, <1>4, <1>5

-----------------------------------------------------------------------------
(* The operators of the actor.                                             *)

\* Revealing an address leaves every other index alone.
LEMMA RevealingIndex ==
    ASSUME NEW m \in MemRecord, NEW spk \in Spks
    PROVE  /\ Revealing(m, spk) \in MemRecord
           /\ Revealing(m, spk) = [m EXCEPT !.revealed = Revealing(m, spk).revealed]
           /\ \A k \in Keychains : m.revealed[k] <= Revealing(m, spk).revealed[k]
           /\ \A k \in Keychains : k # spk[1] => Revealing(m, spk).revealed[k] = m.revealed[k]
           /\ Revealing(m, spk).revealed[spk[1]] = IF m.revealed[spk[1]] >= spk[2]
                                                   THEN m.revealed[spk[1]] ELSE spk[2]
<1>1. spk[1] \in Keychains /\ spk[2] \in 1..MaxIndex /\ MaxIndex \in Nat
  BY WalletAssumption DEF Spks
<1>2. m.revealed \in Indexes /\ m.revealed[spk[1]] \in 0..MaxIndex
  BY <1>1 DEF MemRecord, Indexes
<1> DEFINE i == Max({m.revealed[spk[1]], spk[2]})
<1>3. i = (IF m.revealed[spk[1]] >= spk[2] THEN m.revealed[spk[1]] ELSE spk[2])
      /\ i \in 0..MaxIndex
  BY <1>1, <1>2, MaxOfTwo
<1>4. Revealing(m, spk) = [m EXCEPT !.revealed = [m.revealed EXCEPT ![spk[1]] = i]]
  BY DEF Revealing, MemRecord
<1> HIDE DEF i
<1>5. [m.revealed EXCEPT ![spk[1]] = i] \in Indexes
  BY <1>1, <1>2, <1>3 DEF Indexes
<1>6. Revealing(m, spk).revealed = [m.revealed EXCEPT ![spk[1]] = i]
  BY <1>4 DEF MemRecord
<1>7. \A k \in Keychains : m.revealed[k] <= Revealing(m, spk).revealed[k]
  BY <1>1, <1>2, <1>3, <1>6 DEF Indexes
<1>8. Revealing(m, spk) \in MemRecord
  BY <1>4, <1>5 DEF MemRecord
<1> QED BY <1>1, <1>2, <1>3, <1>4, <1>6, <1>7, <1>8 DEF Indexes

\* The next address was not used, as far as the wallet knows.
LEMMA NextUnusedIsNew ==
    ASSUME mem \in MemRecord, NEW k \in Keychains
    PROVE  /\ NextUnused(k) \in Nat /\ NextUnused(k) <= mem.revealed[k] + 1
           /\ NextUnused(k) \notin Used(k) \/ NextUnused(k) = mem.revealed[k] + 1
           /\ \A i \in 1..mem.revealed[k] : i \notin Used(k) => NextUnused(k) <= i
<1> DEFINE unused == (1..mem.revealed[k]) \ Used(k)
<1>1. mem.revealed[k] \in Nat
  BY WalletAssumption DEF MemRecord, Indexes
<1>2. CASE unused = {}
  BY <1>1, <1>2 DEF NextUnused
<1>3. CASE unused # {}
  <2>1. NextUnused(k) = Min(unused)
    BY <1>3 DEF NextUnused
  <2>2. unused \in SUBSET Nat
    BY <1>1
  <2> HIDE DEF unused
  <2>3. Min(unused) \in unused /\ \A i \in unused : Min(unused) <= i
    BY <1>3, <2>2, LeastNumber
  <2> QED BY <1>1, <2>1, <2>3 DEF unused
<1> QED BY <1>2, <1>3

\* What an update adds, and how far the indexes follow.
Found(spks) == {t \in Live : Touches(t, spks)}

LEMMA UpdatedWallet ==
    ASSUME DataInv, NEW spks
    PROVE  /\ Updated(spks) \in MemRecord
           /\ Updated(spks).graph = mem.graph \cup Found(spks)
           /\ Updated(spks).tip = height /\ Updated(spks).used = mem.used
           /\ \A k \in Keychains : mem.revealed[k] <= Updated(spks).revealed[k]
           /\ \A k \in Keychains : mem.tip > 0 => 1 <= Updated(spks).revealed[k]
           /\ \A k \in Keychains, i \in 1..MaxIndex, t \in Found(spks) :
                txs[t].spk = <<k, i>> /\ i <= mem.revealed[k] + Lookahead
                    => i <= Updated(spks).revealed[k]
<1> DEFINE found == Found(spks)
           paid(k) == {i \in 1..MaxIndex : /\ i <= mem.revealed[k] + Lookahead
                                           /\ \E t \in found : txs[t].spk = <<k, i>>}
           least == IF mem.tip = 0 THEN 0 ELSE 1
           reached(k) == {mem.revealed[k], least} \cup paid(k)
           evicted == (mem.evicted \cup IF mem.tip = 0 THEN {} ELSE mem.graph \ Live) \ found
<1>1. Updated(spks) = [mem EXCEPT !.revealed = [k \in Keychains |-> Max(reached(k))],
                                  !.graph = mem.graph \cup found, !.evicted = evicted,
                                  !.tip = height]
  BY DEF Updated, Found
<1>2. mem \in MemRecord /\ mem.tip \in Nat /\ MaxIndex \in Nat /\ MaxIndex > 0
  BY WalletAssumption DEF DataInv, WalletShape, MemRecord
<1>3. ASSUME NEW k \in Keychains
      PROVE  Max(reached(k)) \in reached(k) /\ Max(reached(k)) \in 0..MaxIndex
             /\ \A y \in reached(k) : y <= Max(reached(k))
  <2>1. mem.revealed[k] \in 0..MaxIndex
    BY <1>2 DEF MemRecord, Indexes
  <2>2. reached(k) \in SUBSET (0..MaxIndex) /\ reached(k) # {}
    BY <1>2, <2>1
  <2> HIDE DEF reached
  <2>3. Max(reached(k)) \in reached(k) /\ \A y \in reached(k) : y <= Max(reached(k))
    BY <1>2, <2>2, GreatestNumber
  <2> QED BY <2>2, <2>3
<1>4. found \subseteq Known /\ Known \subseteq Nat /\ mem.graph \subseteq Known
      /\ mem.evicted \subseteq Nat /\ height \in Nat
  BY <1>2 DEF Found, Live, DataInv, NetworkShape, WalletShape, MemRecord
<1>5. evicted \subseteq Nat
  BY <1>4
<1>6. \A k \in Keychains : /\ mem.revealed[k] \in reached(k) /\ least \in reached(k)
                            /\ paid(k) \subseteq reached(k)
  OBVIOUS
<1>7. \A k \in Keychains : mem.tip > 0 => least = 1
  BY <1>2
<1>8. \A k \in Keychains, i \in 1..MaxIndex, t \in found :
          txs[t].spk = <<k, i>> /\ i <= mem.revealed[k] + Lookahead => i \in paid(k)
  OBVIOUS
<1> HIDE DEF found, paid, least, reached, evicted
<1>9. /\ Updated(spks).revealed = [k \in Keychains |-> Max(reached(k))]
      /\ Updated(spks).graph = mem.graph \cup found /\ Updated(spks).evicted = evicted
      /\ Updated(spks).tip = height /\ Updated(spks).used = mem.used
  BY <1>1, <1>2 DEF MemRecord
<1>10. Updated(spks).revealed \in Indexes
  BY <1>3, <1>9 DEF Indexes
<1>11. Updated(spks) \in MemRecord
  BY <1>1, <1>2, <1>4, <1>5, <1>9, <1>10 DEF MemRecord
<1> QED BY <1>3, <1>6, <1>7, <1>8, <1>9, <1>11 DEF found

-----------------------------------------------------------------------------
(* What holds of the wallet whatever the lookahead is.                     *)

\* Before the first sync the wallet knows of nothing, and has given out one
\* external address at most.
Unscanned(m) == m.tip = 0 => m.graph = {} /\ m.revealed["External"] <= 1

ScanInv ==
    /\ height > 0
    /\ Unscanned(mem) /\ Unscanned(disk)
    /\ \A spk \in mem.used : spk[1] = "Internal"
    /\ \A t \in Known : /\ txs[t].inputs = {} => txs[t].spk # None /\ txs[t].spk[1] = "External"
                        /\ txs[t].spk # None /\ txs[t].spk[1] = "External"
                              => txs[t].spk \in given
    /\ \A spk \in seen : \E t \in disk.graph : txs[t].spk = spk

\* While every sync could be persisted, memory and disk know the same
\* transactions, among them all those whose coins were spent.
CoinsKnown ==
    /\ mem.tip = disk.tip /\ mem.graph = disk.graph
    /\ \A t \in Known, coin \in Nat :
          coin \in txs[t].inputs => coin \in disk.graph /\ txs[coin].spk # None
SavedInv == unsaved \in BOOLEAN /\ (~unsaved => CoinsKnown)

WalletData == DataInv /\ ScanInv /\ SavedInv

\* A step that leaves the network and the wallet alone.
LEMMA IdleKeepsData ==
    ASSUME WalletData, UNCHANGED <<txs, height, mem, disk, given, seen, unsaved>>
    PROVE  WalletData'
BY DEF WalletData, DataInv, NetworkShape, WalletShape, GivenIsWatched, ScanInv, Unscanned,
       SavedInv, CoinsKnown, Known

LEMMA InitKeepsData == Init => WalletData /\ QueueInv
<1> SUFFICES ASSUME Init PROVE WalletData /\ QueueInv
  OBVIOUS
<1>1. Known = {} /\ \A t \in Known : FALSE
  BY DEF Init, Known
<1>2. NetworkShape
  <2>1. Known = 1..0 /\ 0 \in Nat
    BY <1>1
  <2>2. txs \in [Known -> TxRecord]
    BY <1>1 DEF Init, Known
  <2> QED BY <1>1, <2>1, <2>2 DEF NetworkShape
<1>3. [k \in Keychains |-> 0] \in Indexes
  BY WalletAssumption DEF Indexes
<1>4. WalletShape
  BY <1>1, <1>3 DEF Init, WalletShape, MemRecord, DiskRecord, Fresh, GivenIsWatched
<1>5. ScanInv /\ SavedInv
  <2>1. Unscanned(mem) /\ Unscanned(disk)
    BY DEF Init, Unscanned, Fresh, Keychains
  <2>2. height > 0
    BY DEF Init
  <2>3. unsaved = FALSE /\ seen = {}
    BY DEF Init
  <2>4. mem.used = {} /\ mem.tip = disk.tip /\ mem.graph = disk.graph
    BY DEF Init, Fresh
  <2>5. CoinsKnown
    BY <1>1, <2>4 DEF CoinsKnown
  <2>6. SavedInv
    BY <2>3, <2>5 DEF SavedInv
  <2> QED BY <1>1, <2>1, <2>2, <2>3, <2>4, <2>6 DEF ScanInv
<1>6. QueueInv
  <2>1. queue \in Seq(Clients) /\ DOMAIN queue = {} /\ alive
    BY DEF Init
  <2>2. Range(queue) = {} /\ IsInjective(queue)
    BY <2>1 DEF Range, IsInjective
  <2>3. /\ command = [c \in Clients |-> None] /\ reply = [c \in Clients |-> None]
    BY DEF Init
  <2> QED BY <2>1, <2>2, <2>3 DEF QueueInv
<1> QED BY <1>2, <1>4, <1>5, <1>6 DEF WalletData, DataInv

\* Before the first sync the next external address is the first one.
LEMMA RevealingUnscanned ==
    ASSUME WalletData, NEW k \in Keychains, <<k, NextUnused(k)>> \in Spks
    PROVE  Unscanned(Revealing(mem, <<k, NextUnused(k)>>))
<1> DEFINE m == Revealing(mem, <<k, NextUnused(k)>>)
<1>1. mem \in MemRecord /\ \A j \in Keychains : mem.revealed[j] \in Nat
  BY WalletAssumption DEF WalletData, DataInv, WalletShape, MemRecord, Indexes
<1>2. /\ m \in MemRecord /\ m = [mem EXCEPT !.revealed = m.revealed]
      /\ \A j \in Keychains : j # k => m.revealed[j] = mem.revealed[j]
      /\ m.revealed[k] = IF mem.revealed[k] >= NextUnused(k) THEN mem.revealed[k] ELSE NextUnused(k)
  BY <1>1, RevealingIndex
<1> HIDE DEF m
<1>3. m.tip = mem.tip /\ m.graph = mem.graph
  BY <1>1, <1>2 DEF MemRecord
<1>4. "External" \in Keychains
  BY DEF Keychains
<1> SUFFICES ASSUME mem.tip = 0 PROVE m.graph = {} /\ m.revealed["External"] <= 1
  BY <1>3 DEF Unscanned, m
<1>5. mem.graph = {} /\ mem.revealed["External"] <= 1
  BY DEF WalletData, ScanInv, Unscanned
<1>6. CASE k = "External"
  <2>1. Used(k) = {}
    BY <1>5, <1>6 DEF Used, WalletData, ScanInv
  <2>2. NextUnused(k) \in Nat /\ NextUnused(k) <= 1
    BY <1>1, <1>5, <1>6, <2>1, NextUnusedIsNew
  <2> QED BY <1>1, <1>2, <1>3, <1>5, <1>6, <2>2
<1>7. CASE k # "External"
  BY <1>2, <1>3, <1>4, <1>5, <1>7
<1> QED BY <1>6, <1>7

\* new_external_address and new_change_address.
LEMMA NewAddressKeepsData ==
    ASSUME WalletData, NEW k \in Keychains, NewAddress(k)
    PROVE  WalletData'
<1> DEFINE spk == <<k, NextUnused(k)>>
           m == Revealing(mem, spk)
<1>1. /\ spk \in Spks /\ mem' = m /\ txs' = txs /\ height' = height /\ seen' = seen
      /\ \/ disk' = Saved(m) /\ given' = given \cup {spk}
         \/ disk' = disk /\ given' = given
  BY DEF NewAddress, Persist, WriteFails
<1>2. unsaved' = unsaved
  BY DEF NewAddress
<1>3. mem \in MemRecord /\ disk \in DiskRecord
  BY DEF WalletData, DataInv, WalletShape
<1>4. /\ m \in MemRecord /\ m = [mem EXCEPT !.revealed = m.revealed]
      /\ \A j \in Keychains : mem.revealed[j] <= m.revealed[j]
      /\ m.revealed[k] \in Nat /\ NextUnused(k) <= m.revealed[k]
  <2>1. spk[1] = k /\ spk[2] = NextUnused(k) /\ NextUnused(k) \in Nat
    BY <1>3, NextUnusedIsNew
  <2>2. m.revealed[k] \in Nat
    BY <1>1, <1>3, RevealingIndex, WalletAssumption DEF MemRecord, Indexes
  <2>3. m.revealed[spk[1]] = IF mem.revealed[spk[1]] >= spk[2] THEN mem.revealed[spk[1]] ELSE spk[2]
    BY <1>1, <1>3, RevealingIndex
  <2>4. mem.revealed[k] \in Nat
    BY <1>3, WalletAssumption DEF MemRecord, Indexes
  <2>5. NextUnused(k) <= m.revealed[k]
    BY <2>1, <2>2, <2>3, <2>4
  <2> QED BY <1>1, <1>3, <2>2, <2>5, RevealingIndex
<1>5. Unscanned(m)
  BY <1>1, RevealingUnscanned
<1>6. spk[1] = k /\ spk[2] = NextUnused(k)
  OBVIOUS
<1> HIDE DEF m, spk
<1>7. /\ m.tip = mem.tip /\ m.graph = mem.graph /\ m.used = mem.used
      /\ Saved(m) = [revealed |-> m.revealed, graph |-> mem.graph, evicted |-> m.evicted, tip |-> mem.tip]
      /\ Saved(m) \in DiskRecord
  BY <1>3, <1>4 DEF Saved, MemRecord, DiskRecord
<1>8. NetworkShape'
  BY <1>1 DEF WalletData, DataInv, NetworkShape, Known
<1>9. Known' = Known
  BY <1>1 DEF Known
<1>10. CASE disk' = Saved(m) /\ given' = given \cup {spk}
  <2>1. \A j \in Keychains : disk'.revealed[j] = m.revealed[j] /\ m.revealed[j] \in Nat
    BY <1>4, <1>7, <1>10, WalletAssumption DEF MemRecord, Indexes
  <2>2. \A j \in Keychains : disk.revealed[j] <= m.revealed[j] /\ disk.revealed[j] \in Nat
    BY <1>3, <1>4, <2>1, WalletAssumption
    DEF WalletData, DataInv, WalletShape, MemRecord, DiskRecord, Indexes
  <2>3. GivenIsWatched'
    <3> SUFFICES ASSUME NEW s \in given' PROVE s[2] <= disk'.revealed[s[1]]
      BY DEF GivenIsWatched
    <3>1. CASE s = spk
      BY <1>4, <1>6, <2>1, <3>1
    <3>2. CASE s \in given
      <4>1. s \in Spks /\ s[1] \in Keychains /\ s[2] \in Nat
        BY <3>2 DEF WalletData, DataInv, WalletShape, Spks
      <4>2. s[2] <= disk.revealed[s[1]]
        BY <3>2 DEF WalletData, DataInv, WalletShape, GivenIsWatched
      <4> QED BY <2>1, <2>2, <4>1, <4>2
    <3> QED BY <1>10, <3>1, <3>2
  <2>4. WalletShape'
    BY <1>1, <1>3, <1>4, <1>7, <1>9, <1>10, <2>1, <2>3 DEF WalletData, DataInv, WalletShape, MemRecord
  <2>5. Unscanned(mem') /\ Unscanned(disk')
    BY <1>1, <1>5, <1>7, <1>10 DEF Unscanned
  <2>6. mem'.tip = disk'.tip /\ mem'.graph = disk'.graph /\ disk.graph \subseteq disk'.graph
    BY <1>1, <1>7, <1>10 DEF WalletData, DataInv, WalletShape
  <2>7. ScanInv'
    BY <1>1, <1>7, <1>9, <1>10, <2>5, <2>6 DEF WalletData, ScanInv
  <2>8. CoinsKnown => CoinsKnown'
    BY <1>1, <1>9, <2>6 DEF CoinsKnown
  <2> QED BY <1>2, <1>8, <2>4, <2>7, <2>8 DEF WalletData, DataInv, SavedInv
<1>11. CASE disk' = disk /\ given' = given
  <2>1. \A j \in Keychains : /\ disk.revealed[j] \in Nat /\ m.revealed[j] \in Nat
                              /\ mem.revealed[j] \in Nat
    BY <1>3, <1>4, WalletAssumption DEF MemRecord, DiskRecord, Indexes
  <2>2. WalletShape'
    BY <1>1, <1>3, <1>4, <1>7, <1>9, <1>11, <2>1 DEF WalletData, DataInv, WalletShape, GivenIsWatched
  <2>3. ScanInv'
    BY <1>1, <1>5, <1>7, <1>9, <1>11 DEF WalletData, ScanInv
  <2>4. CoinsKnown => CoinsKnown'
    BY <1>1, <1>7, <1>9, <1>11 DEF CoinsKnown
  <2> QED BY <1>2, <1>8, <2>2, <2>3, <2>4 DEF WalletData, DataInv, SavedInv
<1> QED BY <1>1, <1>10, <1>11

\* A step of the network: what it adds must be a payment to an address that
\* was given, or spend coins the wallet knows.
LEMMA NetworkKeepsData ==
    ASSUME WalletData, NetworkShape', SameOutputs, height' \in Nat, height <= height',
           UNCHANGED <<disk, given, seen, unsaved>>,
           mem' \in MemRecord, mem'.graph = mem.graph, mem'.tip = mem.tip,
           \A k \in Keychains : mem.revealed[k] <= mem'.revealed[k],
           Unscanned(mem'),
           \A spk \in mem'.used : spk[1] = "Internal",
           \A t \in Known' \ Known :
              /\ txs'[t].inputs = {} => txs'[t].spk # None /\ txs'[t].spk[1] = "External"
              /\ txs'[t].spk # None /\ txs'[t].spk[1] = "External" => txs'[t].spk \in given
              /\ \A coin \in txs'[t].inputs : coin \in mem.graph /\ txs[coin].spk # None
    PROVE  WalletData'
<1>1. /\ \A t \in Known : t \in Known' /\ txs'[t].inputs = txs[t].inputs /\ txs'[t].spk = txs[t].spk
      /\ mem.graph \subseteq Known /\ disk.graph \subseteq Known
  BY DEF SameOutputs, WalletData, DataInv, WalletShape
<1>2. WalletShape'
  <2>1. \A k \in Keychains : /\ disk.revealed[k] \in Nat /\ mem.revealed[k] \in Nat
                              /\ mem'.revealed[k] \in Nat
    BY WalletAssumption DEF WalletData, DataInv, WalletShape, MemRecord, DiskRecord, Indexes
  <2>2. disk.tip \in Nat /\ mem.tip \in Nat /\ height \in Nat
    BY DEF WalletData, DataInv, WalletShape, MemRecord, DiskRecord
  <2> QED BY <1>1, <2>1, <2>2 DEF WalletData, DataInv, WalletShape, GivenIsWatched
<1>3. ScanInv'
  <2>1. height \in Nat /\ height > 0 /\ height' > 0
    BY DEF WalletData, DataInv, WalletShape, ScanInv
  <2>2. \A t \in Known' :
           /\ txs'[t].inputs = {} => txs'[t].spk # None /\ txs'[t].spk[1] = "External"
           /\ txs'[t].spk # None /\ txs'[t].spk[1] = "External" => txs'[t].spk \in given'
    BY <1>1 DEF WalletData, ScanInv
  <2>3. \A spk \in seen' : \E t \in disk'.graph : txs'[t].spk = spk
    <3>1. \A t \in disk.graph : txs'[t].spk = txs[t].spk
      BY <1>1
    <3> QED BY <3>1 DEF WalletData, ScanInv
  <2>4. Unscanned(disk') /\ Unscanned(mem')
    BY DEF WalletData, ScanInv, Unscanned
  <2> QED BY <2>1, <2>2, <2>3, <2>4 DEF ScanInv
<1>4. CoinsKnown => CoinsKnown'
  <2> SUFFICES ASSUME CoinsKnown PROVE CoinsKnown'
    OBVIOUS
  <2>1. /\ mem.tip = disk.tip /\ mem.graph = disk.graph
        /\ \A t \in Known, coin \in Nat :
              coin \in txs[t].inputs => coin \in disk.graph /\ txs[coin].spk # None
    BY DEF CoinsKnown
  <2>2. \A t \in Known', coin \in Nat :
           coin \in txs'[t].inputs => coin \in disk.graph /\ txs[coin].spk # None
    BY <1>1, <2>1
  <2> QED BY <1>1, <2>1, <2>2 DEF CoinsKnown
<1>5. SavedInv'
  BY <1>4 DEF WalletData, SavedInv
<1> QED BY <1>2, <1>3, <1>5 DEF WalletData, DataInv

LEMMA MemoryType ==
    ASSUME WalletData
    PROVE  /\ NetworkShape /\ mem \in MemRecord /\ height \in Nat /\ given \subseteq Spks
           /\ \A k \in Keychains : mem.revealed[k] \in Nat /\ mem.revealed[k] <= mem.revealed[k]
           /\ Unscanned(mem) /\ \A spk \in mem.used : spk[1] = "Internal"
BY WalletAssumption DEF WalletData, DataInv, WalletShape, MemRecord, Indexes, ScanInv

LEMMA DepositKeepsData ==
    ASSUME WalletData, Deposit
    PROVE  WalletData'
<1>1. PICK spk \in given : spk[1] = "External" /\ NetworkShape' /\ Extended({}, spk)
  BY MemoryType, DepositExtends
<1>2. UNCHANGED <<height, mem, disk, given, seen, unsaved>>
  BY DEF Deposit
<1>3. spk # None
  BY NoneAssumption, MemoryType
<1>4. SameOutputs /\ \A t \in Known' \ Known : txs'[t].inputs = {} /\ txs'[t].spk = spk
  BY <1>1 DEF Extended
<1>5. /\ mem' \in MemRecord /\ Unscanned(mem') /\ height' \in Nat /\ height <= height'
      /\ \A s \in mem'.used : s[1] = "Internal"
      /\ \A k \in Keychains : mem.revealed[k] <= mem'.revealed[k]
  BY <1>2, MemoryType DEF Unscanned
<1> QED BY <1>1, <1>2, <1>3, <1>4, <1>5, NetworkKeepsData

LEMMA BlocksKeepData ==
    ASSUME WalletData, MineBlock \/ ReplaceBlock
    PROVE  WalletData'
<1>1. /\ NetworkShape' /\ SameOutputs /\ Known' = Known /\ height' \in Nat /\ height <= height'
  BY MemoryType, BlocksExtend
<1>2. UNCHANGED <<mem, disk, given, seen, unsaved>>
  BY DEF MineBlock, ReplaceBlock
<1> QED BY <1>1, <1>2, MemoryType, NetworkKeepsData DEF Unscanned

\* Coins the wallet can spend are in its graph and pay it.
LEMMA SendAllKeepsData ==
    ASSUME WalletData, SendAll
    PROVE  WalletData'
<1>1. UNCHANGED <<height, mem, disk, given, seen, unsaved>> /\ Unspent # {}
  BY DEF SendAll
<1>2. CASE UNCHANGED txs
  BY <1>1, <1>2, IdleKeepsData
<1>3. CASE CanPublish(Unspent) /\ Publish(Unspent, None)
  <2>1. NetworkShape' /\ Extended(Unspent, None)
    BY <1>3, MemoryType, PublishExtends
  <2>2. \A coin \in Unspent : coin \in mem.graph /\ txs[coin].spk # None
    BY DEF Unspent
  <2> QED BY <1>1, <2>1, <2>2, MemoryType, NetworkKeepsData DEF Extended, Unscanned
<1> QED BY <1>2, <1>3 DEF SendAll

LEMMA SendToAddressKeepsData ==
    ASSUME WalletData, SendToAddress
    PROVE  WalletData'
<1>1. PICK inputs \in (SUBSET Unspent) \ {{}} :
         LET spk == <<"Internal", NextUnused("Internal")>>
         IN  /\ spk \in Spks
             /\ mem' = [Revealing(mem, spk) EXCEPT !.used = @ \cup {spk}]
             /\ \/ CanPublish(inputs) /\ Publish(inputs, spk) /\ Answer(Ok)
                \/ UNCHANGED txs /\ Answer(Failed)
  BY DEF SendToAddress
<1>2. UNCHANGED <<height, disk, given, seen, unsaved>>
  BY DEF SendToAddress
<1> DEFINE spk == <<"Internal", NextUnused("Internal")>>
           m == Revealing(mem, spk)
<1>3. "Internal" \in Keychains /\ spk[1] = "Internal" /\ spk \in Spks
  BY <1>1 DEF Keychains
<1>4. Unscanned(m)
  BY <1>3, RevealingUnscanned
<1>5. /\ m \in MemRecord /\ m = [mem EXCEPT !.revealed = m.revealed]
      /\ \A k \in Keychains : mem.revealed[k] <= m.revealed[k]
  BY <1>3, MemoryType, RevealingIndex
<1>6. mem' = [m EXCEPT !.used = m.used \cup {spk}]
  BY <1>1
<1> HIDE DEF spk, m
<1>7. /\ mem' \in MemRecord /\ mem'.graph = mem.graph /\ mem'.tip = mem.tip
      /\ mem'.revealed = m.revealed /\ mem'.used = mem.used \cup {spk} /\ m.tip = mem.tip
      /\ m.graph = mem.graph
  BY <1>3, <1>5, <1>6, MemoryType DEF MemRecord
<1>8. Unscanned(mem') /\ \A s \in mem'.used : s[1] = "Internal"
  BY <1>3, <1>4, <1>7, MemoryType DEF Unscanned
<1>9. CASE CanPublish(inputs) /\ Publish(inputs, spk)
  <2>1. NetworkShape' /\ Extended(inputs, spk)
    BY <1>3, <1>9, MemoryType, PublishExtends
  <2>2. \A coin \in inputs : coin \in mem.graph /\ txs[coin].spk # None
    BY DEF Unspent
  <2>3. inputs # {} /\ spk[1] # "External"
    BY <1>3
  <2> QED BY <1>2, <1>5, <1>7, <1>8, <2>1, <2>2, <2>3, MemoryType, NetworkKeepsData DEF Extended
<1>10. CASE UNCHANGED txs
  <2>1. NetworkShape' /\ SameOutputs /\ Known' = Known
    BY <1>10, MemoryType DEF NetworkShape, SameOutputs, Known, Live
  <2> QED BY <1>2, <1>5, <1>7, <1>8, <2>1, MemoryType, NetworkKeepsData
<1> QED BY <1>1, <1>9, <1>10 DEF spk

\* sync, whether or not its result could be written.
LEMMA SyncKeepsData ==
    ASSUME WalletData, SyncNewTip
    PROVE  WalletData'
<1> DEFINE m == Updated(Requested)
<1>1. /\ mem' = m /\ txs' = txs /\ height' = height /\ given' = given
      /\ \/ /\ disk' = Saved(m) /\ unsaved' = unsaved
            /\ seen' = seen \cup {txs[t].spk : t \in m.graph}
         \/ disk' = disk /\ unsaved' = TRUE /\ seen' = seen
  BY DEF SyncNewTip, Persist, WriteFails
<1>2. /\ m \in MemRecord /\ mem.graph \subseteq m.graph /\ m.graph \subseteq Known
      /\ m.tip = height /\ m.used = mem.used
      /\ \A k \in Keychains : mem.revealed[k] <= m.revealed[k]
  <2>1. DataInv /\ mem.graph \subseteq Known
    BY DEF WalletData, DataInv, WalletShape
  <2>2. Found(Requested) \subseteq Known
    BY DEF Found, Live
  <2> QED BY <2>1, <2>2, UpdatedWallet
<1> HIDE DEF m
<1>3. /\ Saved(m) = [revealed |-> m.revealed, graph |-> m.graph, evicted |-> m.evicted, tip |-> m.tip]
      /\ Saved(m) \in DiskRecord
  BY <1>2 DEF Saved, MemRecord, DiskRecord
<1>4. NetworkShape' /\ Known' = Known
  BY <1>1 DEF WalletData, DataInv, NetworkShape, Known
<1>5. /\ mem \in MemRecord /\ disk \in DiskRecord /\ height \in Nat /\ height > 0
      /\ \A k \in Keychains : /\ mem.revealed[k] \in Nat /\ disk.revealed[k] \in Nat
                              /\ m.revealed[k] \in Nat /\ disk.revealed[k] <= m.revealed[k]
      /\ disk.tip <= height /\ disk.graph \subseteq m.graph
      /\ \A spk \in mem'.used : spk[1] = "Internal"
  <2>1. /\ mem \in MemRecord /\ disk \in DiskRecord /\ height \in Nat /\ height > 0
        /\ disk.graph \subseteq mem.graph /\ disk.tip <= mem.tip /\ mem.tip <= height
        /\ \A k \in Keychains : disk.revealed[k] <= mem.revealed[k]
        /\ \A spk \in mem.used : spk[1] = "Internal"
    BY DEF WalletData, DataInv, WalletShape, ScanInv
  <2>2. \A k \in Keychains : /\ mem.revealed[k] \in Nat /\ disk.revealed[k] \in Nat
                             /\ m.revealed[k] \in Nat
    BY <1>2, <2>1, WalletAssumption DEF MemRecord, DiskRecord, Indexes
  <2>3. disk.tip \in Nat /\ mem.tip \in Nat
    BY <2>1 DEF MemRecord, DiskRecord
  <2> QED BY <1>1, <1>2, <2>1, <2>2, <2>3
<1>6. CASE /\ disk' = Saved(m) /\ unsaved' = unsaved
           /\ seen' = seen \cup {txs[t].spk : t \in m.graph}
  <2>1. GivenIsWatched'
    <3> SUFFICES ASSUME NEW s \in given PROVE s[2] <= m.revealed[s[1]]
      BY <1>1, <1>3, <1>6 DEF GivenIsWatched
    <3>1. s[1] \in Keychains /\ s[2] \in Nat /\ s[2] <= disk.revealed[s[1]]
      BY DEF WalletData, DataInv, WalletShape, GivenIsWatched, Spks
    <3> QED BY <1>5, <3>1
  <2>2. \A k \in Keychains : disk'.revealed[k] <= mem'.revealed[k]
    BY <1>1, <1>3, <1>5, <1>6
  <2>3. WalletShape'
    BY <1>1, <1>2, <1>3, <1>4, <1>5, <1>6, <2>1, <2>2 DEF WalletData, DataInv, WalletShape
  <2>4. \A spk \in seen' : \E t \in disk'.graph : txs'[t].spk = spk
    BY <1>1, <1>3, <1>5, <1>6 DEF WalletData, ScanInv
  <2>5. ScanInv'
    BY <1>1, <1>2, <1>3, <1>4, <1>5, <1>6, <2>4 DEF WalletData, ScanInv, Unscanned
  <2>6. CoinsKnown => CoinsKnown'
    BY <1>1, <1>2, <1>3, <1>4, <1>5, <1>6 DEF CoinsKnown
  <2>7. SavedInv'
    BY <1>6, <2>6 DEF WalletData, SavedInv
  <2> QED BY <1>4, <2>3, <2>5, <2>7 DEF WalletData, DataInv
<1>7. CASE disk' = disk /\ unsaved' = TRUE /\ seen' = seen
  <2>1. WalletShape'
    BY <1>1, <1>2, <1>4, <1>5, <1>7 DEF WalletData, DataInv, WalletShape, GivenIsWatched
  <2>2. ScanInv'
    BY <1>1, <1>2, <1>4, <1>5, <1>7 DEF WalletData, ScanInv, Unscanned
  <2>3. SavedInv'
    BY <1>7 DEF SavedInv
  <2> QED BY <1>4, <2>1, <2>2, <2>3 DEF WalletData, DataInv
<1> QED BY <1>1, <1>6, <1>7

\* DlcDevKitWallet::new after a crash.
LEMMA RestartKeepsData ==
    ASSUME WalletData, Restart
    PROVE  WalletData'
<1>1. /\ mem' = [revealed |-> disk.revealed, used |-> {}, graph |-> disk.graph,
                 evicted |-> disk.evicted, tip |-> disk.tip]
      /\ UNCHANGED <<txs, height, disk, given, seen, unsaved>>
  BY DEF Restart
<1>2. NetworkShape' /\ Known' = Known
  BY <1>1 DEF WalletData, DataInv, NetworkShape, Known
<1>3. mem' \in MemRecord
  BY <1>1 DEF WalletData, DataInv, WalletShape, DiskRecord, MemRecord
<1>4. WalletShape'
  <2>1. disk.tip <= height /\ \A k \in Keychains : disk.revealed[k] <= disk.revealed[k]
    BY WalletAssumption DEF WalletData, DataInv, WalletShape, DiskRecord, MemRecord, Indexes
  <2> QED BY <1>1, <1>2, <1>3, <2>1
          DEF WalletData, DataInv, WalletShape, GivenIsWatched, DiskRecord
<1>5. ScanInv'
  BY <1>1, <1>2 DEF WalletData, ScanInv, Unscanned
<1>6. CoinsKnown => CoinsKnown'
  BY <1>1, <1>2 DEF CoinsKnown
<1>7. SavedInv'
  BY <1>1, <1>6 DEF WalletData, SavedInv
<1> QED BY <1>2, <1>4, <1>5, <1>7 DEF WalletData, DataInv

-----------------------------------------------------------------------------
(* The inductive invariant.                                                *)

\* Commands that read, sign or fail touch nothing but the channel.
LEMMA OthersAreIdle ==
    ASSUME \/ \E c \in Clients, what \in Commands : Request(c, what)
           \/ SyncSkipsKnownTip \/ SyncFails \/ SendFails \/ Read
           \/ SignPsbtInput \/ SignPsbtInputPanics
    PROVE  UNCHANGED <<txs, height, mem, disk, given, seen, unsaved>>
BY DEF Request, SyncSkipsKnownTip, SyncFails, SendFails, Read, SignPsbtInput, SignPsbtInputPanics

LEMMA NextKeepsData == WalletData /\ [Next]_vars => WalletData'
<1> SUFFICES ASSUME WalletData, [Next]_vars PROVE WalletData'
  OBVIOUS
<1>1. CASE \/ \E c \in Clients, what \in Commands : Request(c, what)
           \/ SyncSkipsKnownTip \/ SyncFails \/ SendFails \/ Read
           \/ SignPsbtInput \/ SignPsbtInputPanics
  BY <1>1, OthersAreIdle, IdleKeepsData
<1>2. CASE SyncNewTip
  BY <1>2, SyncKeepsData
<1>3. CASE NewExternalAddress \/ NewChangeAddress
  BY <1>3, NewAddressKeepsData DEF NewExternalAddress, NewChangeAddress, Keychains
<1>4. CASE SendToAddress
  BY <1>4, SendToAddressKeepsData
<1>5. CASE SendAll
  BY <1>5, SendAllKeepsData
<1>6. CASE Deposit
  BY <1>6, DepositKeepsData
<1>7. CASE MineBlock \/ ReplaceBlock
  BY <1>7, BlocksKeepData
<1>8. CASE Restart
  BY <1>8, RestartKeepsData
<1>9. CASE UNCHANGED vars
  BY <1>9, IdleKeepsData DEF vars
<1> QED BY <1>1, <1>2, <1>3, <1>4, <1>5, <1>6, <1>7, <1>8, <1>9 DEF Next, Actor, Sync

\* A command is answered while the actor runs, and the answer is one of those
\* a caller can get.
LEMMA ActorAnswers ==
    ASSUME \/ Sync \/ SyncFails \/ NewExternalAddress \/ NewChangeAddress
           \/ SendToAddress \/ SendAll \/ SendFails \/ Read \/ SignPsbtInput
    PROVE  /\ alive' = alive
           /\ \E what \in Commands : Turn(what)
           /\ \E answer \in Answers : Answer(answer)
<1>1. Ok \in Answers /\ Failed \in Answers
  BY DEF Answers
<1>2. CASE NewExternalAddress \/ NewChangeAddress
  BY <1>1, <1>2 DEF NewExternalAddress, NewChangeAddress, NewAddress, Answers, Commands
<1>3. CASE Sync \/ SyncFails
  BY <1>1, <1>3 DEF Sync, SyncSkipsKnownTip, SyncNewTip, SyncFails, Commands
<1>4. CASE SendToAddress \/ SendAll \/ SendFails
  BY <1>1, <1>4 DEF SendToAddress, SendAll, SendFails, Commands
<1>5. CASE Read \/ SignPsbtInput
  BY <1>1, <1>5 DEF Read, SignPsbtInput, Commands
<1> QED BY <1>2, <1>3, <1>4, <1>5

LEMMA NextKeepsQueue == QueueInv /\ [Next]_vars => QueueInv'
<1> SUFFICES ASSUME QueueInv, [Next]_vars PROVE QueueInv'
  OBVIOUS
<1>1. ASSUME NEW c \in Clients, NEW what \in Commands, Request(c, what)
      PROVE  QueueInv'
  BY <1>1, RequestKeepsQueue
<1>2. CASE \/ Sync \/ SyncFails \/ NewExternalAddress \/ NewChangeAddress
           \/ SendToAddress \/ SendAll \/ SendFails \/ Read \/ SignPsbtInput
  <2>1. PICK what \in Commands, answer \in Answers :
           alive' = alive /\ Turn(what) /\ Answer(answer)
    BY <1>2, ActorAnswers
  <2> QED BY <2>1, AnswerKeepsQueue
<1>3. CASE SignPsbtInputPanics
  <2>1. /\ queue' = <<>> /\ command' = [c \in Clients |-> None] /\ alive' = FALSE
        /\ reply' = [c \in Clients |-> IF command[c] # None THEN Failed ELSE reply[c]]
    BY <1>3 DEF SignPsbtInputPanics
  <2>2. reply' \in [Clients -> Answers \cup {None}]
    BY <2>1 DEF QueueInv, Answers
  <2> QED BY <2>1, <2>2, EmptyQueue
<1>4. CASE Restart
  BY <1>4, EmptyQueue DEF Restart
<1>5. CASE UNCHANGED <<alive, queue, command, reply>>
  BY <1>5 DEF QueueInv
<1>6. Deposit \/ MineBlock \/ ReplaceBlock \/ UNCHANGED vars
          => UNCHANGED <<alive, queue, command, reply>>
  BY DEF Deposit, MineBlock, ReplaceBlock, vars
<1> QED BY <1>1, <1>2, <1>3, <1>4, <1>5, <1>6 DEF Next, Actor

LEMMA WalletInvariant == Spec => [](WalletData /\ QueueInv)
<1>1. WalletData /\ QueueInv /\ [Next]_vars => (WalletData /\ QueueInv)'
  BY NextKeepsData, NextKeepsQueue
<1> QED BY <1>1, InitKeepsData, PTL DEF Spec

\* WalletInv: the wallet in memory is never behind its copy on disk, every
\* address a caller was given is covered by what is persisted, whatever
\* writes failed and wherever the process stopped, and every waiting caller
\* is in the actor's channel exactly once (new_external_address, persist).
THEOREM GivenAddressesAreWatched == Spec => []WalletInv
<1>1. WalletData /\ QueueInv => WalletInv
  <2> SUFFICES ASSUME WalletData, QueueInv PROVE WalletInv
    OBVIOUS
  <2>1. \A t \in Known : /\ txs[t].inputs \subseteq Known /\ txs[t].spk \in Spks \cup {None}
                         /\ txs[t].status \in {"mempool", "mined", "gone"} /\ txs[t].born \in Nat
    BY DEF WalletData, DataInv, NetworkShape, TxRecord, Status
  <2>2. \A k \in Keychains : disk.revealed[k] <= mem.revealed[k] /\ mem.revealed[k] <= MaxIndex
    BY WalletAssumption DEF WalletData, DataInv, WalletShape, MemRecord, Indexes
  <2>3. /\ mem.graph \subseteq Known /\ disk.graph \subseteq mem.graph
        /\ given \subseteq Spks /\ disk.tip <= mem.tip /\ mem.tip <= height /\ GivenIsWatched
    BY DEF WalletData, DataInv, WalletShape
  <2>4. /\ \A c \in Clients : (command[c] # None) = (c \in Range(queue))
        /\ IsInjective(queue) /\ (queue # <<>> => alive)
    BY DEF QueueInv
  <2> QED BY <2>1, <2>2, <2>3, <2>4 DEF WalletInv, TypeOK
<1> QED BY <1>1, WalletInvariant, PTL

-----------------------------------------------------------------------------
(* Payments to the wallet's change addresses may run ahead of what it has   *)
(* persisted: SendToAddress reveals the address in memory only.             *)

\* No payment is further ahead of the persisted index than the lookahead.
WithinLookahead ==
    \A t \in Known, k \in Keychains, i \in 1..MaxIndex :
        txs[t].spk = <<k, i>> => i <= disk.revealed[k] + Lookahead

\* What the wallet knows of was paid to addresses that it has revealed.
Covers(m) ==
    \A t \in m.graph, k \in Keychains, i \in 1..MaxIndex :
        txs[t].spk = <<k, i>> => i <= m.revealed[k]

RevealedInv == Covers(mem) /\ Covers(disk)

\* Steps that neither synchronise nor lose anything.
LEMMA GrowingKeepsCover ==
    ASSUME WalletData, NEW m \in MemRecord \cup DiskRecord, NEW n \in MemRecord \cup DiskRecord,
           SameOutputs, m.graph \subseteq Known, Covers(m), n.graph = m.graph,
           \A k \in Keychains : m.revealed[k] <= n.revealed[k]
    PROVE  \A t \in n.graph, k \in Keychains, i \in 1..MaxIndex :
               txs'[t].spk = <<k, i>> => i <= n.revealed[k]
<1> SUFFICES ASSUME NEW t \in n.graph, NEW k \in Keychains, NEW i \in 1..MaxIndex,
                    txs'[t].spk = <<k, i>>
             PROVE  i <= n.revealed[k]
  OBVIOUS
<1>1. txs[t].spk = <<k, i>> /\ t \in m.graph
  BY DEF SameOutputs
<1>2. m.revealed[k] \in Nat /\ n.revealed[k] \in Nat /\ i \in Nat
  BY WalletAssumption DEF MemRecord, DiskRecord, Indexes
<1>3. i <= m.revealed[k] /\ m.revealed[k] <= n.revealed[k]
  BY <1>1 DEF Covers
<1> QED BY <1>2, <1>3

\* Every step but a sync extends the network, reveals addresses, and writes
\* what is in memory or goes back to what is on disk.
LEMMA StepReveals ==
    ASSUME WalletData, [Next]_vars, ~SyncNewTip
    PROVE  /\ SameOutputs /\ \A t \in Known' \ Known : txs'[t].born = height
           /\ \/ /\ mem'.graph = mem.graph
                 /\ \A k \in Keychains : mem.revealed[k] <= mem'.revealed[k]
              \/ mem'.graph = disk.graph /\ mem'.revealed = disk.revealed
           /\ \/ disk'.graph = disk.graph /\ disk'.revealed = disk.revealed
              \/ /\ disk'.graph = mem'.graph /\ disk'.revealed = mem'.revealed
                 /\ mem'.graph = mem.graph
                 /\ \A k \in Keychains : mem.revealed[k] <= mem'.revealed[k]
<1>1. /\ NetworkShape /\ mem \in MemRecord /\ height \in Nat /\ given \subseteq Spks
      /\ \A k \in Keychains : mem.revealed[k] <= mem.revealed[k]
  BY MemoryType
<1> DEFINE NewBorn == \A t \in Known' \ Known : txs'[t].born = height
<1>2. txs' = txs => SameOutputs /\ NewBorn
  BY DEF SameOutputs, Known, Live
<1>3. ASSUME NEW spk \in Spks
      PROVE  /\ Revealing(mem, spk).graph = mem.graph
             /\ \A k \in Keychains : mem.revealed[k] <= Revealing(mem, spk).revealed[k]
  <2>1. Revealing(mem, spk) = [mem EXCEPT !.revealed = Revealing(mem, spk).revealed]
    BY <1>1, RevealingIndex
  <2>2. [mem EXCEPT !.revealed = Revealing(mem, spk).revealed].graph = mem.graph
    BY <1>1 DEF MemRecord
  <2> QED BY <1>1, <2>1, <2>2, RevealingIndex
<1>4. CASE UNCHANGED <<mem, disk>> /\ SameOutputs /\ NewBorn
  BY <1>1, <1>4
<1>5. CASE \/ \E c \in Clients, what \in Commands : Request(c, what)
           \/ SyncSkipsKnownTip \/ SyncFails \/ SendFails \/ Read
           \/ SignPsbtInput \/ SignPsbtInputPanics \/ UNCHANGED vars
  BY <1>2, <1>4, <1>5, OthersAreIdle DEF vars
<1>6. CASE Deposit \/ MineBlock \/ ReplaceBlock \/ SendAll
  <2>1. UNCHANGED <<mem, disk>>
    BY <1>6 DEF Deposit, MineBlock, ReplaceBlock, SendAll
  <2>2. CASE Deposit
    BY <1>1, <1>4, <2>1, <2>2, DepositExtends DEF Extended
  <2>3. CASE MineBlock \/ ReplaceBlock
    BY <1>1, <1>4, <2>1, <2>3, BlocksExtend
  <2>4. CASE SendAll
    BY <1>1, <1>2, <1>4, <2>1, <2>4, PublishExtends DEF SendAll, Extended
  <2> QED BY <1>6, <2>2, <2>3, <2>4
<1>7. ASSUME NEW j \in Keychains, NewAddress(j)
      PROVE  /\ txs' = txs /\ mem'.graph = mem.graph
             /\ \A k \in Keychains : mem.revealed[k] <= mem'.revealed[k]
             /\ \/ disk' = disk
                \/ disk'.graph = mem'.graph /\ disk'.revealed = mem'.revealed
  <2> DEFINE spk == <<j, NextUnused(j)>>
             m == Revealing(mem, spk)
  <2>1. spk \in Spks /\ mem' = m /\ txs' = txs /\ (disk' = Saved(m) \/ disk' = disk)
    BY <1>7 DEF NewAddress, Persist, WriteFails
  <2>2. disk' = Saved(mem') \/ disk' = disk
    BY <2>1
  <2> QED BY <1>3, <2>1, <2>2 DEF Saved
<1>8. CASE NewExternalAddress \/ NewChangeAddress
  <2>1. \E j \in Keychains : NewAddress(j)
    BY <1>8 DEF NewExternalAddress, NewChangeAddress, Keychains
  <2> QED BY <1>2, <1>7, <2>1
<1>9. CASE SendToAddress
  <2> DEFINE spk == <<"Internal", NextUnused("Internal")>>
  <2>1. PICK inputs \in (SUBSET Unspent) \ {{}} :
           /\ spk \in Spks
           /\ mem' = [Revealing(mem, spk) EXCEPT !.used = @ \cup {spk}]
           /\ \/ CanPublish(inputs) /\ Publish(inputs, spk)
              \/ UNCHANGED txs
    BY <1>9 DEF SendToAddress
  <2>2. disk' = disk
    BY <1>9 DEF SendToAddress
  <2>3. Revealing(mem, spk) \in MemRecord
    BY <1>1, <2>1, RevealingIndex
  <2>4. mem'.graph = mem.graph /\ \A k \in Keychains : mem.revealed[k] <= mem'.revealed[k]
    <3> HIDE DEF spk
    <3>1. mem'.graph = Revealing(mem, spk).graph /\ mem'.revealed = Revealing(mem, spk).revealed
      BY <2>1, <2>3 DEF MemRecord
    <3> QED BY <1>3, <2>1, <3>1
  <2>5. SameOutputs /\ NewBorn
    BY <1>1, <1>2, <2>1, PublishExtends DEF Extended
  <2> QED BY <2>2, <2>4, <2>5
<1>10. CASE Restart
  BY <1>2, <1>10 DEF Restart
<1> QED BY <1>5, <1>6, <1>8, <1>9, <1>10 DEF Next, Actor, Sync

\* Only a sync, and a restart, move the tip.
LEMMA StepKeepsTip ==
    ASSUME WalletData, [Next]_vars, ~SyncNewTip, mem.tip = disk.tip
    PROVE  mem'.tip = mem.tip
<1>1. mem \in MemRecord
  BY MemoryType
<1>2. ASSUME NEW spk \in Spks
      PROVE  Revealing(mem, spk) \in MemRecord /\ Revealing(mem, spk).tip = mem.tip
  <2>1. /\ Revealing(mem, spk) = [mem EXCEPT !.revealed = Revealing(mem, spk).revealed]
        /\ Revealing(mem, spk) \in MemRecord
    BY <1>1, RevealingIndex
  <2>2. [mem EXCEPT !.revealed = Revealing(mem, spk).revealed].tip = mem.tip
    BY <1>1 DEF MemRecord
  <2> QED BY <2>1, <2>2
<1>3. CASE \/ \E c \in Clients, what \in Commands : Request(c, what)
           \/ SyncSkipsKnownTip \/ SyncFails \/ SendFails \/ Read
           \/ SignPsbtInput \/ SignPsbtInputPanics
  BY <1>3, OthersAreIdle
<1>4. CASE Deposit \/ MineBlock \/ ReplaceBlock \/ SendAll \/ UNCHANGED vars
  BY <1>4 DEF Deposit, MineBlock, ReplaceBlock, SendAll, vars
<1>5. CASE NewExternalAddress \/ NewChangeAddress
  <2>1. PICK k \in Keychains : NewAddress(k)
    BY <1>5 DEF NewExternalAddress, NewChangeAddress, Keychains
  <2>2. <<k, NextUnused(k)>> \in Spks /\ mem' = Revealing(mem, <<k, NextUnused(k)>>)
    BY <2>1 DEF NewAddress
  <2> QED BY <1>2, <2>2
<1>6. CASE SendToAddress
  <2> DEFINE spk == <<"Internal", NextUnused("Internal")>>
  <2>1. spk \in Spks /\ mem' = [Revealing(mem, spk) EXCEPT !.used = @ \cup {spk}]
    BY <1>6 DEF SendToAddress
  <2> HIDE DEF spk
  <2> QED BY <1>2, <2>1 DEF MemRecord
<1>7. CASE Restart
  BY <1>7 DEF Restart
<1> QED BY <1>3, <1>4, <1>5, <1>6, <1>7 DEF Next, Actor, Sync

LEMMA NextKeepsRevealed ==
    ASSUME WalletData, WalletData', RevealedInv, WithinLookahead, [Next]_vars
    PROVE  RevealedInv'
<1>1. /\ mem \in MemRecord /\ disk \in DiskRecord /\ mem' \in MemRecord /\ disk' \in DiskRecord
      /\ mem.graph \subseteq Known /\ disk.graph \subseteq Known
      /\ \A k \in Keychains : /\ disk.revealed[k] \in Nat /\ mem.revealed[k] \in Nat
                              /\ mem'.revealed[k] \in Nat
                              /\ disk.revealed[k] <= disk.revealed[k]
                              /\ disk.revealed[k] <= mem.revealed[k]
  BY WalletAssumption DEF WalletData, DataInv, WalletShape, MemRecord, DiskRecord, Indexes
<1>2. CASE SyncNewTip
  <2> DEFINE m == Updated(Requested)
  <2>1. txs' = txs /\ mem' = m /\ (disk' = Saved(m) \/ disk' = disk)
    BY <1>2 DEF SyncNewTip, Persist, WriteFails
  <2>2. /\ m.graph = mem.graph \cup Found(Requested)
        /\ \A k \in Keychains : mem.revealed[k] <= m.revealed[k]
        /\ \A k \in Keychains, i \in 1..MaxIndex, t \in Found(Requested) :
              txs[t].spk = <<k, i>> /\ i <= mem.revealed[k] + Lookahead => i <= m.revealed[k]
    BY UpdatedWallet DEF WalletData
  <2> HIDE DEF m
  <2>3. Covers(m)
    <3> SUFFICES ASSUME NEW t \in m.graph, NEW k \in Keychains, NEW i \in 1..MaxIndex,
                        txs[t].spk = <<k, i>>
                 PROVE  i <= m.revealed[k]
      BY DEF Covers
    <3>0. i \in Nat /\ Lookahead \in Nat /\ m.revealed[k] \in Nat
      BY <1>1, <2>1, WalletAssumption
    <3>1. CASE t \in mem.graph
      <4>1. i <= mem.revealed[k]
        BY <3>1 DEF RevealedInv, Covers
      <4> QED BY <1>1, <2>2, <3>0, <4>1
    <3>2. CASE t \in Found(Requested)
      <4>1. t \in Known
        BY <3>2 DEF Found, Live
      <4>2. i <= disk.revealed[k] + Lookahead
        BY <4>1 DEF WithinLookahead
      <4>3. i <= mem.revealed[k] + Lookahead
        BY <1>1, <3>0, <4>2
      <4> QED BY <2>2, <3>2, <4>3
    <3> QED BY <2>2, <3>1, <3>2
  <2>4. Covers(mem)'
    BY <2>1, <2>3 DEF Covers
  <2>5. Covers(disk)'
    BY <2>1, <2>3 DEF Covers, Saved, RevealedInv
  <2> QED BY <2>4, <2>5 DEF RevealedInv
<1>3. CASE ~SyncNewTip
  <2>1. /\ SameOutputs
        /\ \/ /\ mem'.graph = mem.graph
              /\ \A k \in Keychains : mem.revealed[k] <= mem'.revealed[k]
           \/ mem'.graph = disk.graph /\ mem'.revealed = disk.revealed
        /\ \/ disk'.graph = disk.graph /\ disk'.revealed = disk.revealed
           \/ /\ disk'.graph = mem'.graph /\ disk'.revealed = mem'.revealed
              /\ mem'.graph = mem.graph
              /\ \A k \in Keychains : mem.revealed[k] <= mem'.revealed[k]
    BY <1>3, StepReveals
  <2>2. Covers(mem)'
    <3>1. CASE /\ mem'.graph = mem.graph
               /\ \A k \in Keychains : mem.revealed[k] <= mem'.revealed[k]
      BY <1>1, <2>1, <3>1, GrowingKeepsCover DEF Covers, RevealedInv
    <3>2. CASE mem'.graph = disk.graph /\ mem'.revealed = disk.revealed
      BY <1>1, <2>1, <3>2, GrowingKeepsCover DEF Covers, RevealedInv
    <3> QED BY <2>1, <3>1, <3>2
  <2>3. Covers(disk)'
    <3>1. CASE disk'.graph = disk.graph /\ disk'.revealed = disk.revealed
      BY <1>1, <2>1, <3>1, GrowingKeepsCover DEF Covers, RevealedInv
    <3>2. CASE disk'.graph = mem'.graph /\ disk'.revealed = mem'.revealed
      BY <2>2, <3>2 DEF Covers
    <3> QED BY <2>1, <3>1, <3>2
  <2> QED BY <2>2, <2>3 DEF RevealedInv
<1> QED BY <1>2, <1>3

LEMMA RevealedInvariant ==
    Spec /\ []WithinLookahead => [](WalletData /\ QueueInv /\ RevealedInv)
<1>1. Init => RevealedInv
  BY DEF Init, RevealedInv, Covers, Fresh
<1>2. WalletData /\ WalletData' /\ RevealedInv /\ WithinLookahead /\ [Next]_vars => RevealedInv'
  BY NextKeepsRevealed
<1> QED BY <1>1, <1>2, WalletInvariant, PTL DEF Spec

\* An address that is answered is the one NextUnused picked.
LEMMA AnswerIsNextUnused ==
    ASSUME QueueInv, [Next]_vars, NEW c \in Clients, reply'[c] # reply[c], reply'[c] \in Spks
    PROVE  \E k \in Keychains : NewAddress(k) /\ reply'[c] = <<k, NextUnused(k)>>
<1>1. None \notin Spks /\ Ok \notin Spks /\ Failed \notin Spks
  BY NoneAssumption, WalletAssumption DEF Ok, Failed, Spks
<1>2. ASSUME NEW answer, Answer(answer)
      PROVE  reply'[c] = answer
  BY <1>2 DEF Answer, QueueInv
<1>3. ASSUME Answer(Ok) \/ Answer(Failed)
      PROVE  FALSE
  BY <1>1, <1>2, <1>3
<1>4. ASSUME NEW d \in Clients, NEW what \in Commands, Request(d, what)
      PROVE  FALSE
  BY <1>1, <1>4 DEF Request, QueueInv
<1>5. CASE Deposit \/ MineBlock \/ ReplaceBlock \/ UNCHANGED vars
  BY <1>5 DEF Deposit, MineBlock, ReplaceBlock, vars
<1>6. CASE Restart \/ SignPsbtInputPanics
  BY <1>1, <1>6 DEF Restart, SignPsbtInputPanics
<1>7. CASE Sync \/ SyncFails
  BY <1>3, <1>7 DEF Sync, SyncSkipsKnownTip, SyncNewTip, SyncFails
<1>8. CASE SendToAddress \/ SendAll \/ SendFails
  BY <1>3, <1>8 DEF SendToAddress, SendAll, SendFails
<1>9. CASE Read \/ SignPsbtInput
  BY <1>3, <1>9 DEF Read, SignPsbtInput
<1>10. CASE NewExternalAddress \/ NewChangeAddress
  <2>1. PICK k \in Keychains : NewAddress(k)
    BY <1>10 DEF NewExternalAddress, NewChangeAddress, Keychains
  <2>2. Answer(<<k, NextUnused(k)>>)
    BY <1>3, <2>1 DEF NewAddress
  <2> QED BY <1>2, <2>1, <2>2
<1> QED BY <1>4, <1>5, <1>6, <1>7, <1>8, <1>9, <1>10 DEF Next, Actor

\* A payee that the wallet knows of and has revealed is not handed out.
LEMMA PaidIsNotNextUnused ==
    ASSUME WalletData, NEW k \in Keychains, NewAddress(k), NEW t \in mem.graph,
           txs[t].spk = <<k, NextUnused(k)>>, NextUnused(k) <= mem.revealed[k]
    PROVE  FALSE
<1>1. NextUnused(k) \in 1..MaxIndex
  BY DEF NewAddress, Spks
<1>2. NextUnused(k) \in Used(k)
  BY <1>1 DEF Used
<1>3. NextUnused(k) = mem.revealed[k] + 1
  BY <1>2, MemoryType, NextUnusedIsNew
<1> QED BY <1>3, MemoryType

\* NotReusedOnceSeen, of the addresses callers are paid at (new_external_address):
\* once a sync had seen a payment to one, it is never given out again, whatever
\* was lost in between.
THEOREM PaidAddressIsNotReused ==
    Spec => [][\A c \in Clients :
                  reply'[c] # reply[c] /\ reply'[c] \in Spks /\ reply'[c][1] = "External"
                      => reply'[c] \notin seen]_vars
<1>1. ASSUME WalletData, QueueInv, [Next]_vars, NEW c \in Clients,
             reply'[c] # reply[c], reply'[c] \in Spks, reply'[c][1] = "External",
             reply'[c] \in seen
      PROVE  FALSE
  <2>1. PICK k \in Keychains : NewAddress(k) /\ reply'[c] = <<k, NextUnused(k)>>
    BY <1>1, AnswerIsNextUnused
  <2>2. PICK t \in disk.graph : txs[t].spk = reply'[c]
    BY <1>1 DEF WalletData, ScanInv
  <2>3. t \in mem.graph /\ t \in Known /\ reply'[c] # None
    BY <1>1, NoneAssumption DEF WalletData, DataInv, WalletShape
  <2>4. txs[t].spk \in given
    BY <1>1, <2>2, <2>3 DEF WalletData, ScanInv
  <2>5. k = "External" /\ NextUnused(k) <= disk.revealed[k]
    BY <1>1, <2>1, <2>2, <2>4 DEF WalletData, DataInv, WalletShape, GivenIsWatched
  <2>6. /\ disk.revealed[k] \in Nat /\ mem.revealed[k] \in Nat /\ NextUnused(k) \in Nat
        /\ disk.revealed[k] <= mem.revealed[k]
    BY <1>1, <2>1, WalletAssumption, NextUnusedIsNew
    DEF WalletData, DataInv, WalletShape, MemRecord, DiskRecord, Indexes
  <2>7. NextUnused(k) <= mem.revealed[k]
    BY <2>5, <2>6
  <2> QED BY <1>1, <2>1, <2>2, <2>3, <2>7, PaidIsNotNextUnused
<1>2. WalletData /\ QueueInv /\ [Next]_vars =>
          [\A c \in Clients :
              reply'[c] # reply[c] /\ reply'[c] \in Spks /\ reply'[c][1] = "External"
                  => reply'[c] \notin seen]_vars
  BY <1>1
<1> QED BY <1>2, WalletInvariant, PTL DEF Spec

\* The same of change addresses, while payments stay within the lookahead.
THEOREM NoAddressIsReused == Spec /\ []WithinLookahead => NotReusedOnceSeen
<1>1. ASSUME WalletData, QueueInv, RevealedInv, [Next]_vars, NEW c \in Clients,
             reply'[c] # reply[c], reply'[c] \in Spks, reply'[c] \in seen
      PROVE  FALSE
  <2>1. PICK k \in Keychains : NewAddress(k) /\ reply'[c] = <<k, NextUnused(k)>>
    BY <1>1, AnswerIsNextUnused
  <2>2. PICK t \in disk.graph : txs[t].spk = reply'[c]
    BY <1>1 DEF WalletData, ScanInv
  <2>3. t \in mem.graph /\ NextUnused(k) \in 1..MaxIndex
    BY <1>1, <2>1 DEF WalletData, DataInv, WalletShape, Spks
  <2>4. NextUnused(k) <= mem.revealed[k]
    BY <1>1, <2>1, <2>2, <2>3 DEF RevealedInv, Covers
  <2> QED BY <1>1, <2>1, <2>2, <2>3, <2>4, PaidIsNotNextUnused
<1>2. WalletData /\ QueueInv /\ RevealedInv /\ [Next]_vars =>
          [\A c \in Clients : reply'[c] # reply[c] /\ reply'[c] \in Spks
                                 => reply'[c] \notin seen]_vars
  BY <1>1
<1> QED BY <1>2, RevealedInvariant, PTL DEF Spec, NotReusedOnceSeen

\* Every live transaction of the wallet lies on an address that a sync asks for.
LEMMA OwnIsRequested ==
    ASSUME WalletData, RevealedInv, CoinsKnown, NEW t \in Own
    PROVE  t \in Found(Requested)
<1>1. /\ t \in Live /\ t \in Known /\ txs[t] \in TxRecord /\ txs[t].inputs \subseteq Nat
      /\ MaxIndex \in Nat /\ MaxIndex > 0
      /\ \A k \in Keychains : disk.revealed[k] \in Nat /\ mem.revealed[k] \in Nat
                              /\ disk.revealed[k] <= mem.revealed[k]
  BY WalletAssumption
  DEF Own, Live, WalletData, DataInv, NetworkShape, WalletShape, TxRecord, MemRecord, DiskRecord, Indexes
\* A deposit pays an address that was given.
<1>2. txs[t].inputs = {} => /\ txs[t].spk \in Spks /\ txs[t].spk[1] = "External"
                            /\ txs[t].spk[2] <= mem.revealed["External"]
  <2> SUFFICES ASSUME txs[t].inputs = {}
               PROVE  /\ txs[t].spk \in Spks /\ txs[t].spk[1] = "External"
                      /\ txs[t].spk[2] <= mem.revealed["External"]
    OBVIOUS
  <2>1. txs[t].spk[1] = "External" /\ txs[t].spk \in given
    BY <1>1 DEF WalletData, ScanInv
  <2>2. txs[t].spk \in Spks /\ txs[t].spk[2] <= disk.revealed["External"]
    BY <2>1 DEF WalletData, DataInv, WalletShape, GivenIsWatched
  <2>3. txs[t].spk[2] \in Nat /\ "External" \in Keychains
    BY <1>1, <2>2 DEF Spks, Keychains
  <2> QED BY <1>1, <2>1, <2>2, <2>3
\* Any other one spends a coin of the wallet.
<1>3. ASSUME NEW coin \in txs[t].inputs
      PROVE  /\ coin \in disk.graph /\ coin \in mem.graph /\ txs[coin].spk \in Spks
             /\ txs[coin].spk[2] <= mem.revealed[txs[coin].spk[1]]
  <2>1. coin \in disk.graph /\ coin \in mem.graph /\ txs[coin].spk # None
    BY <1>1, <1>3 DEF CoinsKnown
  <2>2. coin \in Known /\ txs[coin].spk \in Spks
    BY <2>1 DEF WalletData, DataInv, NetworkShape, WalletShape, TxRecord
  <2>3. PICK k \in Keychains, i \in 1..MaxIndex : txs[coin].spk = <<k, i>>
    BY <2>2 DEF Spks
  <2>4. i <= mem.revealed[k]
    BY <2>1, <2>3 DEF RevealedInv, Covers
  <2> QED BY <2>1, <2>2, <2>3, <2>4
<1>4. CASE mem.tip = 0
  <2>1. disk.graph = {} /\ mem.revealed["External"] <= 1
    BY <1>4 DEF WalletData, ScanInv, Unscanned, CoinsKnown
  <2>2. txs[t].inputs = {}
    BY <1>3, <2>1
  <2>3. txs[t].spk \in Spks /\ txs[t].spk[1] = "External" /\ txs[t].spk[2] <= mem.revealed["External"]
    BY <1>2, <2>2
  <2>4. txs[t].spk[2] \in 1..MaxIndex /\ "External" \in Keychains
    BY <2>3 DEF Spks, Keychains
  <2>5. txs[t].spk[2] = 1
    BY <1>1, <2>1, <2>3, <2>4
  <2>6. txs[t].spk = <<"External", 1>>
    BY <2>3, <2>5 DEF Spks
  <2>7. <<"External", 1>> \in Scanned
    <3>1. 1..(1 - 1) = {} /\ 1 \in 1..MaxIndex
      BY <1>1
    <3>2. 1 \in {n \in 1..MaxIndex :
                   \A gap \in SUBSET (1..n-1) :
                      (gap # {} /\ gap = Min(gap)..Max(gap) /\ Cardinality(gap) >= StopGap)
                          => \E j \in gap : History(<<"External", j>>)}
      BY <3>1
    <3> QED BY <3>2 DEF Scanned
  <2> QED BY <1>1, <1>4, <2>6, <2>7 DEF Found, Touches, Requested
<1>5. CASE mem.tip # 0
  <2>1. Requested = Revealed(mem)
    BY <1>5 DEF Requested
  <2>2. CASE txs[t].inputs = {}
    <3>1. txs[t].spk \in Revealed(mem)
      BY <1>2, <2>2 DEF Revealed
    <3> QED BY <1>1, <2>1, <3>1 DEF Found, Touches
  <2>3. CASE txs[t].inputs # {}
    <3>1. PICK coin \in txs[t].inputs : TRUE
      BY <2>3
    <3>2. txs[coin].spk \in Revealed(mem)
      BY <1>3 DEF Revealed
    <3> QED BY <1>1, <2>1, <3>2 DEF Found, Touches
  <2> QED BY <2>2, <2>3
<1> QED BY <1>4, <1>5

\* What was published before the height that the wallet last looked at is in
\* the copy on disk.
OldKnown == ~unsaved => \A t \in Own : txs[t].born < disk.tip => t \in disk.graph

\* Only a sync may be left unsaved.
LEMMA StepKeepsSaved == [Next]_vars /\ ~SyncNewTip => unsaved' = unsaved
BY DEF Next, Actor, Sync, Request, SyncSkipsKnownTip, SyncFails, NewExternalAddress,
       NewChangeAddress, NewAddress, SendToAddress, SendAll, SendFails, Read, SignPsbtInput,
       SignPsbtInputPanics, Deposit, MineBlock, ReplaceBlock, Restart, vars

LEMMA NextKeepsOld ==
    ASSUME WalletData, WalletData', RevealedInv, OldKnown, [Next]_vars
    PROVE  OldKnown'
<1> SUFFICES ASSUME ~unsaved', NEW t \in Own', txs'[t].born < disk'.tip
             PROVE  t \in disk'.graph
  BY DEF OldKnown
<1>1. ~unsaved /\ CoinsKnown
  <2>1. CASE SyncNewTip
    BY <2>1 DEF SyncNewTip, WalletData, SavedInv
  <2>2. CASE ~SyncNewTip
    BY <2>2, StepKeepsSaved DEF WalletData, SavedInv
  <2> QED BY <2>1, <2>2
<1>2. CASE SyncNewTip
  <2>1. txs' = txs /\ disk' = Saved(Updated(Requested))
    BY <1>2 DEF SyncNewTip, Persist
  <2>2. t \in Own
    BY <2>1 DEF Own, Live, Known, Touches
  <2>3. t \in Updated(Requested).graph
    BY <1>1, <2>2, OwnIsRequested, UpdatedWallet DEF WalletData
  <2> QED BY <2>1, <2>3 DEF Saved
<1>3. CASE ~SyncNewTip
  <2>1. /\ SameOutputs /\ \A u \in Known' \ Known : txs'[u].born = height
        /\ disk.graph \subseteq disk'.graph
    BY <1>1, <1>3, StepReveals DEF CoinsKnown
  <2>2. disk'.tip = disk.tip /\ disk.tip <= height
    <3>1. mem'.tip = mem.tip /\ mem'.tip = disk'.tip /\ mem.tip = disk.tip
      BY <1>1, <1>3, StepKeepsTip DEF WalletData, SavedInv, CoinsKnown
    <3> QED BY <3>1 DEF WalletData, DataInv, WalletShape
  <2>3. t \in Live' /\ t \in Known' /\ disk.tip \in Nat /\ height \in Nat
    BY DEF Own, Live, WalletData, DataInv, WalletShape, DiskRecord
  <2>4. t \in Known
    BY <2>1, <2>2, <2>3
  <2>5. txs[t].inputs \subseteq Known /\ t \in Live
    BY <2>1, <2>3, <2>4 DEF SameOutputs, WalletData, DataInv, NetworkShape
  <2>6. t \in Own
    <3>1. Touches(t, Spks)'
      BY DEF Own
    <3>2. CASE txs'[t].spk \in Spks
      BY <2>1, <2>4, <2>5, <3>2 DEF SameOutputs, Own, Touches
    <3>3. ASSUME NEW coin \in txs'[t].inputs, txs'[coin].spk \in Spks PROVE t \in Own
      <4>1. coin \in txs[t].inputs /\ coin \in Known
        BY <2>1, <2>4, <2>5, <3>3 DEF SameOutputs
      <4> QED BY <2>1, <2>5, <3>3, <4>1 DEF SameOutputs, Own, Touches
    <3> QED BY <3>1, <3>2, <3>3 DEF Touches
  <2>7. txs[t].born < disk.tip
    BY <2>1, <2>2, <2>4 DEF SameOutputs
  <2> QED BY <1>1, <2>1, <2>6, <2>7 DEF OldKnown
<1> QED BY <1>2, <1>3

LEMMA OldInvariant ==
    Spec /\ []WithinLookahead => [](WalletData /\ QueueInv /\ RevealedInv /\ OldKnown)
<1>1. Init => OldKnown
  BY DEF Init, OldKnown, Own, Live, Known
<1>2. WalletData /\ WalletData' /\ RevealedInv /\ OldKnown /\ [Next]_vars => OldKnown'
  BY NextKeepsOld
<1> QED BY <1>1, <1>2, RevealedInvariant, PTL DEF Spec

\* A sync that succeeds saw the height it knew, or saved what it found.
LEMMA SuccessIsSync ==
    ASSUME QueueInv, [Next]_vars, SyncSucceeds
    PROVE  SyncSkipsKnownTip \/ (SyncNewTip /\ Persist(mem'))
<1>1. PICK c \in Clients : /\ queue # <<>> /\ c = Head(queue) /\ command[c] = "sync"
                           /\ command'[c] = None /\ reply'[c] = Ok
  BY DEF SyncSucceeds
<1>2. None # "sync" /\ Ok # None /\ Ok # Failed
  BY NoneAssumption DEF Commands, Ok, Failed
<1>3. \A what : Turn(what) => what = "sync"
  BY <1>1 DEF Turn
<1>4. ~Answer(Failed)
  BY <1>1, <1>2 DEF Answer, QueueInv
<1>5. ASSUME NEW d \in Clients, NEW what \in Commands, Request(d, what) PROVE FALSE
  <2>1. command[d] = None /\ d # c
    BY <1>1, <1>2, <1>5 DEF Request
  <2>2. command'[c] = command[c]
    BY <1>5, <2>1 DEF Request, QueueInv
  <2> QED BY <1>1, <1>2, <2>2
<1>6. ~Restart /\ ~(Deposit \/ MineBlock \/ ReplaceBlock \/ UNCHANGED vars)
  BY <1>1, <1>2 DEF Restart, Deposit, MineBlock, ReplaceBlock, vars
<1>7. ~(NewExternalAddress \/ NewChangeAddress \/ SendToAddress \/ SendAll \/ SendFails
          \/ Read \/ SignPsbtInput \/ SignPsbtInputPanics)
  BY <1>3 DEF NewExternalAddress, NewChangeAddress, SendToAddress, SendAll, SendFails, Read,
             SignPsbtInput, SignPsbtInputPanics
<1>8. ~SyncFails
  BY <1>4 DEF SyncFails
<1>9. SyncNewTip => Persist(mem')
  BY <1>4 DEF SyncNewTip
<1> QED BY <1>5, <1>6, <1>7, <1>8, <1>9 DEF Next, Actor, Sync

\* SyncFindsOwnCoins (sync): a sync that sees a new height and can persist it
\* covers every live transaction of the wallet, a change address that only a
\* payment had revealed and a crash lost included; one that skips the height
\* it knows still has all that was published before that height was reached.
THEOREM SyncFindsEveryCoin == Spec /\ []WithinLookahead => SyncFindsOwnCoins
<1>1. ASSUME WalletData, WalletData', QueueInv, RevealedInv, RevealedInv', OldKnown, [Next]_vars,
             SyncSucceeds, ~unsaved, NEW t \in Own, mem.tip # height \/ txs[t].born < height
      PROVE  Knows(t, mem', disk')
  <2>1. CoinsKnown /\ t \in Known /\ txs' = txs
    <3>1. txs' = txs
      BY <1>1, SuccessIsSync DEF SyncSkipsKnownTip, SyncNewTip
    <3> QED BY <1>1, <3>1 DEF WalletData, SavedInv, Own, Live
  <2>2. t \in mem'.graph /\ t \in disk'.graph
    <3>1. CASE SyncSkipsKnownTip
      <4>1. mem.tip = height /\ UNCHANGED <<mem, disk>>
        BY <3>1 DEF SyncSkipsKnownTip
      <4> QED BY <1>1, <2>1, <4>1 DEF OldKnown, CoinsKnown
    <3>2. CASE SyncNewTip /\ Persist(mem')
      <4>1. mem' = Updated(Requested) /\ disk' = Saved(mem')
        BY <3>2 DEF SyncNewTip, Persist
      <4>2. t \in Updated(Requested).graph
        BY <1>1, <2>1, OwnIsRequested, UpdatedWallet DEF WalletData
      <4> QED BY <4>1, <4>2 DEF Saved
    <3> QED BY <1>1, <3>1, <3>2, SuccessIsSync
  <2>3. ASSUME txs[t].spk # None
        PROVE  txs[t].spk[2] <= disk'.revealed[txs[t].spk[1]]
    <3>1. txs[t].spk \in Spks
      BY <1>1, <2>1, <2>3 DEF WalletData, DataInv, NetworkShape, TxRecord
    <3>2. PICK k \in Keychains, i \in 1..MaxIndex : txs[t].spk = <<k, i>>
      BY <3>1 DEF Spks
    <3>3. i <= disk'.revealed[k]
      BY <1>1, <2>1, <2>2, <3>2 DEF RevealedInv, Covers
    <3> QED BY <3>2, <3>3
  <2> QED BY <2>2, <2>3 DEF Knows
<1>2. WalletData /\ WalletData' /\ QueueInv /\ RevealedInv /\ RevealedInv' /\ OldKnown /\ [Next]_vars =>
          [SyncSucceeds /\ ~unsaved =>
             \A t \in Own : mem.tip # height \/ txs[t].born < height => Knows(t, mem', disk')]_vars
  BY <1>1
<1> QED BY <1>2, OldInvariant, PTL DEF Spec, SyncFindsOwnCoins

\* A wallet whose bound on addresses is the lookahead needs no hypothesis.
COROLLARY ShortWallet ==
    ASSUME MaxIndex <= Lookahead
    PROVE  Spec => NotReusedOnceSeen /\ SyncFindsOwnCoins
<1>1. WalletData => WithinLookahead
  <2> SUFFICES ASSUME WalletData, NEW k \in Keychains, NEW i \in 1..MaxIndex
               PROVE  i <= disk.revealed[k] + Lookahead
    BY DEF WithinLookahead
  <2>1. disk.revealed[k] \in Nat /\ Lookahead \in Nat /\ MaxIndex \in Nat /\ i \in Nat /\ i <= MaxIndex
    BY WalletAssumption DEF WalletData, DataInv, WalletShape, DiskRecord, Indexes
  <2> QED BY <2>1
<1> QED BY <1>1, WalletInvariant, NoAddressIsReused, SyncFindsEveryCoin, PTL

=============================================================================
