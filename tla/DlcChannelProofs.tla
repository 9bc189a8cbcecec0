-------------------------- MODULE DlcChannelProofs --------------------------
(***************************************************************************)
(* Proofs about DlcChannel, for every set of scenarios: whatever the two   *)
(* applications do, however often messages are lost, overtaken or repeated,*)
(* and however often a party crashes.                                      *)
(***************************************************************************)
EXTENDS DlcChannel, TLAPS

-----------------------------------------------------------------------------
(* The channel of one party.                                               *)

Opening == ChannelKind \ (ClosedKinds \union {"Signed"})
StableStates == {"Established", "Settled"}
Updating == (SettleStates \union RenewStates) \ {"RenewFinalized"}

TxKind(st) == IF st \in SettleStates \union {"Settled"} THEN "settle"
              ELSE IF st = "CollaborativeCloseOffered" THEN "close" ELSE "buffer"

Offers(s) == \/ s.st \in {"SettledOffered", "SettledConfirmed", "RenewConfirmed"}
             \/ s.st = "RenewOffered" /\ s.offer
Received(s) == s.st = "SettledReceived" \/ (s.st = "RenewOffered" /\ ~s.offer)
Accepts(s) == s.st \in {"SettledAccepted", "RenewAccepted", "RenewFinalized"}

\* The transaction of a state is one for the version the channel has, or for
\* the next one.
Fits(p, c, s) ==
    /\ s.st # "NoState" /\ s.tx \in Tx /\ s.tx.kind = TxKind(s.st)
    /\ s.st \in StableStates => Point(p, s.tx) = c.ver /\ Point(Other(p), s.tx) = c.ctr
    /\ Offers(s) => s.tx.by = p /\ s.tx.o = c.ver + 1
    /\ Received(s) => s.tx.by = Other(p)
    /\ Accepts(s) => s.tx.by = Other(p) /\ s.tx.a = c.ver + 1
    /\ s.st \in StableStates \union Updating => c.own = c.ver
    /\ s.st = "RenewFinalized" => c.own = c.ver + 1

\* The state that an update replaces, and that it is rolled back to.
Replaces(p, c) ==
    /\ c.rb.st \in StableStates /\ c.rb.tx \in Tx /\ c.rb.tx.kind = TxKind(c.rb.st)
    /\ Point(p, c.rb.tx) = c.ver
    /\ Point(Other(p), c.rb.tx) = IF c.s.st = "RenewFinalized" THEN c.prev ELSE c.ctr

StateInv(p) ==
    LET c == ch[p] IN
    c.kind = "Signed" =>
        /\ Fits(p, c, c.s)
        /\ c.s.st \in Updating \union {"RenewFinalized"} => Replaces(p, c)
        /\ c.s.st = "CollaborativeCloseOffered" => Fits(p, c, c.rb)

\* Offers come from the other party, what accepts them goes back to it, and a
\* secret in a message was given away by its sender.
MessageInv ==
    \A m \in msgs :
        /\ m.type \in {"SettleOffer", "RenewOffer"} => m.tx \in Tx /\ m.tx.by = Other(m.to) /\ m.tx.o # 0
        /\ m.type \in {"SettleAccept", "RenewAccept"} => m.tx \in Tx /\ m.tx.by = m.to
        /\ m.type \in {"SettleOffer", "SettleAccept"} => m.tx.kind = "settle"
        /\ m.type \in {"RenewOffer", "RenewAccept"} => m.tx.kind = "buffer"
        /\ m.type = "CollaborativeCloseOffer" => m.tx \in Tx /\ m.tx.kind = "close"
        /\ m.type \in Reveals => m \in revealed[Other(m.to)]

\* What applications do not do does not happen.
SettleMsgs == {"SettleOffer", "SettleAccept", "SettleConfirm", "SettleFinalize"}
UseInv ==
    /\ "collaborative" \notin scenario.ops =>
          /\ \A m \in msgs : m.type # "CollaborativeCloseOffer"
          /\ \A p \in Party : ~In(p, "CollaborativeCloseOffered")
    /\ "settle" \notin scenario.ops =>
          /\ \A m \in msgs : m.type \notin SettleMsgs
          /\ \A p \in Party : ch[p].s.st \notin SettleStates /\ ch[p].rb.st \notin SettleStates

\* The secret of the current version is out only in these states.
Exposing(c, x) ==
    \/ c.s.st \in {"RenewFinalized", "Closing"}
    \/ c.s.st = "SettledConfirmed" /\ x.type = "SettleConfirm"
    \/ /\ c.s.st = "CollaborativeCloseOffered"
       /\ c.rb.st \in {"SettledConfirmed", "RenewFinalized", "Closing", "CollaborativeCloseOffered"}
SecretInv(p) ==
    /\ ch[p].kind \in Opening => revealed[p] = {}
    /\ \A x \in revealed[p] :
          /\ x.sec <= ch[p].ver
          /\ ch[p].kind = "Signed" /\ x.sec = ch[p].ver => Exposing(ch[p], x)

\* The transactions a party watches as buffers, now or after a restart.
Buffers(m) == {w.tx : w \in {v \in m.txs : v.type = "BufferTx"}}
Watched(p) == Buffers(mon[p]) \union Buffers(disk[p])

\* Of the current version a party watches the transaction it has, and of
\* the next one that of RenewFinalized.
Current(c) == IF c.s.st \in StableStates THEN c.s.tx ELSE c.rb.tx
WatchInv(p) ==
    /\ ch[p].kind \in Opening => Watched(p) = {}
    /\ \A t \in Watched(p) :
        /\ t \in Tx /\ t.kind = "buffer"
        /\ ch[p].kind = "Signed" /\ ch[p].s.st \in StableStates \union Updating \union {"RenewFinalized"} =>
              \/ Point(p, t) < ch[p].ver
              \/ Point(p, t) = ch[p].ver /\ t = Current(ch[p])
              \/ ch[p].s.st = "RenewFinalized" /\ t = ch[p].s.tx

\* Where nothing is settled, the secrets of what a party watches as a buffer,
\* and closes the channel with, are not given away.
Hidden(p, t) == Point(p, t) \notin GivenAway(p)
HiddenInv(p) ==
    "settle" \notin scenario.ops =>
        /\ \A t \in Watched(p) : Hidden(p, t)
        /\ In(p, "Closing") => Hidden(p, ch[p].s.tx)
        /\ In(p, "CollaborativeCloseOffered") /\ ch[p].rb.st = "Closing" => Hidden(p, ch[p].rb.tx)

\* A party that never crashed has the point of what it watches as a buffer, and of
\* what it closes the channel with.
OwnPointInv(p) ==
    faults = 0 /\ ch[p].kind = "Signed" =>
        /\ \A t \in Watched(p) : Point(p, t) = ch[p].own
        /\ ch[p].s.st = "Closing" => Point(p, ch[p].s.tx) = ch[p].own

\* Who published a transaction without a crash is closing the channel, or has.
Gone(p) ==
    \/ ch[p].kind \in ClosedKinds
    \/ In(p, "Closing")
    \/ In(p, "CollaborativeCloseOffered") /\ ch[p].rb.st \in {"Closing", "CollaborativeCloseOffered"}
PublisherInv ==
    chain.tx # NoTx /\ chain.tx.kind # "close" /\ faults = 0 => Gone(chain.by) /\ NeverPublishRevoked

\* Alice signs before bob does, and bob before the funding transaction is sent.
Opened(p) == ch[p].kind \in ClosedKinds \union {"Signed"}
OpeningInv ==
    /\ \A m \in msgs : /\ m.type = "AcceptChannel" => m.to = "alice"
                       /\ m.type = "SignChannel" => m.to = "bob" /\ Opened("alice")
    /\ ch["alice"].kind # "Accepted"
    /\ chain.fund # "none" => Opened("alice") /\ (faults = 0 => Opened("bob"))

LocalInv ==
    /\ MessageInv /\ UseInv /\ OpeningInv
    /\ \A p \in Party : StateInv(p) /\ SecretInv(p) /\ WatchInv(p) /\ HiddenInv(p) /\ OwnPointInv(p)

-----------------------------------------------------------------------------
(* Lemmas about parties, transactions and monitors.                        *)

LEMMA Parties == /\ "alice" \in Party /\ "bob" \in Party
                 /\ \A p \in Party : Other(p) \in Party /\ Other(p) # p /\ Other(Other(p)) = p
  BY DEF Party, Other

\* The index one above the last is not one.
LEMMA Indices == Idx \subseteq Nat /\ TemporaryId \notin Idx
  BY ChannelAssumption DEF Idx, TemporaryId

LEMMA PointType ==
  ASSUME NEW p \in Party, NEW t \in Tx
  PROVE  Point(p, t) \in Idx
  BY DEF Point, Tx

\* The operators of the chain monitor, and what they do to the watched buffers.
NewWatch(t, type, i, b) == [tx |-> t, type |-> type, idx |-> i, offer |-> b, hit |-> FALSE]

LEMMA SetTxs ==
  ASSUME NEW m \in Monitor, NEW X
  PROVE  /\ [m EXCEPT !.txs = X].txs = X
         /\ [m EXCEPT !.txs = X].txos = m.txos
         /\ [m EXCEPT !.txs = X].done = m.done
         /\ X \subseteq Watch => [m EXCEPT !.txs = X] \in Monitor
  BY DEF Monitor

LEMMA SetBoth ==
  ASSUME NEW m \in Monitor, NEW X, NEW Y
  PROVE  /\ [m EXCEPT !.txs = X, !.txos = Y].txs = X
         /\ X \subseteq Watch /\ Y \subseteq WatchTxo => [m EXCEPT !.txs = X, !.txos = Y] \in Monitor
  BY DEF Monitor

LEMMA RemoveTx ==
  ASSUME NEW m \in Monitor, NEW t
  PROVE  /\ remove_tx(m, t) \in Monitor
         /\ remove_tx(m, t).txs = {w \in m.txs : w.tx # t}
         /\ remove_tx(m, t).txos = m.txos
<1> DEFINE X == {w \in m.txs : w.tx # t}
<1>1. remove_tx(m, t) = [m EXCEPT !.txs = X]
  BY DEF remove_tx
<1>2. X \subseteq m.txs /\ m.txs \subseteq Watch
  BY DEF Monitor
<1> HIDE DEF X
<1>3. /\ remove_tx(m, t) \in Monitor
      /\ remove_tx(m, t).txs = X /\ remove_tx(m, t).txos = m.txos
  BY <1>1, <1>2, SetTxs
<1> QED BY <1>3 DEF X

LEMMA AddRevoked ==
  ASSUME NEW m \in Monitor, NEW t, NEW i, NEW b
  PROVE  LET X == {w \in m.txs : w.tx # t} \union {NewWatch(t, "Revoked", i, b)}
         IN  /\ add_revoked(m, t, i, b).txs = X
             /\ X \subseteq Watch => add_revoked(m, t, i, b) \in Monitor
<1> DEFINE r == remove_tx(m, t)
           X == r.txs \union {NewWatch(t, "Revoked", i, b)}
<1>1. add_revoked(m, t, i, b) = [r EXCEPT !.txs = X]
  BY DEF add_revoked, NewWatch
<1>2. r \in Monitor /\ r.txs = {w \in m.txs : w.tx # t}
  BY RemoveTx
<1>3. X = {w \in m.txs : w.tx # t} \union {NewWatch(t, "Revoked", i, b)}
  BY <1>2
<1> HIDE DEF r, X
<1>4. [r EXCEPT !.txs = X].txs = X /\ (X \subseteq Watch => [r EXCEPT !.txs = X] \in Monitor)
  BY <1>2, SetTxs
<1> QED BY <1>1, <1>3, <1>4

LEMMA AddTx ==
  ASSUME NEW m \in Monitor, NEW t, NEW type
  PROVE  LET X == {w \in m.txs : w.tx # t} \union {NewWatch(t, type, 0, FALSE)}
         IN  /\ add_tx(m, t, type).txs = X
             /\ X \subseteq Watch /\ [tx |-> t, hit |-> FALSE] \in WatchTxo =>
                    add_tx(m, t, type) \in Monitor
<1> DEFINE r == remove_tx(m, t)
           X == r.txs \union {NewWatch(t, type, 0, FALSE)}
           Y == IF type = "BufferTx" THEN {w \in r.txos : w.tx # t} \union {[tx |-> t, hit |-> FALSE]}
                ELSE r.txos
<1>1. add_tx(m, t, type) = [r EXCEPT !.txs = X, !.txos = Y]
  BY DEF add_tx, NewWatch
<1>2. r \in Monitor /\ r.txs = {w \in m.txs : w.tx # t}
  BY RemoveTx
<1>3. X = {w \in m.txs : w.tx # t} \union {NewWatch(t, type, 0, FALSE)}
  BY <1>2
<1>4. [tx |-> t, hit |-> FALSE] \in WatchTxo => Y \subseteq WatchTxo
  BY <1>2 DEF Monitor
<1> HIDE DEF r, X, Y
<1>5. /\ [r EXCEPT !.txs = X, !.txos = Y].txs = X
      /\ X \subseteq Watch /\ Y \subseteq WatchTxo => [r EXCEPT !.txs = X, !.txos = Y] \in Monitor
  BY <1>2, SetBoth
<1> QED BY <1>1, <1>3, <1>4, <1>5

LEMMA MonitorTypes ==
  ASSUME NEW m \in Monitor, NEW t \in Tx, NEW i \in Idx, NEW b \in BOOLEAN, NEW type \in TxType
  PROVE  /\ remove_tx(m, t) \in Monitor /\ cleanup_channel(m) \in Monitor
         /\ add_revoked(m, t, i, b) \in Monitor /\ add_tx(m, t, type) \in Monitor
<1>1. 0 \in Idx
  BY ChannelAssumption DEF Idx
<1>2. NewWatch(t, "Revoked", i, b) \in Watch /\ NewWatch(t, type, 0, FALSE) \in Watch
  BY <1>1 DEF NewWatch, Watch, TxType
<1>3. [tx |-> t, hit |-> FALSE] \in WatchTxo
  BY DEF WatchTxo
<1>4. m.txs \subseteq Watch
  BY DEF Monitor
<1>5. remove_tx(m, t) \in Monitor
  BY RemoveTx
<1>6. cleanup_channel(m) \in Monitor
  BY SetBoth DEF cleanup_channel
<1>7. add_revoked(m, t, i, b) \in Monitor
  <2>1. {w \in m.txs : w.tx # t} \union {NewWatch(t, "Revoked", i, b)} \subseteq Watch
    BY <1>2, <1>4
  <2> QED BY <2>1, AddRevoked
<1>8. add_tx(m, t, type) \in Monitor
  <2>1. {w \in m.txs : w.tx # t} \union {NewWatch(t, type, 0, FALSE)} \subseteq Watch
    BY <1>2, <1>4
  <2> QED BY <1>3, <2>1, AddTx
<1> QED BY <1>5, <1>6, <1>7, <1>8

LEMMA BuffersDef ==
  ASSUME NEW m, NEW x
  PROVE  x \in Buffers(m) <=> \E w \in m.txs : w.type = "BufferTx" /\ w.tx = x
  BY DEF Buffers

LEMMA RemoveBuffers ==
  ASSUME NEW m \in Monitor, NEW t
  PROVE  /\ Buffers(remove_tx(m, t)) = Buffers(m) \ {t}
         /\ Buffers(cleanup_channel(m)) = {}
         /\ Buffers(process_block(m)) = Buffers(m)
<1>1. Buffers(remove_tx(m, t)) = Buffers(m) \ {t}
  <2>1. remove_tx(m, t).txs = {w \in m.txs : w.tx # t}
    BY RemoveTx
  <2> QED BY <2>1, BuffersDef
<1>2. Buffers(cleanup_channel(m)) = {}
  <2>1. cleanup_channel(m).txs = {}
    BY DEF cleanup_channel, Monitor
  <2> QED BY <2>1, BuffersDef
<1>3. Buffers(process_block(m)) = Buffers(m)
  <2> DEFINE seen(w) == [w EXCEPT !.hit = @ \/ (m.done < 1 /\ Blocks >= 1 /\ w.tx = chain.tx)]
  <2>1. process_block(m).txs = {seen(w) : w \in m.txs}
    BY DEF process_block
  <2>2. \A w \in m.txs : seen(w).type = w.type /\ seen(w).tx = w.tx
    <3>1. \A w \in Watch : \A h : [w EXCEPT !.hit = h].type = w.type /\ [w EXCEPT !.hit = h].tx = w.tx
      BY DEF Watch
    <3>2. m.txs \subseteq Watch
      BY DEF Monitor
    <3> QED BY <3>1, <3>2
  <2> HIDE DEF seen
  <2>3. ASSUME NEW x PROVE x \in Buffers(process_block(m)) <=> x \in Buffers(m)
    <3>1. x \in Buffers(process_block(m)) <=> \E w \in process_block(m).txs : w.type = "BufferTx" /\ w.tx = x
      BY BuffersDef
    <3>2. x \in Buffers(m) <=> \E w \in m.txs : w.type = "BufferTx" /\ w.tx = x
      BY BuffersDef
    <3> QED BY <2>1, <2>2, <3>1, <3>2
  <2> QED BY <2>3
<1> QED BY <1>1, <1>2, <1>3

LEMMA AddRevokedBuffer ==
  ASSUME NEW m \in Monitor, NEW t, NEW i, NEW b
  PROVE  Buffers(add_revoked(m, t, i, b)) = Buffers(m) \ {t}
  <1>1. NewWatch(t, "Revoked", i, b).type = "Revoked"
    BY DEF NewWatch
  <1>2. add_revoked(m, t, i, b).txs = {w \in m.txs : w.tx # t} \union {NewWatch(t, "Revoked", i, b)}
    BY AddRevoked
  <1> QED BY <1>1, <1>2, BuffersDef

LEMMA AddBuffers ==
  ASSUME NEW m \in Monitor, NEW t, NEW type \in TxType
  PROVE  /\ type # "BufferTx" => Buffers(add_tx(m, t, type)) = Buffers(m) \ {t}
         /\ type = "BufferTx" => Buffers(add_tx(m, t, type)) = Buffers(m) \union {t}
  <1>1. NewWatch(t, type, 0, FALSE).type = type /\ NewWatch(t, type, 0, FALSE).tx = t
    BY DEF NewWatch
  <1>2. add_tx(m, t, type).txs = {w \in m.txs : w.tx # t} \union {NewWatch(t, type, 0, FALSE)}
    BY AddTx
  <1>3. ASSUME NEW x
        PROVE  x \in Buffers(add_tx(m, t, type)) <=>
                  (x \in Buffers(m) /\ x # t) \/ (type = "BufferTx" /\ x = t)
    <2> DEFINE n == NewWatch(t, type, 0, FALSE)
               X == {w \in m.txs : w.tx # t}
    <2>1. x \in Buffers(add_tx(m, t, type)) <=>
              \E w \in add_tx(m, t, type).txs : w.type = "BufferTx" /\ w.tx = x
      BY BuffersDef
    <2>2. x \in Buffers(m) <=> \E w \in m.txs : w.type = "BufferTx" /\ w.tx = x
      BY BuffersDef
    <2>3. \A w : w \in X <=> w \in m.txs /\ w.tx # t
      OBVIOUS
    <2> HIDE DEF n, X
    <2>4. n.type = type /\ n.tx = t
      BY <1>1 DEF n
    <2>5. add_tx(m, t, type).txs = X \union {n}
      BY <1>2 DEF n, X
    <2>6. x \in Buffers(add_tx(m, t, type)) <=>
              (\E w \in X : w.type = "BufferTx" /\ w.tx = x) \/ (n.type = "BufferTx" /\ n.tx = x)
      BY <2>1, <2>5
    <2> QED BY <2>2, <2>3, <2>4, <2>6
  <1> QED BY <1>3

LEMMA AddBuffer ==
  ASSUME NEW m \in Monitor, NEW t
  PROVE  Buffers(add_tx(m, t, "BufferTx")) = Buffers(m) \union {t}
  BY AddBuffers DEF TxType

LEMMA AddOther ==
  ASSUME NEW m \in Monitor, NEW t, NEW type \in {"SettleTx", "CollaborativeClose"}
  PROVE  Buffers(add_tx(m, t, type)) = Buffers(m) \ {t}
  BY AddBuffers DEF TxType

-----------------------------------------------------------------------------
(***************************************************************************)
(* What a step does to the channels.  Every step of a party is a turn: it  *)
(* changes only its own channel, sends messages, and may watch new buffers.*)
(* A crash between two writes of a handler makes it a turn that sends      *)
(* nothing.                                                                *)
(***************************************************************************)
Turn(p, d, out, new) ==
    /\ ch' = [ch EXCEPT ![p] = d]
    /\ msgs' \subseteq msgs \union out
    /\ revealed' = [revealed EXCEPT ![p] = @ \union {x \in out : x.type \in Reveals}]
    /\ Watched(p)' \subseteq Watched(p) \union new
    /\ \A q \in Party \ {p} : Watched(q)' = Watched(q)
    /\ faults' \in {faults, faults + 1}

Types == TypeOK /\ scenario \in Scenarios

LEMMA Bounded ==
  ASSUME Types
  PROVE  /\ scenario.updates \in Nat /\ scenario.updates <= MaxUpdates
         /\ scenario.duplicates \in Nat /\ scenario.faults \in Nat
         /\ faults \in Nat /\ dups \in Nat
<1>1. /\ scenario.updates \in Nat /\ scenario.updates <= MaxUpdates
      /\ scenario.duplicates \in Nat /\ scenario.faults \in Nat
  BY ChannelAssumption DEF Bounds, Types
<1>2. faults \in 0..scenario.faults /\ dups \in 0..scenario.duplicates
  BY DEF Types, TypeOK
<1> QED BY <1>1, <1>2

LEMMA NothingSent == \A S : {x \in {} : x.type \in Reveals} = {} /\ S \union {} = S
  OBVIOUS

LEMMA FinishTurn ==
  ASSUME Types, NEW p \in Party, NEW c, NEW m, NEW l, NEW in, NEW out, NEW new,
         Finish(p, c, m, l, in, out), Buffers(m) \subseteq Watched(p) \union new
  PROVE  Turn(p, c, out, new) /\ faults' = faults
<1>1. /\ mon' = [mon EXCEPT ![p] = m] /\ disk' = disk /\ faults' = faults
      /\ ch' = [ch EXCEPT ![p] = c] /\ msgs' \subseteq msgs \union out
      /\ revealed' = [revealed EXCEPT ![p] = @ \union {x \in out : x.type \in Reveals}]
  BY DEF Finish, Upsert, Reply
<1>2. mon \in [Party -> Monitor]
  BY DEF Types, TypeOK
<1>3. mon'[p] = m /\ \A q \in Party \ {p} : mon'[q] = mon[q]
  BY <1>1, <1>2
<1>4. Watched(p)' \subseteq Watched(p) \union new /\ \A q \in Party \ {p} : Watched(q)' = Watched(q)
  BY <1>1, <1>3 DEF Watched
<1> QED BY <1>1, <1>4 DEF Turn

LEMMA FinishPersistTurn ==
  ASSUME Types, NEW p \in Party, NEW c, NEW m, NEW l, NEW lc, NEW in, NEW out, NEW new,
         FinishPersist(p, c, m, l, lc, in, out), Buffers(m) \subseteq Watched(p) \union new
  PROVE  \/ Turn(p, c, out, new) /\ Watched(p)' = Buffers(m) /\ faults' = faults
         \/ Turn(p, c, {}, new) /\ faults' = faults + 1
<1>0. mon \in [Party -> Monitor] /\ disk \in [Party -> Monitor]
  BY DEF Types, TypeOK
<1>1. CASE Upsert(p, c, m, l) /\ disk' = [disk EXCEPT ![p] = m] /\ Reply(p, in, out) /\ faults' = faults
  <2>1. /\ ch' = [ch EXCEPT ![p] = c] /\ msgs' \subseteq msgs \union out
        /\ mon' = [mon EXCEPT ![p] = m]
        /\ revealed' = [revealed EXCEPT ![p] = @ \union {x \in out : x.type \in Reveals}]
    BY <1>1 DEF Upsert, Reply
  <2>2. /\ mon'[p] = m /\ disk'[p] = m
        /\ \A q \in Party \ {p} : mon'[q] = mon[q] /\ disk'[q] = disk[q]
    BY <1>0, <1>1, <2>1
  <2>3. Watched(p)' = Buffers(m) /\ \A q \in Party \ {p} : Watched(q)' = Watched(q)
    BY <2>2 DEF Watched
  <2> QED BY <1>1, <2>1, <2>3 DEF Turn
<1>2. CASE Fault /\ Upsert(p, c, disk[p], lc) /\ Reply(p, in, {}) /\ disk' = disk
  <2>1. /\ ch' = [ch EXCEPT ![p] = c] /\ msgs' \subseteq msgs \union {}
        /\ mon' = [mon EXCEPT ![p] = disk[p]] /\ faults' = faults + 1
        /\ revealed' = [revealed EXCEPT ![p] = @ \union {x \in {} : x.type \in Reveals}]
    BY <1>2 DEF Upsert, Reply, Fault
  <2>2. mon'[p] = disk[p] /\ \A q \in Party \ {p} : mon'[q] = mon[q]
    BY <1>0, <2>1
  <2>3. Watched(p)' \subseteq Watched(p) \union new /\ \A q \in Party \ {p} : Watched(q)' = Watched(q)
    BY <1>2, <2>2 DEF Watched
  <2> QED BY <1>2, <2>1, <2>3 DEF Turn
<1> QED BY <1>1, <1>2 DEF FinishPersist

\* A party that comes back after a crash, in a state that was not changed.
LEMMA RestartTurn ==
  ASSUME Types, NEW p \in Party, Upsert(p, ch[p], disk[p], live'[p]), disk' = disk,
         msgs' \subseteq msgs, revealed' = revealed, faults' \in {faults, faults + 1}
  PROVE  Turn(p, ch[p], {}, {})
<1>0. mon \in [Party -> Monitor] /\ disk \in [Party -> Monitor] /\ revealed \in [Party -> SUBSET Msg]
  BY DEF Types, TypeOK
<1>1. ch' = [ch EXCEPT ![p] = ch[p]] /\ mon' = [mon EXCEPT ![p] = disk[p]]
  BY DEF Upsert
<1>2. revealed' = [revealed EXCEPT ![p] = @ \union {x \in {} : x.type \in Reveals}]
  BY <1>0, NothingSent
<1>3. mon'[p] = disk[p] /\ \A q \in Party \ {p} : mon'[q] = mon[q]
  BY <1>0, <1>1
<1>4. Watched(p)' \subseteq Watched(p) \union {} /\ \A q \in Party \ {p} : Watched(q)' = Watched(q)
  BY <1>3 DEF Watched
<1> QED BY <1>1, <1>2, <1>4 DEF Turn

-----------------------------------------------------------------------------
(* The turns of a party, each for the handlers that do the same to it.     *)

\* What stays on the chain: how far the funding transaction is, and what spends it.
Quiet == chain'.fund = chain.fund /\ chain'.tx = chain.tx /\ chain'.by = chain.by
Publish(p, t) == CanSpend(t) /\ chain' = Spent(p, t)

\* The channel stays as it is; what was published before a crash remains.
Idle(p, out) ==
    /\ \A m \in out : m.type = "Reject"
    /\ Turn(p, ch[p], out, {})
    /\ Quiet \/ (faults' # 0 /\ (chain'.fund # chain.fund => Opened("alice")))

Setup(p, k, out) ==
    /\ k \in Opening /\ ch[p].kind \in Opening /\ (p = "alice" => k # "Accepted")
    /\ \A m \in out : /\ m.type \in {"OfferChannel", "AcceptChannel", "Reject"}
                      /\ m.type = "AcceptChannel" => m.to = "alice"
    /\ Turn(p, OfKind(p, k), out, {}) /\ Quiet

Signs(offer) == [NoChannel EXCEPT !.kind = "Signed", !.s = WithContract("Established", FirstBuffer, offer)]
Open(p, d, out) ==
    /\ d = Signs(TRUE) \/ d = Signs(FALSE)
    /\ ch[p].kind \in Opening
    /\ \A m \in out : m.type = "SignChannel" /\ m.to = "bob" /\ p = "alice"
    /\ Turn(p, d, out, {FirstBuffer})
    /\ \/ p = "alice" /\ chain'.fund = chain.fund
       \/ p = "bob" /\ Opened("alice")
    /\ chain'.tx = chain.tx /\ chain'.by = chain.by

OfferOf(st) == IF st = "SettledOffered" THEN "SettleOffer" ELSE "RenewOffer"
AcceptOf(st) == IF st \in {"SettledAccepted", "SettledOffered"} THEN "SettleAccept" ELSE "RenewAccept"
Propose(p, s, out) ==
    /\ ch[p].kind = "Signed" /\ ch[p].s.st \in StableStates /\ ch[p].ver < MaxUpdates
    /\ s.st \in {"SettledOffered", "RenewOffered"} /\ (s.offer <=> s.st = "RenewOffered")
    /\ s.tx = Proposal(p, TxKind(s.st))
    /\ s.st = "SettledOffered" => "settle" \in scenario.ops
    /\ out = Out(OfferOf(s.st), p, s.tx, 0)
    /\ Turn(p, Swap(ch[p], s), out, {}) /\ Quiet

GetOffer(p, m, s) ==
    /\ m \in msgs
    /\ ch[p].kind = "Signed" /\ ch[p].s.st \in StableStates
    /\ m.to = p /\ s.tx = m.tx /\ ~s.offer
    /\ \/ m.type = "SettleOffer" /\ s.st = "SettledReceived"
       \/ m.type = "RenewOffer" /\ s.st = "RenewOffered"
    /\ Turn(p, Swap(ch[p], s), {}, {}) /\ Quiet

Withdraw(p, out) ==
    /\ ch[p].kind = "Signed" /\ ch[p].s.st \in {"SettledOffered", "SettledReceived", "RenewOffered"}
    /\ \A m \in out : m.type = "Reject"
    /\ Turn(p, RollBack(ch[p]), out, {}) /\ Quiet

Accept(p, s, out) ==
    /\ ch[p].kind = "Signed" /\ Received(ch[p].s) /\ ch[p].ver < MaxUpdates
    /\ s.st = IF ch[p].s.st = "SettledReceived" THEN "SettledAccepted" ELSE "RenewAccepted"
    /\ s.tx = Completed(p)
    /\ out = Out(AcceptOf(s.st), p, s.tx, 0)
    /\ Turn(p, [ch[p] EXCEPT !.s = s], out, {}) /\ Quiet

Confirm(p, m, s, out) ==
    /\ m \in msgs
    /\ ch[p].kind = "Signed" /\ Offers(ch[p].s) /\ m.to = p
    /\ s.tx = m.tx /\ m.tx.by = p /\ m.tx.o = ch[p].s.tx.o
    /\ \/ /\ ch[p].s.st = "SettledOffered" /\ m.type = "SettleAccept" /\ s.st = "SettledConfirmed"
          /\ out = Out("SettleConfirm", p, m.tx, ch[p].ver)
       \/ /\ ch[p].s.st = "RenewOffered" /\ m.type = "RenewAccept" /\ s.st = "RenewConfirmed"
          /\ out = Out("RenewConfirm", p, m.tx, 0)
    /\ Turn(p, [ch[p] EXCEPT !.s = s], out, {}) /\ Quiet

\* The old buffer is no longer watched as one, unless the party crashed.
Drops(p, out) == out # {} \/ faults' = 0 => ch[p].rb.tx \notin Watched(p)'

Settle(p, m, out) ==
    /\ m \in msgs
    /\ ch[p].kind = "Signed" /\ m.to = p /\ m.sec = ch[p].ctr
    /\ \/ /\ ch[p].s.st = "SettledAccepted" /\ m.type = "SettleConfirm" /\ m.tx = ch[p].s.tx
          /\ out \in {{}, Out("SettleFinalize", p, NoTx, ch[p].ver)}
       \/ ch[p].s.st = "SettledConfirmed" /\ m.type = "SettleFinalize" /\ out = {}
    /\ Turn(p, settle_channel_finalize(p), out, {}) /\ Drops(p, out) /\ Quiet

Finalize(p, m, out) ==
    /\ m \in msgs
    /\ ch[p].kind = "Signed" /\ ch[p].s.st = "RenewAccepted"
    /\ m.to = p /\ m.type = "RenewConfirm" /\ m.tx = ch[p].s.tx
    /\ out \in {{}, Out("RenewFinalize", p, ch[p].s.tx, ch[p].ver)}
    /\ Turn(p, verify_renew_confirm_and_finalize(p, ch[p].s.tx), out, {ch[p].s.tx})
    /\ Drops(p, out) /\ Quiet

Renew(p, m, out) ==
    /\ m \in msgs
    /\ ch[p].kind = "Signed" /\ ch[p].s.st = "RenewConfirmed"
    /\ m.to = p /\ m.type = "RenewFinalize" /\ m.tx = ch[p].s.tx /\ m.sec = ch[p].ctr
    /\ out \in {{}, Out("RenewRevoke", p, NoTx, ch[p].ver)}
    /\ Turn(p, renew_channel_on_finalize(p), out, {ch[p].s.tx})
    /\ Drops(p, out) /\ Quiet

Revoke(p, m) ==
    /\ m \in msgs
    /\ ch[p].kind = "Signed" /\ ch[p].s.st = "RenewFinalized"
    /\ m.to = p /\ m.type = "RenewRevoke" /\ m.sec = ch[p].prev
    /\ Turn(p, renew_channel_on_revoke(p), {}, {}) /\ Quiet

OfferClose(p, t, out) ==
    /\ ch[p].kind = "Signed" /\ "collaborative" \in scenario.ops
    /\ t \in Tx /\ t.kind = "close"
    /\ out \in {{}, Out("CollaborativeCloseOffer", p, t, 0)}
    /\ Turn(p, close_offered(p, t), out, {}) /\ Quiet

ForceClose(p) ==
    /\ ch[p].kind = "Signed" /\ Closable(p).s.st \in {"Established", "RenewFinalized"}
    /\ Publish(p, Closable(p).s.tx)
    /\ Turn(p, initiate_unilateral_close(Closable(p)), {}, {})

SeeBuffer(p, t) ==
    /\ t \in Watched(p)
    /\ ch[p].kind = "Signed"
    /\ Turn(p, Swap(ch[p], [ch[p].s EXCEPT !.st = "Closing", !.tx = t, !.offer = FALSE]), {}, {})
    /\ Quiet

Close(p, k) ==
    /\ k \in ClosedKinds
    /\ ch[p].kind = "Signed"
    /\ \/ Turn(p, OfKind(p, k), {}, {}) /\ (Quiet \/ \E t : t.kind = "close" /\ Publish(p, t))
       \/ /\ Closable(p).s.st = "Settled" /\ Publish(p, Closable(p).s.tx)
          /\ Turn(p, [Closable(p) EXCEPT !.kind = k], {}, {})

Move(p) ==
    \/ \E out : Idle(p, out) \/ Withdraw(p, out)
    \/ \E k, out : Setup(p, k, out) \/ Open(p, k, out) \/ OfferClose(p, k, out)
    \/ \E s, out : Propose(p, s, out) \/ Accept(p, s, out)
    \/ \E m, s : GetOffer(p, m, s)
    \/ \E m, s, out : Confirm(p, m, s, out)
    \/ \E m, out : Settle(p, m, out) \/ Finalize(p, m, out) \/ Renew(p, m, out)
    \/ \E m : Revoke(p, m)
    \/ ForceClose(p)
    \/ \E t : SeeBuffer(p, t)
    \/ \E k : Close(p, k)

\* The network and the oracles.
Elsewhere ==
    /\ UNCHANGED <<ch, mon, disk, msgs, revealed, faults>>
    /\ chain'.tx = chain.tx /\ chain'.by = chain.by
    /\ chain'.fund # "none" => chain.fund # "none"

-----------------------------------------------------------------------------
(* Every step is one of these turns, or the party does not take part.      *)

LEMMA OwnBuffers ==
  ASSUME NEW p
  PROVE  Buffers(mon[p]) \subseteq Watched(p) \union {} /\ Buffers(disk[p]) \subseteq Watched(p)
  BY DEF Watched

LEMMA QuietChain ==
  ASSUME chain' = chain
  PROVE  Quiet
  BY DEF Quiet

\* The funding and spending of the channel of a step that sends a transaction.
LEMMA Publishing ==
  ASSUME Types, NEW p, NEW t, CanSpend(t), chain' = Spent(p, t)
  PROVE  chain'.fund = chain.fund
  BY DEF Types, TypeOK, Chain, Spent

LEMMA SendThenCrashIdle ==
  ASSUME Types, NEW p \in Party, NEW in, SendThenCrash(p, in),
         chain'.fund # chain.fund => Opened("alice")
  PROVE  Idle(p, {})
<1>1. faults \in Nat
  BY Bounded
<1>2. /\ Upsert(p, ch[p], disk[p], live'[p]) /\ disk' = disk /\ faults' = faults + 1
      /\ msgs' \subseteq msgs
  <2>1. /\ Upsert(p, ch[p], disk[p], live[p]) /\ disk' = disk /\ Fault /\ Reply(p, in, {})
    BY DEF SendThenCrash
  <2>2. live \in [Party -> SUBSET Idx] /\ live' = [live EXCEPT ![p] = live[p]]
    BY <2>1 DEF Upsert, Types, TypeOK
  <2> QED BY <2>1, <2>2 DEF Reply, Fault
<1>3. revealed' = revealed
  <2>1. revealed \in [Party -> SUBSET Msg]
    BY DEF Types, TypeOK
  <2>2. revealed' = [revealed EXCEPT ![p] = @ \union {x \in {} : x.type \in Reveals}]
    BY DEF SendThenCrash, Reply
  <2> QED BY <2>1, <2>2, NothingSent
<1>4. Turn(p, ch[p], {}, {})
  BY <1>2, <1>3, RestartTurn
<1> QED BY <1>1, <1>2, <1>4 DEF Idle

LEMMA PanicIdle ==
  ASSUME Types, NEW p \in Party, NEW what, Panic(p, what)
  PROVE  Idle(p, {})
<1>1. Upsert(p, ch[p], disk[p], live'[p]) /\ disk' = disk
  <2>1. live \in [Party -> SUBSET Idx] /\ live' = [live EXCEPT ![p] = live[p]]
    BY DEF Panic, Upsert, Types, TypeOK
  <2> QED BY <2>1 DEF Panic
<1>2. Turn(p, ch[p], {}, {})
  BY <1>1, RestartTurn DEF Panic
<1> QED BY <1>2, QuietChain DEF Idle, Panic

LEMMA CrashIdle ==
  ASSUME Types, NEW p \in Party, Crash(p)
  PROVE  Idle(p, {})
<1>1. Upsert(p, ch[p], disk[p], live'[p]) /\ disk' = disk
  <2>1. live \in [Party -> SUBSET Idx] /\ live' = [live EXCEPT ![p] = live[p]]
    BY DEF Crash, Upsert, Types, TypeOK
  <2> QED BY <2>1 DEF Crash
<1>2. Turn(p, ch[p], {}, {})
  BY <1>1, RestartTurn DEF Crash, Fault
<1> QED BY <1>2, QuietChain DEF Idle, Crash

LEMMA Answers ==
  ASSUME NEW p \in Party, NEW type, NEW t, NEW k
  PROVE  \A m \in Out(type, p, t, k) : m.type = type /\ m.to = Other(p) /\ m.tx = t /\ m.sec = k
  BY DEF Out

LEMMA Stored ==
  ASSUME Types, NEW p \in Party
  PROVE  ch[p] \in Channel /\ mon[p] \in Monitor /\ disk[p] \in Monitor
  BY DEF Types, TypeOK

LEMMA SetupMoves ==
  ASSUME Types, MessageInv, OpeningInv, NEW p \in Party
  PROVE  /\ offer_channel => Move("alice")
         /\ accept_channel(p) \/ reject_channel(p) => Move(p)
         /\ \A m \in msgs : m.to = p => (
              on_offer_channel(p, m) \/ on_accept_channel(p, m) \/ on_sign_channel(p, m) => Move(p))
<1>a. /\ "Offered" \in Opening /\ "Accepted" \in Opening /\ "Cancelled" \in Opening
      /\ "FailedAccept" \in Opening /\ "FailedSign" \in Opening /\ "None" \in Opening
  BY DEF Opening, ChannelKind, ClosedKinds
<1>b. Buffers(mon[p]) \subseteq Watched(p) \union {} /\ "alice" \in Party /\ "bob" \in Party
  BY OwnBuffers, Parties
<1>1. offer_channel => Move("alice")
  <2> SUFFICES ASSUME offer_channel PROVE Move("alice")
    OBVIOUS
  <2> DEFINE out == Out("OfferChannel", "alice", NoTx, 0)
  <2>1. Turn("alice", OfKind("alice", "Offered"), out, {})
    BY <1>b, OwnBuffers, FinishTurn DEF offer_channel, channel_offered
  <2>2. Quiet
    BY QuietChain DEF offer_channel
  <2>3. Setup("alice", "Offered", out)
    BY <1>a, <1>b, <2>1, <2>2, Answers DEF offer_channel, Setup
  <2> QED BY <2>3 DEF Move
<1>2. accept_channel(p) => Move(p)
  <2> SUFFICES ASSUME accept_channel(p) PROVE Move(p)
    OBVIOUS
  <2> DEFINE out == Out("AcceptChannel", p, FirstBuffer, 0)
  <2>1. Turn(p, OfKind(p, "Accepted"), out, {})
    BY <1>b, FinishTurn DEF accept_channel, accept_channel_offer
  <2>2. Quiet
    BY QuietChain DEF accept_channel
  <2>3. Other(p) = "alice"
    BY DEF accept_channel, Party, Other
  <2>4. Setup(p, "Accepted", out)
    BY <1>a, <2>1, <2>2, <2>3, Answers DEF accept_channel, Setup
  <2> QED BY <2>4 DEF Move
<1>3. reject_channel(p) => Move(p)
  <2> SUFFICES ASSUME reject_channel(p) PROVE Move(p)
    OBVIOUS
  <2> DEFINE out == Out("Reject", p, NoTx, 0)
  <2>1. Turn(p, OfKind(p, "Cancelled"), out, {})
    BY <1>b, FinishTurn DEF reject_channel
  <2>2. Quiet
    BY QuietChain DEF reject_channel
  <2>3. Setup(p, "Cancelled", out)
    BY <1>a, <2>1, <2>2, Answers DEF reject_channel, Setup
  <2> QED BY <2>3 DEF Move
<1> SUFFICES ASSUME NEW m \in msgs, m.to = p
             PROVE  on_offer_channel(p, m) \/ on_accept_channel(p, m) \/ on_sign_channel(p, m) => Move(p)
  BY <1>1, <1>2, <1>3
<1>4. on_offer_channel(p, m) => Move(p)
  <2> SUFFICES ASSUME on_offer_channel(p, m) PROVE Move(p)
    OBVIOUS
  <2>1. Turn(p, OfKind(p, "Offered"), {}, {})
    BY <1>b, FinishTurn DEF on_offer_channel, channel_offered
  <2>2. Quiet
    BY QuietChain DEF on_offer_channel
  <2>3. Setup(p, "Offered", {})
    BY <1>a, <2>1, <2>2 DEF on_offer_channel, Setup
  <2> QED BY <2>3 DEF Move
\* A channel that is stored as failed.
<1>5. ASSUME NEW k \in {"FailedAccept", "FailedSign"}, Refuse(p, m, k), ch[p].kind \in Opening
      PROVE  Move(p)
  <2>1. /\ ch' = [ch EXCEPT ![p] = OfKind(p, k)] /\ mon' = [mon EXCEPT ![p] = mon[p]] /\ disk' = disk
        /\ msgs' \subseteq msgs \union {} /\ faults' = faults + 1 /\ chain' = chain
        /\ revealed' = [revealed EXCEPT ![p] = @ \union {x \in {} : x.type \in Reveals}]
    BY <1>5 DEF Refuse, Upsert, Reply, Fault
  <2>2. mon' = mon
    BY <2>1 DEF Types, TypeOK
  <2>3. Turn(p, OfKind(p, k), {}, {})
    BY <2>1, <2>2 DEF Turn, Watched
  <2>4. Setup(p, k, {})
    BY <1>a, <1>5, <2>1, <2>3, QuietChain DEF Setup
  <2> QED BY <2>4 DEF Move
<1>6. Buffers(add_tx(mon[p], FirstBuffer, "BufferTx")) \subseteq Watched(p) \union {FirstBuffer}
  BY Stored, AddBuffer, OwnBuffers
<1>7. on_accept_channel(p, m) => Move(p)
  <2> SUFFICES ASSUME on_accept_channel(p, m) PROVE Move(p)
    OBVIOUS
  <2>1. ch[p].kind \in Opening /\ p = "alice" /\ Other(p) = "bob"
    BY <1>a DEF on_accept_channel, OpeningInv, Other
  <2>2. CASE Refuse(p, m, "FailedAccept")
    BY <1>5, <2>1, <2>2
  <2> DEFINE out == Out("SignChannel", p, FirstBuffer, 0)
             d == verify_and_sign_accepted_channel
  <2>3. CASE /\ FinishPersist(p, d, add_tx(mon[p], FirstBuffer, "BufferTx"), live[p], live[p], m, out)
             /\ UNCHANGED chain
    <3>1. Turn(p, d, out, {FirstBuffer}) \/ Turn(p, d, {}, {FirstBuffer})
      BY <1>6, <2>3, FinishPersistTurn
    <3>2. d = Signs(TRUE)
      BY DEF verify_and_sign_accepted_channel, Signs
    <3>3. \A x \in out : x.type = "SignChannel" /\ x.to = "bob"
      BY <2>1, Answers
    <3> HIDE DEF out, d
    <3>4. Open(p, d, out) \/ Open(p, d, {})
      BY <2>1, <2>3, <3>1, <3>2, <3>3 DEF Open
    <3> QED BY <3>4 DEF Move
  <2> QED BY <2>2, <2>3 DEF on_accept_channel
<1>8. on_sign_channel(p, m) => Move(p)
  <2> SUFFICES ASSUME on_sign_channel(p, m) PROVE Move(p)
    OBVIOUS
  <2>1. ch[p].kind \in Opening /\ p = "bob" /\ Opened("alice")
    BY <1>a DEF on_sign_channel, OpeningInv
  <2>2. CASE Refuse(p, m, "FailedSign")
    BY <1>5, <2>1, <2>2
  <2> DEFINE d == verify_signed_channel
  <2>3. CASE chain' = [chain EXCEPT !.fund = IF @ = "none" THEN "mempool" ELSE @]
    <3>1. chain'.tx = chain.tx /\ chain'.by = chain.by
      BY <2>3 DEF Types, TypeOK, Chain
    <3>2. CASE SendThenCrash(p, m)
      BY <2>1, <3>2, SendThenCrashIdle DEF Move
    <3>3. CASE FinishPersist(p, d, add_tx(mon[p], FirstBuffer, "BufferTx"), live[p], live[p], m, {})
      <4>1. Turn(p, d, {}, {FirstBuffer})
        BY <1>6, <3>3, FinishPersistTurn
      <4>2. d = Signs(FALSE)
        BY DEF verify_signed_channel, Signs
      <4> HIDE DEF d
      <4>3. Open(p, d, {})
        BY <2>1, <3>1, <4>1, <4>2 DEF Open
      <4> QED BY <4>3 DEF Move
    <3> QED BY <2>2, <2>3, <3>2, <3>3 DEF on_sign_channel
  <2> QED BY <2>2, <2>3 DEF on_sign_channel
<1> QED BY <1>4, <1>7, <1>8

\* A handler that answers with a rejection at most, and keeps its channel.
LEMMA StayIdle ==
  ASSUME Types, NEW p \in Party, NEW m, NEW l, NEW in, NEW out,
         Finish(p, ch[p], m, l, in, out), Buffers(m) \subseteq Watched(p),
         chain' = chain, \A x \in out : x.type = "Reject"
  PROVE  Move(p)
<1>1. Turn(p, ch[p], out, {})
  BY FinishTurn
<1>2. Idle(p, out)
  BY <1>1, QuietChain DEF Idle
<1> QED BY <1>2 DEF Move

LEMMA SettleEnds ==
  ASSUME Types, NEW p \in Party, NEW c, NEW m, NEW out, FinishSettle(p, c, m, out), c = settle_channel_finalize(p)
  PROVE  /\ m.sec = ch[p].ctr
         /\ \/ Move(p)
            \/ Turn(p, c, out, {}) /\ Drops(p, out) /\ Quiet
            \/ Turn(p, c, {}, {}) /\ Drops(p, {}) /\ Quiet
<1> DEFINE w == add_revoked(mon[p], ch[p].rb.tx, ch[p].ver, ch[p].rb.offer)
           l == live[p] \ {ch[p].rb.con}
<1>1. Buffers(w) = Buffers(mon[p]) \ {ch[p].rb.tx} /\ Buffers(w) \subseteq Watched(p)
  BY Stored, AddRevokedBuffer, OwnBuffers
<1>2. /\ m.sec = ch[p].ctr /\ chain' = chain
      /\ FinishPersist(p, c, w, l, l, m, out) \/ Finish(p, ch[p], w, live[p], m, {})
  BY DEF FinishSettle
<1> HIDE DEF w, l
<1>3. CASE Finish(p, ch[p], w, live[p], m, {})
  BY <1>1, <1>2, <1>3, StayIdle
<1>4. CASE FinishPersist(p, c, w, l, l, m, out)
  <2>1. \/ Turn(p, c, out, {}) /\ Watched(p)' = Buffers(w) /\ faults' = faults
        \/ Turn(p, c, {}, {}) /\ faults' = faults + 1
    BY <1>1, <1>4, FinishPersistTurn
  <2> QED BY <1>1, <1>2, <2>1, Bounded, QuietChain DEF Drops
<1> QED BY <1>2, <1>3, <1>4

LEMMA SettleMoves ==
  ASSUME Types, MessageInv, NEW p \in Party, StateInv(p)
  PROVE  /\ settle_offer(p) \/ accept_settle_offer(p) \/ reject_settle_offer(p) => Move(p)
         /\ \A m \in msgs : m.to = p => (
              (on_settle_offer(p, m) \/ on_settle_accept(p, m)
                  \/ on_settle_confirm(p, m) \/ on_settle_finalize(p, m)) => Move(p))
<1>a. Buffers(mon[p]) \subseteq Watched(p) \union {}
  BY OwnBuffers
<1>b. scenario.updates <= MaxUpdates /\ scenario.updates \in Nat /\ MaxUpdates \in Nat
  BY Bounded, ChannelAssumption
<1>c. ch[p] \in Channel /\ ch[p].ver \in Nat
  BY Stored, Indices DEF Channel
<1>1. settle_offer(p) => Move(p)
  <2> SUFFICES ASSUME settle_offer(p) PROVE Move(p)
    OBVIOUS
  <2> DEFINE s == Bare("SettledOffered", Proposal(p, "settle"))
             out == Out("SettleOffer", p, Proposal(p, "settle"), 0)
  <2>1. Turn(p, Swap(ch[p], s), out, {}) /\ Quiet
    BY <1>a, FinishTurn, QuietChain DEF settle_offer, settle_channel_offer
  <2>2. /\ s.st = "SettledOffered" /\ s.tx = Proposal(p, TxKind(s.st)) /\ ~s.offer
        /\ OfferOf(s.st) = "SettleOffer"
    BY DEF Bare, TxKind, OfferOf, SettleStates
  <2>3. /\ ch[p].kind = "Signed" /\ ch[p].s.st \in StableStates /\ ch[p].ver < MaxUpdates
        /\ "settle" \in scenario.ops
    BY <1>b, <1>c DEF settle_offer, In, StableStates
  <2>4. s.tx = Proposal(p, "settle")
    BY DEF Bare
  <2> HIDE DEF s
  <2>5. Propose(p, s, out)
    BY <2>1, <2>2, <2>3, <2>4 DEF Propose
  <2> QED BY <2>5 DEF Move
<1>2. accept_settle_offer(p) => Move(p)
  <2> SUFFICES ASSUME accept_settle_offer(p) PROVE Move(p)
    OBVIOUS
  <2> DEFINE s == Bare("SettledAccepted", Completed(p))
             out == Out("SettleAccept", p, Completed(p), 0)
             m == add_tx(mon[p], Completed(p), "SettleTx")
  <2>0. Buffers(m) \subseteq Watched(p) \union {}
    BY Stored, AddOther, OwnBuffers
  <2>1. Turn(p, [ch[p] EXCEPT !.s = s], out, {}) /\ Quiet
    BY <2>0, FinishTurn, QuietChain DEF accept_settle_offer, settle_channel_accept
  <2>2. s.st = "SettledAccepted" /\ s.tx = Completed(p) /\ AcceptOf(s.st) = "SettleAccept"
    BY DEF Bare, AcceptOf
  <2>3. /\ ch[p].kind = "Signed" /\ ch[p].s.st = "SettledReceived" /\ Received(ch[p].s)
        /\ ch[p].ver < MaxUpdates
    BY <1>b, <1>c DEF accept_settle_offer, In, Received
  <2> HIDE DEF s
  <2>4. Accept(p, s, out)
    BY <2>1, <2>2, <2>3 DEF Accept
  <2> QED BY <2>4 DEF Move
<1>3. reject_settle_offer(p) => Move(p)
  <2> SUFFICES ASSUME reject_settle_offer(p) PROVE Move(p)
    OBVIOUS
  <2> DEFINE out == Out("Reject", p, NoTx, 0)
  <2>1. Turn(p, RollBack(ch[p]), out, {}) /\ Quiet
    BY <1>a, FinishTurn, QuietChain DEF reject_settle_offer
  <2>2. Withdraw(p, out)
    BY <2>1, Answers DEF reject_settle_offer, In, Withdraw
  <2> QED BY <2>2 DEF Move
<1> SUFFICES ASSUME NEW m \in msgs, m.to = p
             PROVE  (on_settle_offer(p, m) \/ on_settle_accept(p, m)
                        \/ on_settle_confirm(p, m) \/ on_settle_finalize(p, m)) => Move(p)
  BY <1>1, <1>2, <1>3
<1>4. on_settle_offer(p, m) => Move(p)
  <2> SUFFICES ASSUME on_settle_offer(p, m) PROVE Move(p)
    OBVIOUS
  <2>1. CASE Finish(p, ch[p], mon[p], live[p], m, Out("Reject", p, NoTx, 0))
    BY <1>a, <2>1, StayIdle, Answers DEF on_settle_offer
  <2> DEFINE s == Bare("SettledReceived", m.tx)
  <2>2. CASE In(p, "Established") /\ Finish(p, settle_channel_received(p, m.tx), mon[p], live[p], m, {})
    <3>1. Turn(p, Swap(ch[p], s), {}, {}) /\ Quiet
      BY <1>a, <2>2, FinishTurn, QuietChain DEF on_settle_offer, settle_channel_received
    <3>2. s.st = "SettledReceived" /\ s.tx = m.tx /\ ~s.offer
      BY DEF Bare
    <3> HIDE DEF s
    <3>3. GetOffer(p, m, s)
      BY <2>2, <3>1, <3>2 DEF on_settle_offer, In, GetOffer, StableStates
    <3> QED BY <3>3 DEF Move
  <2> QED BY <2>1, <2>2 DEF on_settle_offer
<1>5. on_settle_accept(p, m) => Move(p)
  <2> SUFFICES ASSUME on_settle_accept(p, m) PROVE Move(p)
    OBVIOUS
  <2> DEFINE s == Bare("SettledConfirmed", m.tx)
             out == Out("SettleConfirm", p, m.tx, ch[p].ver)
             w == add_tx(mon[p], m.tx, "SettleTx")
  <2>0. Buffers(w) \subseteq Watched(p) \union {}
    BY Stored, AddOther, OwnBuffers
  <2>1. Turn(p, [ch[p] EXCEPT !.s = s], out, {}) /\ Quiet
    BY <2>0, FinishTurn, QuietChain DEF on_settle_accept, settle_channel_confirm
  <2>2. s.st = "SettledConfirmed" /\ s.tx = m.tx
    BY DEF Bare
  <2> HIDE DEF s
  <2>3. Confirm(p, m, s, out)
    BY <2>1, <2>2 DEF on_settle_accept, In, Confirm, Offers
  <2> QED BY <2>3 DEF Move
<1>6. on_settle_confirm(p, m) => Move(p)
  <2> SUFFICES ASSUME on_settle_confirm(p, m) PROVE Move(p)
    OBVIOUS
  <2> DEFINE out == Out("SettleFinalize", p, NoTx, ch[p].ver)
  <2>1. /\ m.sec = ch[p].ctr
        /\ \/ Move(p)
           \/ Turn(p, settle_channel_finalize(p), out, {}) /\ Drops(p, out) /\ Quiet
           \/ Turn(p, settle_channel_finalize(p), {}, {}) /\ Drops(p, {}) /\ Quiet
    BY SettleEnds DEF on_settle_confirm
  <2> HIDE DEF out
  <2>2. Move(p) \/ Settle(p, m, out) \/ Settle(p, m, {})
    BY <2>1 DEF on_settle_confirm, In, Settle, out
  <2> QED BY <2>2 DEF Move
<1>7. on_settle_finalize(p, m) => Move(p)
  <2> SUFFICES ASSUME on_settle_finalize(p, m) PROVE Move(p)
    OBVIOUS
  <2>0. settle_channel_on_finalize(p) = settle_channel_finalize(p)
    BY DEF settle_channel_on_finalize, settle_channel_finalize
  <2>1. /\ m.sec = ch[p].ctr
        /\ \/ Move(p)
           \/ Turn(p, settle_channel_finalize(p), {}, {}) /\ Drops(p, {}) /\ Quiet
    BY <2>0, SettleEnds DEF on_settle_finalize
  <2>2. Move(p) \/ Settle(p, m, {})
    BY <2>1 DEF on_settle_finalize, In, Settle
  <2> QED BY <2>2 DEF Move
<1> QED BY <1>4, <1>5, <1>6, <1>7

\* The monitor of a renewed channel.
LEMMA ReplacedWatch ==
  ASSUME NEW p, NEW m \in Monitor
  PROVE  /\ Buffers(Replaced(p, m)) = Buffers(m) \ {ch[p].rb.tx}
         /\ ch[p].rb.tx \in Tx /\ ch[p].ver \in Idx => Replaced(p, m) \in Monitor
<1> DEFINE t == ch[p].rb.tx
           i == ch[p].ver
           r == remove_tx(m, t)
           n == NewWatch(t, "Revoked", i, FALSE)
           X == r.txs \union {n}
           w == Replaced(p, m)
<1>1. w = [r EXCEPT !.txs = X]
  BY DEF add_revoked, NewWatch, Replaced
<1>2. r \in Monitor /\ r.txs = {v \in m.txs : v.tx # t}
  BY RemoveTx
<1>3. n.type = "Revoked" /\ (t \in Tx /\ i \in Idx => n \in Watch)
  BY DEF NewWatch, Watch, TxType
<1>4. r.txs \subseteq Watch
  BY <1>2 DEF Monitor
<1> HIDE DEF r, X, n
<1>5. [r EXCEPT !.txs = X].txs = X /\ (X \subseteq Watch => [r EXCEPT !.txs = X] \in Monitor)
  BY <1>2, SetTxs
<1>6. ASSUME NEW x PROVE x \in Buffers(w) <=> x \in Buffers(m) /\ x # t
  <2>1. x \in Buffers(w) <=> \E v \in X : v.type = "BufferTx" /\ v.tx = x
    BY <1>1, <1>5, BuffersDef
  <2>2. x \in Buffers(m) <=> \E v \in m.txs : v.type = "BufferTx" /\ v.tx = x
    BY BuffersDef
  <2> QED BY <1>2, <1>3, <2>1, <2>2 DEF X
<1>7. Buffers(w) = Buffers(m) \ {t}
  <2> HIDE DEF w, t
  <2> QED BY <1>6
<1>8. t \in Tx /\ i \in Idx => w \in Monitor
  BY <1>1, <1>3, <1>4, <1>5 DEF X
<1> QED BY <1>7, <1>8

LEMMA RenewMoves ==
  ASSUME Types, MessageInv, NEW p \in Party, StateInv(p)
  PROVE  /\ renew_offer(p) \/ accept_renew_offer(p) \/ reject_renew_offer(p) => Move(p)
         /\ \A m \in msgs : m.to = p => (
              (on_renew_offer(p, m) \/ on_renew_accept(p, m) \/ on_renew_confirm(p, m)
                  \/ on_renew_finalize(p, m) \/ on_renew_revoke(p, m) \/ on_reject(p, m)) => Move(p))
<1>a. Buffers(mon[p]) \subseteq Watched(p) \union {}
  BY OwnBuffers
<1>b. scenario.updates <= MaxUpdates /\ scenario.updates \in Nat /\ MaxUpdates \in Nat
  BY Bounded, ChannelAssumption
<1>c. ch[p] \in Channel /\ ch[p].ver \in Nat /\ ch[p].ver \in Idx
  BY Stored, Indices DEF Channel
<1>1. renew_offer(p) => Move(p)
  <2> SUFFICES ASSUME renew_offer(p) PROVE Move(p)
    OBVIOUS
  <2> DEFINE s == Renewal(Proposal(p, "buffer"), TRUE)
             out == Out("RenewOffer", p, Proposal(p, "buffer"), 0)
  <2>1. Turn(p, Swap(ch[p], s), out, {}) /\ Quiet
    BY <1>a, FinishTurn, QuietChain DEF renew_offer, renew_channel_offer
  <2>2. /\ s.st = "RenewOffered" /\ s.tx = Proposal(p, "buffer") /\ s.offer
        /\ TxKind(s.st) = "buffer" /\ OfferOf(s.st) = "RenewOffer"
    BY DEF Renewal, WithContract, TxKind, OfferOf, SettleStates
  <2>3. /\ ch[p].kind = "Signed" /\ ch[p].s.st \in StableStates /\ ch[p].ver < MaxUpdates
    BY <1>b, <1>c DEF renew_offer, In, StableStates
  <2> HIDE DEF s
  <2>4. Propose(p, s, out)
    BY <2>1, <2>2, <2>3 DEF Propose
  <2> QED BY <2>4 DEF Move
<1>2. accept_renew_offer(p) => Move(p)
  <2> SUFFICES ASSUME accept_renew_offer(p) PROVE Move(p)
    OBVIOUS
  <2> DEFINE s == WithContract("RenewAccepted", Completed(p), FALSE)
             out == Out("RenewAccept", p, Completed(p), 0)
  <2>1. Turn(p, [ch[p] EXCEPT !.s = s], out, {}) /\ Quiet
    BY <1>a, FinishTurn, QuietChain DEF accept_renew_offer, accept_channel_renewal
  <2>2. s.st = "RenewAccepted" /\ s.tx = Completed(p) /\ AcceptOf(s.st) = "RenewAccept"
    BY DEF WithContract, AcceptOf
  <2>3. /\ ch[p].kind = "Signed" /\ ch[p].s.st = "RenewOffered" /\ Received(ch[p].s)
        /\ ch[p].ver < MaxUpdates
    BY <1>b, <1>c DEF accept_renew_offer, In, Received
  <2> HIDE DEF s
  <2>4. Accept(p, s, out)
    BY <2>1, <2>2, <2>3 DEF Accept
  <2> QED BY <2>4 DEF Move
<1>3. reject_renew_offer(p) => Move(p)
  <2> SUFFICES ASSUME reject_renew_offer(p) PROVE Move(p)
    OBVIOUS
  <2> DEFINE out == Out("Reject", p, NoTx, 0)
  <2>1. Turn(p, RollBack(ch[p]), out, {}) /\ Quiet
    BY <1>a, FinishTurn, QuietChain DEF reject_renew_offer
  <2>2. Withdraw(p, out)
    BY <2>1, Answers DEF reject_renew_offer, In, Withdraw
  <2> QED BY <2>2 DEF Move
<1> SUFFICES ASSUME NEW m \in msgs, m.to = p
             PROVE  (on_renew_offer(p, m) \/ on_renew_accept(p, m) \/ on_renew_confirm(p, m)
                        \/ on_renew_finalize(p, m) \/ on_renew_revoke(p, m) \/ on_reject(p, m)) => Move(p)
  BY <1>1, <1>2, <1>3
<1>4. on_renew_offer(p, m) => Move(p)
  <2> SUFFICES ASSUME on_renew_offer(p, m) PROVE Move(p)
    OBVIOUS
  <2>1. CASE Finish(p, ch[p], mon[p], live[p], m, Out("Reject", p, NoTx, 0))
    BY <1>a, <2>1, StayIdle, Answers DEF on_renew_offer
  <2> DEFINE s == Renewal(m.tx, FALSE)
  <2>2. CASE /\ In(p, "Established") \/ In(p, "Settled")
             /\ Finish(p, renew_channel_received(p, m.tx), mon[p], live[p], m, {})
    <3>1. Turn(p, Swap(ch[p], s), {}, {}) /\ Quiet
      BY <1>a, <2>2, FinishTurn, QuietChain DEF on_renew_offer, renew_channel_received
    <3>2. s.st = "RenewOffered" /\ s.tx = m.tx /\ ~s.offer
      BY DEF Renewal, WithContract
    <3> HIDE DEF s
    <3>3. GetOffer(p, m, s)
      BY <2>2, <3>1, <3>2 DEF on_renew_offer, In, GetOffer, StableStates
    <3> QED BY <3>3 DEF Move
  <2> QED BY <2>1, <2>2 DEF on_renew_offer
<1>5. on_renew_accept(p, m) => Move(p)
  <2> SUFFICES ASSUME on_renew_accept(p, m) PROVE Move(p)
    OBVIOUS
  <2> DEFINE s == WithContract("RenewConfirmed", m.tx, TRUE)
             out == Out("RenewConfirm", p, m.tx, 0)
  <2>1. Turn(p, [ch[p] EXCEPT !.s = s], out, {}) /\ Quiet
    BY <1>a, FinishTurn, QuietChain DEF on_renew_accept, verify_renew_accept_and_confirm
  <2>2. s.st = "RenewConfirmed" /\ s.tx = m.tx
    BY DEF WithContract
  <2>3. m.type = "RenewAccept" /\ ch[p].kind = "Signed" /\ ch[p].s.st = "RenewOffered"
        /\ m.tx.by = ch[p].s.tx.by /\ m.tx.o = ch[p].s.tx.o
    BY DEF on_renew_accept, In
  <2>4. m.tx.by = p
    BY <2>3 DEF MessageInv
  <2>5. Offers(ch[p].s)
    BY <2>3, <2>4, Parties DEF StateInv, Fits, Received, Offers
  <2> HIDE DEF s
  <2>6. Confirm(p, m, s, out)
    BY <2>1, <2>2, <2>3, <2>4, <2>5 DEF Confirm
  <2> QED BY <2>6 DEF Move
\* The transaction that the new one replaces.
<1>d. ch[p].kind = "Signed" /\ ch[p].s.st \in {"RenewAccepted", "RenewConfirmed"} =>
          /\ ch[p].rb.tx \in Tx /\ Point(p, ch[p].rb.tx) = ch[p].ver
          /\ ch[p].s.st = "RenewConfirmed" => Point(p, ch[p].s.tx) = ch[p].ver + 1
  BY DEF StateInv, Replaces, Fits, Updating, RenewStates, Offers, Point
<1>6. on_renew_confirm(p, m) => Move(p)
  <2> SUFFICES ASSUME on_renew_confirm(p, m) PROVE Move(p)
    OBVIOUS
  <2> DEFINE t == ch[p].s.tx
             a == add_tx(mon[p], t, "BufferTx")
             w == Replaced(p, a)
             d == verify_renew_confirm_and_finalize(p, t)
             out == Out("RenewFinalize", p, t, ch[p].ver)
  <2>1. /\ m.type = "RenewConfirm" /\ ch[p].kind = "Signed" /\ ch[p].s.st = "RenewAccepted"
        /\ m.tx = t /\ chain' = chain
    BY DEF on_renew_confirm, In
  <2>2. t \in Tx
    BY <2>1 DEF StateInv, Fits
  <2>3. a \in Monitor /\ Buffers(a) = Buffers(mon[p]) \union {t}
    <3>1. 0 \in Idx /\ "BufferTx" \in TxType
      BY <1>b DEF Idx, TxType
    <3> QED BY <2>2, <3>1, Stored, MonitorTypes, AddBuffer
  <2>4. Buffers(w) = Buffers(a) \ {ch[p].rb.tx}
    BY <2>3, ReplacedWatch
  <2>5. PICK l, lc : FinishPersist(p, d, w, l, lc, m, out)
    BY <2>1 DEF on_renew_confirm
  <2> HIDE DEF t, a, w, d, out
  <2>6. Buffers(w) \subseteq Watched(p) \union {t} /\ ch[p].rb.tx \notin Buffers(w)
    BY <2>3, <2>4, OwnBuffers
  <2>7. \/ Turn(p, d, out, {t}) /\ Drops(p, out)
        \/ Turn(p, d, {}, {t}) /\ Drops(p, {})
    BY <2>5, <2>6, FinishPersistTurn, Bounded DEF Drops
  <2>8. Finalize(p, m, out) \/ Finalize(p, m, {})
    BY <2>1, <2>7, QuietChain DEF Finalize, t, d, out
  <2> QED BY <2>8 DEF Move
<1>7. on_renew_finalize(p, m) => Move(p)
  <2> SUFFICES ASSUME on_renew_finalize(p, m) PROVE Move(p)
    OBVIOUS
  <2> DEFINE t == ch[p].s.tx
             a == Replaced(p, mon[p])
             w == add_tx(a, t, "BufferTx")
             d == renew_channel_on_finalize(p)
             out == Out("RenewRevoke", p, NoTx, ch[p].ver)
  <2>1. /\ m.type = "RenewFinalize" /\ ch[p].kind = "Signed" /\ ch[p].s.st = "RenewConfirmed"
        /\ m.tx = t /\ m.sec = ch[p].ctr /\ chain' = chain
    BY DEF on_renew_finalize, In
  <2>2. t \in Tx /\ t # ch[p].rb.tx
    BY <1>c, <1>d, <2>1 DEF StateInv, Fits
  <2>3. a \in Monitor /\ Buffers(a) = Buffers(mon[p]) \ {ch[p].rb.tx}
    BY <1>c, <1>d, <2>1, Stored, ReplacedWatch
  <2>4. Buffers(w) = Buffers(a) \union {t}
    BY <2>3, AddBuffer
  <2>5. PICK l, lc : FinishPersist(p, d, w, l, lc, m, out)
    BY <2>1 DEF on_renew_finalize
  <2> HIDE DEF t, a, w, d, out
  <2>6. Buffers(w) \subseteq Watched(p) \union {t} /\ ch[p].rb.tx \notin Buffers(w)
    BY <2>2, <2>3, <2>4, OwnBuffers
  <2>7. \/ Turn(p, d, out, {t}) /\ Drops(p, out)
        \/ Turn(p, d, {}, {t}) /\ Drops(p, {})
    BY <2>5, <2>6, FinishPersistTurn, Bounded DEF Drops
  <2>8. Renew(p, m, out) \/ Renew(p, m, {})
    BY <2>1, <2>7, QuietChain DEF Renew, t, d, out
  <2> QED BY <2>8 DEF Move
<1>8. on_renew_revoke(p, m) => Move(p)
  <2> SUFFICES ASSUME on_renew_revoke(p, m) PROVE Move(p)
    OBVIOUS
  <2>1. Turn(p, renew_channel_on_revoke(p), {}, {}) /\ Quiet
    BY <1>a, FinishTurn, QuietChain DEF on_renew_revoke
  <2>2. Revoke(p, m)
    BY <2>1 DEF on_renew_revoke, In, Revoke
  <2> QED BY <2>2 DEF Move
<1>9. on_reject(p, m) => Move(p)
  <2> SUFFICES ASSUME on_reject(p, m) PROVE Move(p)
    OBVIOUS
  <2>1. CASE ch[p].kind = "Offered" /\ Finish(p, OfKind(p, "Cancelled"), mon[p], live[p], m, {})
    <3>1. Turn(p, OfKind(p, "Cancelled"), {}, {}) /\ Quiet
      BY <1>a, <2>1, FinishTurn, QuietChain DEF on_reject
    <3>2. "Offered" \in Opening /\ "Cancelled" \in Opening
      BY DEF Opening, ChannelKind, ClosedKinds
    <3>3. Setup(p, "Cancelled", {})
      BY <2>1, <3>1, <3>2 DEF Setup
    <3> QED BY <3>3 DEF Move
  <2>2. CASE Rejectable(p) /\ Finish(p, RollBack(ch[p]), mon[p], live[p], m, {})
    <3>1. Turn(p, RollBack(ch[p]), {}, {}) /\ Quiet
      BY <1>a, <2>2, FinishTurn, QuietChain DEF on_reject
    <3>2. Withdraw(p, {})
      BY <2>2, <3>1 DEF Rejectable, In, Withdraw
    <3> QED BY <3>2 DEF Move
  <2> QED BY <2>1, <2>2 DEF on_reject
<1> QED BY <1>4, <1>5, <1>6, <1>7, <1>8, <1>9

LEMMA CloseMoves ==
  ASSUME Types, MessageInv, UseInv, NEW p \in Party, StateInv(p)
  PROVE  /\ offer_collaborative_close(p) \/ accept_collaborative_close(p) => Move(p)
         /\ force_close_channel_internal(p) /\ ch[p].kind = "Signed" => Move(p)
         /\ \A m \in msgs : m.to = p /\ on_collaborative_close_offer(p, m) => Move(p)
<1>a. CloseTx(p) \in Tx /\ CloseTx(p).kind = "close"
  BY ChannelAssumption DEF CloseTx, Tx, Kind, Idx
<1>1. offer_collaborative_close(p) => Move(p)
  <2> SUFFICES ASSUME offer_collaborative_close(p) PROVE Move(p)
    OBVIOUS
  <2> DEFINE t == CloseTx(p)
             w == add_tx(mon[p], t, "CollaborativeClose")
             out == Out("CollaborativeCloseOffer", p, t, 0)
  <2>1. Buffers(w) \subseteq Watched(p) \union {}
    BY Stored, AddOther, OwnBuffers
  <2>2. FinishPersist(p, close_offered(p, t), w, live[p], live[p], NoTx, out)
    BY DEF offer_collaborative_close
  <2> HIDE DEF t, w, out
  <2>3. Turn(p, close_offered(p, t), out, {}) \/ Turn(p, close_offered(p, t), {}, {})
    BY <2>1, <2>2, FinishPersistTurn
  <2>4. OfferClose(p, t, out) \/ OfferClose(p, t, {})
    BY <1>a, <2>3, QuietChain DEF offer_collaborative_close, OfferClose, t, out
  <2> QED BY <2>4 DEF Move
<1>2. accept_collaborative_close(p) => Move(p)
  <2> SUFFICES ASSUME accept_collaborative_close(p) PROVE Move(p)
    OBVIOUS
  <2> DEFINE t == ch[p].s.tx
             d == OfKind(p, "CollaborativelyClosed")
  <2>1. /\ ch[p].kind = "Signed" /\ t.kind = "close" /\ CanSpend(t) /\ chain' = Spent(p, t)
        /\ Finish(p, d, mon[p], ContractClosed(p), NoTx, {}) \/ SendThenCrash(p, NoTx)
    BY DEF accept_collaborative_close, accept_collaborative_close_offer, In, StateInv, Fits, TxKind, SettleStates
  <2>2. chain'.fund = chain.fund
    BY <2>1, Publishing
  <2>3. CASE SendThenCrash(p, NoTx)
    BY <2>2, <2>3, SendThenCrashIdle DEF Move
  <2>4. CASE Finish(p, d, mon[p], ContractClosed(p), NoTx, {})
    <3>1. Turn(p, d, {}, {})
      BY <2>4, OwnBuffers, FinishTurn
    <3>2. Close(p, "CollaborativelyClosed")
      BY <2>1, <3>1 DEF Close, Publish, ClosedKinds
    <3> QED BY <3>2 DEF Move
  <2> QED BY <2>1, <2>3, <2>4
<1>3. ASSUME force_close_channel_internal(p), ch[p].kind = "Signed" PROVE Move(p)
  <2> DEFINE c == Closable(p)
             t == c.s.tx
  <2>1. CASE Panic(p, "rollback state")
    BY <2>1, PanicIdle DEF Move
  <2>2. CASE initiate_unilateral_close_established_channel(p, c)
    <3> DEFINE w == remove_tx(mon[p], t)
    <3>1. /\ c.s.st \in {"Established", "RenewFinalized"} /\ CanSpend(t) /\ chain' = Spent(p, t)
          /\ \/ FinishPersist(p, initiate_unilateral_close(c), w, live[p], live[p], NoTx, {})
             \/ SendThenCrash(p, NoTx)
      BY <2>2 DEF initiate_unilateral_close_established_channel
    <3>2. chain'.fund = chain.fund
      BY <3>1, Publishing
    <3>3. CASE SendThenCrash(p, NoTx)
      BY <3>2, <3>3, SendThenCrashIdle DEF Move
    <3>4. CASE FinishPersist(p, initiate_unilateral_close(c), w, live[p], live[p], NoTx, {})
      <4>1. Buffers(w) \subseteq Watched(p) \union {}
        BY Stored, RemoveBuffers, OwnBuffers
      <4> HIDE DEF w, t, c
      <4>2. Turn(p, initiate_unilateral_close(c), {}, {})
        BY <3>4, <4>1, FinishPersistTurn
      <4>3. ForceClose(p)
        BY <1>3, <3>1, <4>2 DEF ForceClose, Publish, c, t
      <4> QED BY <4>3 DEF Move
    <3> QED BY <3>1, <3>3, <3>4
  <2>3. CASE close_settled_channel(p, c)
    <3>1. /\ c.s.st = "Settled" /\ CanSpend(t) /\ chain' = Spent(p, t)
          /\ \/ Finish(p, [c EXCEPT !.kind = "Closed"], cleanup_channel(mon[p]), live[p], NoTx, {})
             \/ SendThenCrash(p, NoTx)
      BY <2>3 DEF close_settled_channel
    <3>2. chain'.fund = chain.fund
      BY <3>1, Publishing
    <3>3. CASE SendThenCrash(p, NoTx)
      BY <3>2, <3>3, SendThenCrashIdle DEF Move
    <3>4. CASE Finish(p, [c EXCEPT !.kind = "Closed"], cleanup_channel(mon[p]), live[p], NoTx, {})
      <4>1. Buffers(cleanup_channel(mon[p])) \subseteq Watched(p) \union {}
        BY Stored, RemoveBuffers
      <4>2. Turn(p, [c EXCEPT !.kind = "Closed"], {}, {})
        BY <3>4, <4>1, FinishTurn
      <4>3. Close(p, "Closed")
        BY <1>3, <3>1, <4>2 DEF Close, Publish, ClosedKinds
      <4> QED BY <4>3 DEF Move
    <3> QED BY <3>1, <3>3, <3>4
  <2> QED BY <1>3, <2>1, <2>2, <2>3 DEF force_close_channel_internal
<1>4. ASSUME NEW m \in msgs, m.to = p, on_collaborative_close_offer(p, m) PROVE Move(p)
  <2> DEFINE t == m.tx
  <2>1. m.type = "CollaborativeCloseOffer" /\ ch[p].kind = "Signed" /\ chain' = chain
    BY <1>4 DEF on_collaborative_close_offer, CanReceiveClose
  <2>2. t \in Tx /\ t.kind = "close" /\ "collaborative" \in scenario.ops
    BY <2>1 DEF MessageInv, UseInv
  <2>3. Turn(p, close_offered(p, t), {}, {})
    BY <1>4, OwnBuffers, FinishTurn DEF on_collaborative_close_offer
  <2> HIDE DEF t
  <2>4. OfferClose(p, t, {})
    BY <2>1, <2>2, <2>3, QuietChain DEF OfferClose
  <2> QED BY <2>4 DEF Move
<1> QED BY <1>1, <1>2, <1>3, <1>4

LEMMA WatchMoves ==
  ASSUME Types, NEW p \in Party
  PROVE  /\ periodic_chain_monitor(p) \/ check_signed_contract(p) \/ process_watched_txs(p) => Move(p)
         /\ check_for_watched_tx(p) \/ try_finalize_closing_established_channel(p) => Move(p)
<1>a. Buffers(mon[p]) \subseteq Watched(p) \union {} /\ Buffers(cleanup_channel(mon[p])) \subseteq Watched(p) \union {}
  BY OwnBuffers, Stored, RemoveBuffers
<1>b. ch' = [ch EXCEPT ![p] = ch[p]] <=> ch' = ch
  BY DEF Types, TypeOK
<1>c. revealed = [revealed EXCEPT ![p] = @ \union {x \in {} : x.type \in Reveals}]
  <2>1. revealed \in [Party -> SUBSET Msg]
    BY DEF Types, TypeOK
  <2> QED BY <2>1, NothingSent
<1>1. periodic_chain_monitor(p) => Move(p)
  <2> SUFFICES ASSUME periodic_chain_monitor(p) PROVE Move(p)
    OBVIOUS
  <2> DEFINE w == process_block(mon[p])
  <2>1. mon'[p] = w /\ \A q \in Party \ {p} : mon'[q] = mon[q]
    BY DEF periodic_chain_monitor, Types, TypeOK
  <2>2. disk' = disk /\ ch' = ch /\ msgs' = msgs /\ revealed' = revealed /\ faults' = faults /\ chain' = chain
    BY DEF periodic_chain_monitor
  <2>3. Buffers(w) = Buffers(mon[p])
    BY Stored, RemoveBuffers
  <2> HIDE DEF w
  <2>4. Watched(p)' = Watched(p) /\ \A q \in Party \ {p} : Watched(q)' = Watched(q)
    BY <2>1, <2>2, <2>3 DEF Watched
  <2>5. Turn(p, ch[p], {}, {})
    BY <1>b, <1>c, <2>2, <2>4 DEF Turn
  <2>6. Idle(p, {})
    BY <2>2, <2>5, QuietChain DEF Idle
  <2> QED BY <2>6 DEF Move
<1>2. check_signed_contract(p) => Move(p)
  <2> SUFFICES ASSUME check_signed_contract(p) PROVE Move(p)
    OBVIOUS
  <2>1. /\ disk' = disk /\ ch' = ch /\ msgs' = msgs /\ revealed' = revealed /\ faults' = faults
        /\ chain' = chain /\ mon' = mon
    BY DEF check_signed_contract, Upsert, Types, TypeOK
  <2>2. Turn(p, ch[p], {}, {})
    BY <1>b, <1>c, <2>1 DEF Turn, Watched
  <2>3. Idle(p, {})
    BY <2>1, <2>2, QuietChain DEF Idle
  <2> QED BY <2>3 DEF Move
<1>3. check_for_watched_tx(p) => Move(p)
  <2> SUFFICES ASSUME check_for_watched_tx(p) PROVE Move(p)
    OBVIOUS
  <2>1. disk'[p] = mon[p] /\ \A q \in Party \ {p} : disk'[q] = disk[q]
    BY DEF check_for_watched_tx, Types, TypeOK
  <2>2. mon' = mon /\ ch' = ch /\ msgs' = msgs /\ revealed' = revealed /\ faults' = faults /\ chain' = chain
    BY DEF check_for_watched_tx
  <2>3. Watched(p)' \subseteq Watched(p) /\ \A q \in Party \ {p} : Watched(q)' = Watched(q)
    BY <2>1, <2>2 DEF Watched
  <2>4. Turn(p, ch[p], {}, {})
    BY <1>b, <1>c, <2>2, <2>3 DEF Turn
  <2>5. Idle(p, {})
    BY <2>2, <2>4, QuietChain DEF Idle
  <2> QED BY <2>5 DEF Move
\* A channel that the chain monitor closes.
<1>4. ASSUME NEW k \in ClosedKinds, NEW l, NEW lc, ch[p].kind = "Signed", Quiet,
             \/ FinishPersist(p, OfKind(p, k), cleanup_channel(mon[p]), l, lc, NoTx, {})
             \/ Finish(p, OfKind(p, k), cleanup_channel(mon[p]), l, NoTx, {})
      PROVE  Move(p)
  <2>1. Turn(p, OfKind(p, k), {}, {})
    BY <1>4, <1>a, FinishPersistTurn, FinishTurn
  <2>2. Close(p, k)
    BY <1>4, <2>1 DEF Close
  <2> QED BY <2>2 DEF Move
<1>k. {"Closed", "CounterClosed", "ClosedPunished", "CollaborativelyClosed"} = ClosedKinds
  BY DEF ClosedKinds
<1>5. ASSUME NEW t, chain' = [chain EXCEPT !.next = t] PROVE Quiet
  BY <1>5 DEF Types, TypeOK, Chain, Quiet
<1>6. ASSUME NEW w \in mon[p].txs, OnBufferTx(p, w), ch[p].kind = "Signed" PROVE Move(p)
  <2>1. CASE Panic(p, "contract id")
    BY <2>1, PanicIdle DEF Move
  <2> DEFINE d == Swap(ch[p], [ch[p].s EXCEPT !.st = "Closing", !.tx = w.tx, !.offer = FALSE])
  <2>2. CASE FinishPersist(p, d, mon[p], live[p], live[p], NoTx, {}) /\ chain' = chain
    <3>1. Turn(p, d, {}, {})
      BY <1>a, <2>2, FinishPersistTurn
    <3>2. w.tx \in Watched(p)
      BY <1>6, BuffersDef DEF OnBufferTx, Watched
    <3> DEFINE t == w.tx
    <3>3. SeeBuffer(p, t)
      BY <1>6, <2>2, <3>1, <3>2, QuietChain DEF SeeBuffer
    <3> HIDE DEF t
    <3> QED BY <3>3 DEF Move
  <2> QED BY <1>6, <2>1, <2>2 DEF OnBufferTx
<1>7. ASSUME NEW w \in mon[p].txs, OnRevoked(p, w), ch[p].kind = "Signed" PROVE Move(p)
  <2>1. CASE Panic(p, "per update secret")
    BY <2>1, PanicIdle DEF Move
  <2>2. CASE /\ chain' = [chain EXCEPT !.next = [w.tx EXCEPT !.kind = "punish"]]
             /\ \/ FinishPersist(p, OfKind(p, "ClosedPunished"), cleanup_channel(mon[p]), live[p], live[p], NoTx, {})
                \/ SendThenCrash(p, NoTx)
    BY <1>4, <1>5, <1>7, <1>k, <2>2, SendThenCrashIdle DEF Quiet, Move
  <2> QED BY <1>7, <2>1, <2>2 DEF OnRevoked
<1>8. ASSUME NEW w \in mon[p].txs, OnCollaborativeClose(p, w), ch[p].kind = "Signed" PROVE Move(p)
  <2> DEFINE l == ContractClosed(p)
  <2>1. CASE /\ FinishPersist(p, OfKind(p, "CollaborativelyClosed"), cleanup_channel(mon[p]), l, l, NoTx, {})
             /\ chain' = chain
    BY <1>4, <1>8, <1>k, <2>1, QuietChain
  <2>2. CASE Fault /\ Upsert(p, ch[p], disk[p], l) /\ UNCHANGED <<disk, msgs, revealed, chain>>
    <3>1. mon' = [mon EXCEPT ![p] = disk[p]] /\ ch' = [ch EXCEPT ![p] = ch[p]] /\ faults' = faults + 1
      BY <2>2 DEF Upsert, Fault
    <3>2. mon'[p] = disk[p] /\ \A q \in Party \ {p} : mon'[q] = mon[q]
      BY <3>1 DEF Types, TypeOK
    <3>3. Watched(p)' \subseteq Watched(p) /\ \A q \in Party \ {p} : Watched(q)' = Watched(q)
      BY <2>2, <3>2 DEF Watched
    <3>4. Turn(p, ch[p], {}, {})
      BY <1>c, <2>2, <3>1, <3>3 DEF Turn
    <3>5. Idle(p, {})
      BY <2>2, <3>4, QuietChain DEF Idle
    <3> QED BY <3>5 DEF Move
  <2> QED BY <1>8, <2>1, <2>2 DEF OnCollaborativeClose
<1>9. ASSUME NEW w \in mon[p].txs, OnSettleTx(p, w), ch[p].kind = "Signed" PROVE Move(p)
  BY <1>4, <1>9, <1>k, QuietChain DEF OnSettleTx
<1>10. ASSUME OnCet(p), ch[p].kind = "Signed" PROVE Move(p)
  <2> DEFINE k == IF In(p, "Closing") /\ ~ch[p].s.offer THEN "CounterClosed" ELSE "Closed"
             l == live[p] \ {ch[p].s.con}
  <2>1. FinishPersist(p, OfKind(p, k), cleanup_channel(mon[p]), l, l, NoTx, {}) /\ chain' = chain
    BY <1>10 DEF OnCet
  <2>2. k \in ClosedKinds
    BY <1>k
  <2> HIDE DEF k, l
  <2> QED BY <1>4, <1>10, <2>1, <2>2, QuietChain
<1>11. try_finalize_closing_established_channel(p) => Move(p)
  <2> SUFFICES ASSUME try_finalize_closing_established_channel(p) PROVE Move(p)
    OBVIOUS
  <2> DEFINE k == IF ch[p].s.offer THEN "Closed" ELSE "CounterClosed"
             l == live[p] \ {ch[p].s.con}
  <2>1. /\ \E t : chain' = [chain EXCEPT !.next = t]
        /\ \/ Finish(p, OfKind(p, k), cleanup_channel(mon[p]), l, NoTx, {})
           \/ SendThenCrash(p, NoTx)
        /\ ch[p].kind = "Signed"
    BY DEF try_finalize_closing_established_channel, In
  <2>2. k \in ClosedKinds
    BY <1>k
  <2> HIDE DEF k, l
  <2>3. Quiet
    BY <1>5, <2>1
  <2> QED BY <1>4, <2>1, <2>2, <2>3, SendThenCrashIdle DEF Quiet, Move
<1> QED BY <1>1, <1>2, <1>3, <1>6, <1>7, <1>8, <1>9, <1>10, <1>11 DEF process_watched_txs

LEMMA NextMoves ==
  ASSUME Types, MessageInv, UseInv, OpeningInv, \A p \in Party : StateInv(p), Next
  PROVE  Elsewhere \/ \E p \in Party : Move(p)
<1>1. CASE offer_channel
  BY <1>1, SetupMoves, Parties
<1>2. ASSUME NEW p \in Party, Call(p) PROVE Move(p)
  <2>1. force_close_channel(p) => Move(p)
    BY CloseMoves DEF force_close_channel
  <2> QED BY <1>2, <2>1, SetupMoves, SettleMoves, RenewMoves, CloseMoves DEF Call
<1>3. ASSUME NEW p \in Party, Periodic(p) PROVE Move(p)
  <2>1. check_for_timed_out_channels(p) => Move(p)
    BY CloseMoves DEF check_for_timed_out_channels
  <2> QED BY <1>3, <2>1, WatchMoves DEF Periodic
<1>4. ASSUME NEW p \in Party, Crash(p) PROVE Move(p)
  BY <1>4, CrashIdle DEF Move
<1>5. ASSUME NEW p \in Party, NEW m \in msgs, m.to = p, Receive(p, m) PROVE Move(p)
  <2>1. CASE on_offer_channel(p, m) \/ on_accept_channel(p, m) \/ on_sign_channel(p, m)
    BY <1>5, <2>1, SetupMoves
  <2>2. CASE \/ on_settle_offer(p, m) \/ on_settle_accept(p, m) \/ on_settle_confirm(p, m)
             \/ on_settle_finalize(p, m)
    BY <1>5, <2>2, SettleMoves
  <2>3. CASE \/ on_renew_offer(p, m) \/ on_renew_accept(p, m) \/ on_renew_confirm(p, m)
             \/ on_renew_finalize(p, m) \/ on_renew_revoke(p, m) \/ on_reject(p, m)
    BY <1>5, <2>3, RenewMoves
  <2>4. CASE on_collaborative_close_offer(p, m)
    BY <1>5, <2>4, CloseMoves
  <2> QED BY <1>5, <2>1, <2>2, <2>3, <2>4 DEF Receive
<1>6. CASE Mine \/ OracleAttests
  <2>1. UNCHANGED <<ch, mon, disk, msgs, revealed, faults>>
    BY <1>6 DEF Mine, OracleAttests
  <2>2. CASE OracleAttests
    BY <2>1, <2>2 DEF OracleAttests, Elsewhere
  <2>3. CASE Mine
    BY <2>1, <2>3 DEF Mine, FundConfirms, MineSpend, MineNext, Elsewhere, Types, TypeOK, Chain
  <2> QED BY <1>6, <2>2, <2>3
<1> QED BY <1>1, <1>2, <1>3, <1>4, <1>5, <1>6, Parties DEF Next

-----------------------------------------------------------------------------
(* The invariants.                                                         *)

\* What is known of a turn of p, without the other party.
LEMMA TurnFacts ==
  ASSUME Types, NEW p \in Party, NEW d, NEW out, NEW new, Turn(p, d, out, new)
  PROVE  /\ ch'[p] = d /\ \A q \in Party \ {p} : ch'[q] = ch[q]
         /\ \A x : x \in revealed'[p] <=> x \in revealed[p] \/ (x \in out /\ x.type \in Reveals)
         /\ \A q \in Party \ {p} : revealed'[q] = revealed[q]
         /\ \A x \in msgs' : x \in msgs \/ x \in out
         /\ \A t \in Watched(p)' : t \in Watched(p) \/ t \in new
         /\ \A q \in Party \ {p} : Watched(q)' = Watched(q)
         /\ faults \in Nat /\ (faults' = 0 => faults = 0) /\ faults' \in Nat
<1>1. ch \in [Party -> Channel] /\ revealed \in [Party -> SUBSET Msg]
  BY DEF Types, TypeOK
<1>2. /\ ch' = [ch EXCEPT ![p] = d]
      /\ revealed' = [revealed EXCEPT ![p] = @ \union {x \in out : x.type \in Reveals}]
  BY DEF Turn
<1>3. ch'[p] = d /\ \A q \in Party \ {p} : ch'[q] = ch[q]
  BY <1>1, <1>2
<1>4. /\ \A x : x \in revealed'[p] <=> x \in revealed[p] \/ (x \in out /\ x.type \in Reveals)
      /\ \A q \in Party \ {p} : revealed'[q] = revealed[q]
  BY <1>1, <1>2
<1>5. /\ \A x \in msgs' : x \in msgs \/ x \in out
      /\ \A t \in Watched(p)' : t \in Watched(p) \/ t \in new
      /\ \A q \in Party \ {p} : Watched(q)' = Watched(q)
  BY DEF Turn
<1>6. faults \in Nat /\ (faults' = 0 => faults = 0) /\ faults' \in Nat
  BY Bounded DEF Turn
<1> QED BY <1>3, <1>4, <1>5, <1>6

\* The party that does not act keeps its invariants.
LEMMA OthersKeep ==
  ASSUME Types, NEW p \in Party, NEW d, NEW out, NEW new, Turn(p, d, out, new), scenario' = scenario,
         NEW q \in Party, q # p, StateInv(q), SecretInv(q), WatchInv(q), HiddenInv(q), OwnPointInv(q)
  PROVE  StateInv(q)' /\ SecretInv(q)' /\ WatchInv(q)' /\ HiddenInv(q)' /\ OwnPointInv(q)'
<1>1. /\ ch'[q] = ch[q] /\ revealed'[q] = revealed[q] /\ Watched(q)' = Watched(q)
      /\ (faults' = 0 => faults = 0)
  BY TurnFacts
<1>2. StateInv(q)'
  BY <1>1 DEF StateInv
<1>3. SecretInv(q)'
  BY <1>1 DEF SecretInv
<1>4. WatchInv(q)'
  BY <1>1 DEF WatchInv
<1>5. HiddenInv(q)'
  BY <1>1 DEF HiddenInv, Hidden, GivenAway, In
<1>6. OwnPointInv(q)'
  BY <1>1 DEF OwnPointInv
<1> QED BY <1>2, <1>3, <1>4, <1>5, <1>6

\* The fields of a channel after each kind of update.
Same(c, d) == /\ d.kind = c.kind /\ d.ver = c.ver /\ d.own = c.own /\ d.ctr = c.ctr
              /\ d.prev = c.prev /\ d.secrets = c.secrets

LEMMA SwapFields ==
  ASSUME NEW c \in Channel, NEW s
  PROVE  Same(c, Swap(c, s)) /\ Swap(c, s).s = s /\ Swap(c, s).rb = c.s
  BY DEF Channel, Same, Swap

LEMMA SetFields ==
  ASSUME NEW c \in Channel, NEW s
  PROVE  Same(c, [c EXCEPT !.s = s]) /\ [c EXCEPT !.s = s].s = s /\ [c EXCEPT !.s = s].rb = c.rb
  BY DEF Channel, Same

LEMMA RollBackFields ==
  ASSUME NEW c \in Channel
  PROVE  Same(c, RollBack(c)) /\ RollBack(c).s = c.rb /\ RollBack(c).rb = NoState
  BY DEF Channel, Same, RollBack

LEMMA UpdatedFields ==
  ASSUME Types, NEW p \in Party
  PROVE  LET c == ch[p]
             t == c.s.tx
             a == settle_channel_finalize(p)
             b == renew_channel_on_finalize(p)
             d == renew_channel_on_revoke(p)
         IN  /\ a.kind = c.kind /\ a.ver = c.ver + 1 /\ a.own = Point(p, t) /\ a.ctr = Point(Other(p), t)
             /\ a.s = Bare("Settled", t) /\ a.rb = NoState
             /\ a.prev = c.prev /\ a.secrets = c.secrets \union {c.ver}
             /\ b.kind = c.kind /\ b.ver = c.ver + 1 /\ b.own = Point(p, t) /\ b.ctr = Point(Other(p), t)
             /\ b.s = WithContract("Established", t, TRUE) /\ b.rb = NoState
             /\ b.prev = c.prev /\ b.secrets = c.secrets \union {c.ver}
             /\ d.kind = c.kind /\ d.ver = c.ver + 1 /\ d.own = Point(p, t) /\ d.ctr = Point(Other(p), t)
             /\ d.s = WithContract("Established", t, TRUE) /\ d.rb = c.rb
             /\ d.prev = c.prev /\ d.secrets = c.secrets \union {c.ver}
<1> DEFINE c == ch[p]
           t == c.s.tx
           e == WithContract("Established", t, TRUE)
           b == Bare("Settled", t)
<1>1. e.tx = t /\ b.tx = t
  BY DEF WithContract, Bare
<1>2. c \in Channel
  BY Stored
<1>3. /\ Updated(p, e) = [c EXCEPT !.s = e, !.ver = c.ver + 1, !.secrets = c.secrets \union {c.ver},
                                    !.own = Point(p, t), !.ctr = Point(Other(p), t)]
      /\ Updated(p, b) = [c EXCEPT !.s = b, !.ver = c.ver + 1, !.secrets = c.secrets \union {c.ver},
                                    !.own = Point(p, t), !.ctr = Point(Other(p), t)]
  BY <1>1 DEF Updated
<1> DEFINE i == Point(p, t)
           j == Point(Other(p), t)
           x == c.secrets \union {c.ver}
<1> HIDE DEF e, b, i, j, x
<1>4. /\ Updated(p, e) = [c EXCEPT !.s = e, !.ver = c.ver + 1, !.secrets = x, !.own = i, !.ctr = j]
      /\ Updated(p, b) = [c EXCEPT !.s = b, !.ver = c.ver + 1, !.secrets = x, !.own = i, !.ctr = j]
  BY <1>3 DEF i, j, x
<1>5. ASSUME NEW u
      PROVE  LET v == [c EXCEPT !.s = u, !.ver = c.ver + 1, !.secrets = x, !.own = i, !.ctr = j]
                 w == [v EXCEPT !.rb = NoState]
             IN  /\ v.kind = c.kind /\ v.ver = c.ver + 1 /\ v.own = i /\ v.ctr = j
                 /\ v.s = u /\ v.rb = c.rb /\ v.prev = c.prev /\ v.secrets = x
                 /\ w.kind = c.kind /\ w.ver = c.ver + 1 /\ w.own = i /\ w.ctr = j
                 /\ w.s = u /\ w.rb = NoState /\ w.prev = c.prev /\ w.secrets = x
  BY <1>2 DEF Channel
<1>6. /\ settle_channel_finalize(p) = [Updated(p, b) EXCEPT !.rb = NoState]
      /\ renew_channel_on_finalize(p) = [Updated(p, e) EXCEPT !.rb = NoState]
      /\ renew_channel_on_revoke(p) = Updated(p, e)
  BY DEF settle_channel_finalize, renew_channel_on_finalize, renew_channel_on_revoke, b, e
<1>7. LET v == settle_channel_finalize(p) IN
         /\ v.kind = c.kind /\ v.ver = c.ver + 1 /\ v.own = i /\ v.ctr = j
         /\ v.s = b /\ v.rb = NoState /\ v.prev = c.prev /\ v.secrets = x
  BY <1>4, <1>5, <1>6
<1>8. LET v == renew_channel_on_finalize(p) IN
         /\ v.kind = c.kind /\ v.ver = c.ver + 1 /\ v.own = i /\ v.ctr = j
         /\ v.s = e /\ v.rb = NoState /\ v.prev = c.prev /\ v.secrets = x
  BY <1>4, <1>5, <1>6
<1>9. LET v == renew_channel_on_revoke(p) IN
         /\ v.kind = c.kind /\ v.ver = c.ver + 1 /\ v.own = i /\ v.ctr = j
         /\ v.s = e /\ v.rb = c.rb /\ v.prev = c.prev /\ v.secrets = x
  BY <1>4, <1>5, <1>6
<1> QED BY <1>7, <1>8, <1>9 DEF e, b, i, j, x

LEMMA FinalizedFields ==
  ASSUME Types, NEW p \in Party, NEW t
  PROVE  LET c == ch[p]
             d == verify_renew_confirm_and_finalize(p, t)
         IN  /\ d.kind = c.kind /\ d.ver = c.ver /\ d.own = Point(p, t) /\ d.ctr = Point(Other(p), t)
             /\ d.s.st = "RenewFinalized" /\ d.s.tx = t /\ d.s.con = t.o /\ d.rb = c.rb
             /\ d.prev = c.ctr /\ d.secrets = c.secrets
<1> DEFINE c == ch[p]
           s == WithContract("RenewFinalized", t, FALSE)
           i == Point(p, t)
           j == Point(Other(p), t)
<1>1. verify_renew_confirm_and_finalize(p, t) = [c EXCEPT !.s = s, !.prev = c.ctr, !.own = i, !.ctr = j]
  BY DEF verify_renew_confirm_and_finalize
<1>2. c \in Channel
  BY Stored
<1>4. s.st = "RenewFinalized" /\ s.tx = t /\ s.con = t.o
  BY DEF WithContract
<1> HIDE DEF s, i, j
<1>3. LET d == [c EXCEPT !.s = s, !.prev = c.ctr, !.own = i, !.ctr = j] IN
         /\ d.kind = c.kind /\ d.ver = c.ver /\ d.own = i /\ d.ctr = j
         /\ d.s = s /\ d.rb = c.rb /\ d.prev = c.ctr /\ d.secrets = c.secrets
  BY <1>2 DEF Channel
<1> QED BY <1>1, <1>3, <1>4 DEF i, j

LEMMA ForceCloseFields ==
  ASSUME NEW c \in Channel
  PROVE  LET d == initiate_unilateral_close(c)
         IN  Same(c, d) /\ d.s.st = "Closing" /\ d.s.tx = c.s.tx /\ d.s.con = c.s.con /\ d.rb = c.rb
<1> DEFINE s == [c.s EXCEPT !.st = "Closing", !.offer = TRUE]
<1>1. initiate_unilateral_close(c) = [c EXCEPT !.s = s]
  BY DEF initiate_unilateral_close, Channel, State
<1>2. s.st = "Closing" /\ s.tx = c.s.tx /\ s.con = c.s.con
  BY DEF Channel, State
<1> HIDE DEF s
<1> QED BY <1>1, <1>2, SetFields

\* The transactions that a party proposes and completes.
LEMMA NewTxs ==
  ASSUME Types, NEW p \in Party, ch[p].ver < MaxUpdates
  PROVE  /\ \A k \in Kind : LET t == Proposal(p, k) IN t \in Tx /\ t.kind = k /\ t.by = p /\ t.o = ch[p].ver + 1
         /\ ch[p].s.tx \in Tx =>
                LET t == Completed(p) IN
                   /\ t \in Tx /\ t.kind = ch[p].s.tx.kind /\ t.by = ch[p].s.tx.by
                   /\ t.o = ch[p].s.tx.o /\ t.a = ch[p].ver + 1
<1>1. ch[p].ver + 1 \in Idx /\ 0 \in Idx
  BY Stored, ChannelAssumption DEF Channel, Idx
<1>2. ASSUME NEW k \in Kind
      PROVE LET t == Proposal(p, k) IN t \in Tx /\ t.kind = k /\ t.by = p /\ t.o = ch[p].ver + 1
  BY <1>1 DEF Proposal, Tx
<1> DEFINE u == ch[p].s.tx
           i == ch[p].ver + 1
<1>3. Completed(p) = [u EXCEPT !.a = i]
  BY DEF Completed
<1>4. i \in Idx
  BY <1>1
<1> HIDE DEF u, i
<1>5. ASSUME u \in Tx
      PROVE LET t == [u EXCEPT !.a = i] IN
               t \in Tx /\ t.kind = u.kind /\ t.by = u.by /\ t.o = u.o /\ t.a = i
  BY <1>4, <1>5 DEF Tx
<1> QED BY <1>2, <1>3, <1>5 DEF u, i

LEMMA FirstBufferTx == /\ FirstBuffer \in Tx /\ FirstBuffer.kind = "buffer"
                       /\ \A p \in Party : Point(p, FirstBuffer) = 0
  BY ChannelAssumption DEF FirstBuffer, Tx, Kind, Idx, Party, Point

LEMMA SignedFields ==
  ASSUME NEW d, d = Signs(TRUE) \/ d = Signs(FALSE)
  PROVE  /\ d.kind = "Signed" /\ d.s.st = "Established" /\ d.s.tx = FirstBuffer
         /\ d.rb = NoState /\ d.ver = 0 /\ d.own = 0 /\ d.ctr = 0
<1>1. CASE d = Signs(TRUE)
  BY <1>1 DEF Signs, NoChannel, WithContract
<1>2. CASE d = Signs(FALSE)
  BY <1>2 DEF Signs, NoChannel, WithContract
<1> QED BY <1>1, <1>2

LEMMA StateKept ==
  ASSUME Types, MessageInv, NEW p \in Party, StateInv(p), WatchInv(p), Move(p)
  PROVE  StateInv(p)'
<1> DEFINE c == ch[p]
           d == ch'[p]
<1>a. c \in Channel /\ c.ver \in Nat /\ NoTx \notin Tx /\ Other(p) \in Party /\ Other(p) # p
  BY Stored, Indices, Parties, ChannelAssumption DEF Channel
<1>b. "Signed" \notin Opening /\ "Signed" \notin ClosedKinds
  BY DEF Opening, ClosedKinds
<1>c. StateInv(p) <=>
        (c.kind = "Signed" =>
          /\ Fits(p, c, c.s)
          /\ c.s.st \in Updating \union {"RenewFinalized"} => Replaces(p, c)
          /\ c.s.st = "CollaborativeCloseOffered" => Fits(p, c, c.rb))
  BY DEF StateInv
<1>d. StateInv(p)' <=>
        (d.kind = "Signed" =>
          /\ Fits(p, d, d.s)
          /\ d.s.st \in Updating \union {"RenewFinalized"} => Replaces(p, d)
          /\ d.s.st = "CollaborativeCloseOffered" => Fits(p, d, d.rb))
  BY DEF StateInv
<1> HIDE DEF c
<1>1. ASSUME NEW out, Idle(p, out) PROVE StateInv(p)'
  BY <1>1, <1>c, <1>d, TurnFacts DEF Idle, c
<1>2. ASSUME NEW k, NEW out, Setup(p, k, out) PROVE StateInv(p)'
  <2>1. d = OfKind(p, k) /\ k \in Opening
    BY <1>2, TurnFacts DEF Setup
  <2>2. d.kind # "Signed"
    BY <1>a, <1>b, <2>1 DEF OfKind, Channel, c
  <2> QED BY <1>d, <2>2
<1>3. ASSUME NEW k, NEW out, Open(p, k, out) PROVE StateInv(p)'
  <2>1. d = k /\ (k = Signs(TRUE) \/ k = Signs(FALSE))
    BY <1>3, TurnFacts DEF Open
  <2>2. /\ d.kind = "Signed" /\ d.s.st = "Established" /\ d.s.tx = FirstBuffer
        /\ d.rb = NoState /\ d.ver = 0 /\ d.own = 0 /\ d.ctr = 0
    BY <2>1, SignedFields
  <2> HIDE DEF d
  <2>3. Fits(p, d, d.s)
    BY <1>a, <2>2, FirstBufferTx DEF Fits, TxKind, SettleStates, StableStates, Offers, Received, Accepts
  <2> QED BY <1>d, <2>2, <2>3 DEF Updating, SettleStates, RenewStates
<1>4. ASSUME NEW s, NEW out, Propose(p, s, out) PROVE StateInv(p)'
  <2>1. /\ d = Swap(c, s) /\ c.kind = "Signed" /\ c.s.st \in StableStates /\ c.ver < MaxUpdates
        /\ s.st \in {"SettledOffered", "RenewOffered"} /\ (s.offer <=> s.st = "RenewOffered")
        /\ s.tx = Proposal(p, TxKind(s.st))
    BY <1>4, TurnFacts DEF Propose, c
  <2>2. Same(c, d) /\ d.s = s /\ d.rb = c.s
    BY <1>a, <2>1, SwapFields
  <2>3. TxKind(s.st) \in Kind /\ s.tx \in Tx /\ s.tx.kind = TxKind(s.st) /\ s.tx.by = p /\ s.tx.o = c.ver + 1
    BY <2>1, NewTxs DEF TxKind, SettleStates, Kind, c
  <2> HIDE DEF d
  <2>4. Fits(p, d, d.s)
    <3>1. c.own = c.ver
      BY <1>c, <2>1 DEF Fits
    <3> QED BY <1>a, <2>1, <2>2, <2>3, <3>1 DEF Same, Fits, StableStates, Offers, Received, Accepts
  <2>5. Replaces(p, d)
    BY <1>c, <2>1, <2>2 DEF Same, Fits, Replaces, StableStates
  <2> QED BY <1>d, <2>1, <2>2, <2>4, <2>5
<1>5. ASSUME NEW m, NEW s, GetOffer(p, m, s) PROVE StateInv(p)'
  <2>1. /\ d = Swap(c, s) /\ c.kind = "Signed" /\ c.s.st \in StableStates /\ m \in msgs /\ m.to = p
        /\ s.tx = m.tx /\ ~s.offer
        /\ \/ m.type = "SettleOffer" /\ s.st = "SettledReceived"
           \/ m.type = "RenewOffer" /\ s.st = "RenewOffered"
    BY <1>5, TurnFacts DEF GetOffer, c
  <2>2. Same(c, d) /\ d.s = s /\ d.rb = c.s
    BY <1>a, <2>1, SwapFields
  <2>3. s.tx \in Tx /\ s.tx.kind = TxKind(s.st) /\ s.tx.by = Other(p)
    BY <2>1 DEF TxKind, SettleStates, MessageInv
  <2> HIDE DEF d
  <2>4. Fits(p, d, d.s)
    <3>1. c.own = c.ver
      BY <1>c, <2>1 DEF Fits
    <3> QED BY <1>a, <2>1, <2>2, <2>3, <3>1 DEF Same, Fits, StableStates, Offers, Received, Accepts
  <2>5. Replaces(p, d)
    BY <1>c, <2>1, <2>2 DEF Same, Fits, Replaces, StableStates
  <2> QED BY <1>d, <2>1, <2>2, <2>4, <2>5
<1>6. ASSUME NEW out, Withdraw(p, out) PROVE StateInv(p)'
  <2>1. /\ d = RollBack(c) /\ c.kind = "Signed"
        /\ c.s.st \in {"SettledOffered", "SettledReceived", "RenewOffered"}
    BY <1>6, TurnFacts DEF Withdraw, c
  <2>2. Same(c, d) /\ d.s = c.rb
    BY <1>a, <2>1, RollBackFields
  <2>3. c.s.st \in Updating /\ c.s.st # "RenewFinalized"
    BY <2>1 DEF Updating, SettleStates, RenewStates
  <2> HIDE DEF d
  <2>4. Replaces(p, c) /\ c.own = c.ver
    BY <1>c, <2>1, <2>3 DEF Fits
  <2>5. Fits(p, d, d.s)
    BY <1>a, <2>2, <2>3, <2>4 DEF Same, Fits, Replaces, StableStates, Offers, Received, Accepts
  <2>6. d.s.st \in StableStates
    BY <2>2, <2>4 DEF Replaces
  <2> QED BY <1>d, <2>5, <2>6 DEF StableStates, Updating, SettleStates, RenewStates
<1>7. ASSUME NEW s, NEW out, Accept(p, s, out) PROVE StateInv(p)'
  <2>1. /\ d = [c EXCEPT !.s = s] /\ c.kind = "Signed" /\ Received(c.s) /\ c.ver < MaxUpdates
        /\ s.st = IF c.s.st = "SettledReceived" THEN "SettledAccepted" ELSE "RenewAccepted"
        /\ s.tx = Completed(p)
    BY <1>7, TurnFacts DEF Accept, c
  <2>2. Same(c, d) /\ d.s = s /\ d.rb = c.rb
    BY <1>a, <2>1, SetFields
  <2>3. c.s.st \in Updating /\ c.s.st # "RenewFinalized" /\ TxKind(s.st) = TxKind(c.s.st)
    BY <2>1 DEF Received, Updating, SettleStates, RenewStates, TxKind
  <2>4. Fits(p, c, c.s) /\ Replaces(p, c)
    BY <1>c, <2>1, <2>3
  <2>5. s.tx \in Tx /\ s.tx.kind = TxKind(s.st) /\ s.tx.by = Other(p) /\ s.tx.a = c.ver + 1
    BY <2>1, <2>3, <2>4, NewTxs DEF Fits, c
  <2> HIDE DEF d
  <2>6. Fits(p, d, d.s)
    BY <1>a, <2>1, <2>2, <2>3, <2>4, <2>5 DEF Same, Fits, StableStates, Offers, Received, Accepts
  <2>7. Replaces(p, d)
    BY <2>1, <2>2, <2>3, <2>4 DEF Same, Replaces
  <2> QED BY <1>d, <2>1, <2>2, <2>6, <2>7
<1>8. ASSUME NEW m, NEW s, NEW out, Confirm(p, m, s, out) PROVE StateInv(p)'
  <2>1. /\ d = [c EXCEPT !.s = s] /\ c.kind = "Signed" /\ Offers(c.s) /\ m \in msgs /\ m.to = p
        /\ s.tx = m.tx /\ m.tx.by = p /\ m.tx.o = c.s.tx.o
        /\ \/ c.s.st = "SettledOffered" /\ m.type = "SettleAccept" /\ s.st = "SettledConfirmed"
           \/ c.s.st = "RenewOffered" /\ m.type = "RenewAccept" /\ s.st = "RenewConfirmed"
    BY <1>8, TurnFacts DEF Confirm, c
  <2>2. Same(c, d) /\ d.s = s /\ d.rb = c.rb
    BY <1>a, <2>1, SetFields
  <2>3. c.s.st \in Updating /\ c.s.st # "RenewFinalized"
    BY <2>1 DEF Updating, SettleStates, RenewStates
  <2>4. Fits(p, c, c.s) /\ Replaces(p, c)
    BY <1>c, <2>1, <2>3
  <2>5. s.tx \in Tx /\ s.tx.kind = TxKind(s.st) /\ s.tx.o = c.ver + 1
    BY <2>1, <2>4 DEF MessageInv, TxKind, SettleStates, Fits
  <2> HIDE DEF d
  <2>6. Fits(p, d, d.s)
    BY <1>a, <2>1, <2>2, <2>3, <2>4, <2>5 DEF Same, Fits, StableStates, Offers, Received, Accepts
  <2>7. Replaces(p, d)
    BY <2>1, <2>2, <2>3, <2>4 DEF Same, Replaces
  <2> QED BY <1>d, <2>1, <2>2, <2>6, <2>7
\* What Settle, Renew and Revoke have in common.
<1>9. ASSUME d.kind = "Signed", c.s.tx \in Tx, d.s.tx = c.s.tx, d.ver = c.ver + 1, Point(p, c.s.tx) = c.ver + 1,
             d.own = Point(p, c.s.tx), d.ctr = Point(Other(p), c.s.tx), d.s.st \in StableStates,
             c.s.tx.kind = TxKind(d.s.st)
      PROVE  StateInv(p)'
  <2> HIDE DEF d
  <2>1. Fits(p, d, d.s)
    BY <1>9, <1>a DEF Fits, StableStates, Offers, Received, Accepts
  <2> QED BY <1>9, <1>d, <2>1 DEF StableStates, Updating, SettleStates, RenewStates
<1>10. ASSUME NEW m, NEW out, Settle(p, m, out) PROVE StateInv(p)'
  <2>1. d = settle_channel_finalize(p) /\ c.kind = "Signed" /\ c.s.st \in {"SettledAccepted", "SettledConfirmed"}
    BY <1>10, TurnFacts DEF Settle, c
  <2>2. /\ d.kind = "Signed" /\ d.ver = c.ver + 1 /\ d.own = Point(p, c.s.tx) /\ d.ctr = Point(Other(p), c.s.tx)
        /\ d.s = Bare("Settled", c.s.tx)
    BY <2>1, UpdatedFields DEF c
  <2>3. d.s.st = "Settled" /\ d.s.tx = c.s.tx
    BY <2>2 DEF Bare
  <2>4. c.s.tx \in Tx /\ c.s.tx.kind = TxKind(d.s.st) /\ Point(p, c.s.tx) = c.ver + 1
    BY <1>a, <1>c, <2>1, <2>3 DEF Fits, TxKind, SettleStates, Offers, Accepts, Point
  <2> QED BY <1>9, <2>2, <2>3, <2>4 DEF StableStates
<1>11. ASSUME NEW m, NEW out, Finalize(p, m, out) PROVE StateInv(p)'
  <2> DEFINE t == c.s.tx
  <2>1. d = verify_renew_confirm_and_finalize(p, t) /\ c.kind = "Signed" /\ c.s.st = "RenewAccepted"
    BY <1>11, TurnFacts DEF Finalize, c
  <2>2. /\ d.kind = "Signed" /\ d.ver = c.ver /\ d.own = Point(p, t) /\ d.ctr = Point(Other(p), t)
        /\ d.s.st = "RenewFinalized" /\ d.s.tx = t /\ d.rb = c.rb /\ d.prev = c.ctr
    BY <2>1, FinalizedFields DEF c
  <2>3. Fits(p, c, c.s) /\ Replaces(p, c)
    BY <1>c, <2>1 DEF Updating, RenewStates
  <2>4. t \in Tx /\ t.kind = "buffer" /\ t.by = Other(p) /\ t.a = c.ver + 1 /\ Point(p, t) = c.ver + 1
    BY <1>a, <2>1, <2>3 DEF Fits, TxKind, SettleStates, Accepts, Point
  <2> HIDE DEF d, t
  <2>5. Fits(p, d, d.s)
    BY <1>a, <2>2, <2>4 DEF Fits, TxKind, SettleStates, StableStates, Updating, Offers, Received, Accepts
  <2>6. Replaces(p, d)
    BY <2>1, <2>2, <2>3 DEF Replaces
  <2> QED BY <1>d, <2>2, <2>5, <2>6
<1>12. ASSUME NEW m, NEW out, Renew(p, m, out) PROVE StateInv(p)'
  <2>1. d = renew_channel_on_finalize(p) /\ c.kind = "Signed" /\ c.s.st = "RenewConfirmed"
    BY <1>12, TurnFacts DEF Renew, c
  <2>2. /\ d.kind = "Signed" /\ d.ver = c.ver + 1 /\ d.own = Point(p, c.s.tx) /\ d.ctr = Point(Other(p), c.s.tx)
        /\ d.s = WithContract("Established", c.s.tx, TRUE)
    BY <2>1, UpdatedFields DEF c
  <2>3. d.s.st = "Established" /\ d.s.tx = c.s.tx
    BY <2>2 DEF WithContract
  <2>4. c.s.tx \in Tx /\ c.s.tx.kind = TxKind(d.s.st) /\ Point(p, c.s.tx) = c.ver + 1
    BY <1>a, <1>c, <2>1, <2>3 DEF Fits, TxKind, SettleStates, Offers, Accepts, Point
  <2> QED BY <1>9, <2>2, <2>3, <2>4 DEF StableStates
<1>13. ASSUME NEW m, Revoke(p, m) PROVE StateInv(p)'
  <2>1. d = renew_channel_on_revoke(p) /\ c.kind = "Signed" /\ c.s.st = "RenewFinalized"
    BY <1>13, TurnFacts DEF Revoke, c
  <2>2. /\ d.kind = "Signed" /\ d.ver = c.ver + 1 /\ d.own = Point(p, c.s.tx) /\ d.ctr = Point(Other(p), c.s.tx)
        /\ d.s = WithContract("Established", c.s.tx, TRUE)
    BY <2>1, UpdatedFields DEF c
  <2>3. d.s.st = "Established" /\ d.s.tx = c.s.tx
    BY <2>2 DEF WithContract
  <2>4. c.s.tx \in Tx /\ c.s.tx.kind = TxKind(d.s.st) /\ Point(p, c.s.tx) = c.ver + 1
    BY <1>a, <1>c, <2>1, <2>3 DEF Fits, TxKind, SettleStates, Offers, Accepts, Point
  <2> QED BY <1>9, <2>2, <2>3, <2>4 DEF StableStates
<1>14. ASSUME NEW t, NEW out, OfferClose(p, t, out) PROVE StateInv(p)'
  <2> DEFINE s == Bare("CollaborativeCloseOffered", t)
  <2>1. d = Swap(c, s) /\ c.kind = "Signed" /\ t \in Tx /\ t.kind = "close"
    BY <1>14, TurnFacts DEF OfferClose, close_offered, c
  <2>2. s.st = "CollaborativeCloseOffered" /\ s.tx = t
    BY DEF Bare
  <2> HIDE DEF s
  <2>3. Same(c, d) /\ d.s = s /\ d.rb = c.s
    BY <1>a, <2>1, SwapFields
  <2> HIDE DEF d
  <2>4. Fits(p, d, d.s)
    BY <1>a, <2>1, <2>2, <2>3 DEF Fits, TxKind, SettleStates, RenewStates, StableStates, Updating, Offers,
                                  Received, Accepts
  <2>5. Fits(p, d, d.rb)
    BY <1>c, <2>1, <2>3 DEF Same, Fits
  <2> QED BY <1>d, <2>2, <2>3, <2>4, <2>5 DEF Updating, SettleStates, RenewStates
\* A channel that is being closed.
<1>15. ASSUME d.s.st = "Closing", d.s.tx \in Tx, d.s.tx.kind = "buffer" PROVE StateInv(p)'
  <2> HIDE DEF d
  <2>1. Fits(p, d, d.s)
    BY <1>a, <1>15 DEF Fits, TxKind, SettleStates, RenewStates, StableStates, Updating, Offers, Received, Accepts
  <2> QED BY <1>d, <1>15, <2>1 DEF Updating, SettleStates, RenewStates
<1>16. CASE ForceClose(p)
  <2> DEFINE e == Closable(p)
  <2>1. /\ d = initiate_unilateral_close(e) /\ e.s.st \in {"Established", "RenewFinalized"}
        /\ c.kind = "Signed" /\ e \in {c, RollBack(c)}
    BY <1>16, TurnFacts DEF ForceClose, Closable, c
  <2>2. e.s \in State /\ e.s \in {c.s, c.rb} /\ d.s.st = "Closing" /\ d.s.tx = e.s.tx
    <3>1. RollBack(c) \in Channel /\ RollBack(c).s = c.rb
      BY <1>a, RollBackFields DEF Channel, RollBack, State, NoState, SignedState
    <3>2. e \in Channel /\ e.s \in {c.s, c.rb}
      BY <1>a, <2>1, <3>1
    <3> HIDE DEF e
    <3>3. d.s.st = "Closing" /\ d.s.tx = e.s.tx
      BY <2>1, <3>2, ForceCloseFields
    <3> QED BY <3>2, <3>3 DEF Channel
  <2>3. e.s = c.s => e.s.tx \in Tx /\ e.s.tx.kind = "buffer"
    BY <1>c, <2>1 DEF Fits, TxKind, SettleStates
  <2>4. e.s = c.rb => e.s.tx \in Tx /\ e.s.tx.kind = "buffer"
    <3>1. SUFFICES ASSUME e.s = c.rb, e = RollBack(c), c.s.st \notin Direct
                   PROVE  e.s.tx \in Tx /\ e.s.tx.kind = "buffer"
      BY <1>a, <2>1, <2>3, RollBackFields DEF Closable, c
    <3>2. Fits(p, c, c.s) /\ c.s \in State
      BY <1>a, <1>c, <2>1 DEF Channel
    <3>3. c.s.st \in Updating \/ c.s.st = "CollaborativeCloseOffered"
      BY <3>1, <3>2 DEF Fits, State, SignedState, Direct, Updating, SettleStates, RenewStates
    <3>4. CASE c.s.st \in Updating
      BY <1>c, <2>1, <3>1, <3>4 DEF Replaces, TxKind, SettleStates
    <3>5. CASE c.s.st = "CollaborativeCloseOffered"
      BY <1>c, <2>1, <3>1, <3>5 DEF Fits, TxKind, SettleStates
    <3> QED BY <3>3, <3>4, <3>5
  <2> QED BY <1>15, <2>2, <2>3, <2>4
<1>17. ASSUME NEW t, SeeBuffer(p, t) PROVE StateInv(p)'
  <2> DEFINE s == [c.s EXCEPT !.st = "Closing", !.tx = t, !.offer = FALSE]
  <2>1. d = Swap(c, s) /\ t \in Watched(p)
    BY <1>17, TurnFacts DEF SeeBuffer, c
  <2>2. c.s \in State /\ s.st = "Closing" /\ s.tx = t
    BY <1>a DEF Channel, State
  <2> HIDE DEF s
  <2>3. d.s = s
    BY <1>a, <2>1, SwapFields
  <2>4. t \in Tx /\ t.kind = "buffer"
    BY <2>1 DEF WatchInv
  <2> QED BY <1>15, <2>2, <2>3, <2>4
<1>18. ASSUME NEW k, Close(p, k) PROVE StateInv(p)'
  <2>1. k \in ClosedKinds /\ (d = OfKind(p, k) \/ d = [Closable(p) EXCEPT !.kind = k])
    BY <1>18, TurnFacts DEF Close
  <2>2. Closable(p) \in {c, RollBack(c)} /\ OfKind(p, k) = [c EXCEPT !.kind = k]
    BY DEF Closable, OfKind, c
  <2>3. d.kind = k
    BY <1>a, <2>1, <2>2 DEF Channel, RollBack
  <2> QED BY <1>b, <1>d, <2>1, <2>3
<1> QED BY <1>1, <1>2, <1>3, <1>4, <1>5, <1>6, <1>7, <1>8, <1>10, <1>11, <1>12, <1>13, <1>14, <1>16,
           <1>17, <1>18 DEF Move

\* What the turns of p do to its channel, its secrets and what it watches.
Secretive(p, out) == revealed'[p] = revealed[p] /\ \A x \in out : x.type \notin Reveals
Unwatched(p) == Watched(p)' \subseteq Watched(p)

LEMMA NoSecrets ==
  ASSUME Types, NEW p \in Party, NEW d, NEW out, NEW new, Turn(p, d, out, new),
         \A x \in out : x.type \notin Reveals
  PROVE  revealed'[p] = revealed[p]
<1>1. revealed' = [revealed EXCEPT ![p] = @ \union {x \in out : x.type \in Reveals}]
  BY DEF Turn
<1>2. revealed'[p] = revealed[p] \union {x \in out : x.type \in Reveals}
  BY <1>1 DEF Types, TypeOK
<1>3. {x \in out : x.type \in Reveals} = {}
  OBVIOUS
<1> QED BY <1>2, <1>3

LEMMA NothingNew ==
  ASSUME NEW p \in Party, NEW d, NEW out, Turn(p, d, out, {})
  PROVE  Unwatched(p)
  BY DEF Turn, Unwatched

LEMMA KeptTypes == /\ "Reject" \notin Reveals /\ "OfferChannel" \notin Reveals /\ "AcceptChannel" \notin Reveals
                   /\ "SignChannel" \notin Reveals /\ "SettleOffer" \notin Reveals /\ "RenewOffer" \notin Reveals
                   /\ "SettleAccept" \notin Reveals /\ "RenewAccept" \notin Reveals
                   /\ "RenewConfirm" \notin Reveals /\ "CollaborativeCloseOffer" \notin Reveals
                   /\ "SettleConfirm" \in Reveals /\ "SettleFinalize" \in Reveals
                   /\ "RenewFinalize" \in Reveals /\ "RenewRevoke" \in Reveals
  BY DEF Reveals

LEMMA IdleFacts ==
  ASSUME Types, NEW p \in Party, NEW out, Idle(p, out)
  PROVE  ch'[p] = ch[p] /\ Secretive(p, out) /\ Unwatched(p)
  BY TurnFacts, NoSecrets, NothingNew, KeptTypes DEF Idle, Secretive

LEMMA SetupFacts ==
  ASSUME Types, NEW p \in Party, NEW k, NEW out, Setup(p, k, out)
  PROVE  /\ ch'[p].kind = k /\ k \in Opening /\ ch[p].kind \in Opening
         /\ ch'[p].s = ch[p].s /\ ch'[p].rb = ch[p].rb
         /\ Secretive(p, out) /\ Unwatched(p)
<1>1. ch'[p] = [ch[p] EXCEPT !.kind = k] /\ Turn(p, OfKind(p, k), out, {})
  BY TurnFacts DEF Setup, OfKind
<1>2. ch'[p].kind = k /\ ch'[p].s = ch[p].s /\ ch'[p].rb = ch[p].rb
  BY <1>1, Stored DEF Channel
<1>3. \A x \in out : x.type \notin Reveals
  BY KeptTypes DEF Setup
<1> QED BY <1>1, <1>2, <1>3, NoSecrets, NothingNew DEF Setup, Secretive

LEMMA OpenFacts ==
  ASSUME Types, NEW p \in Party, NEW d, NEW out, Open(p, d, out)
  PROVE  /\ ch'[p].kind = "Signed" /\ ch'[p].s.st = "Established" /\ ch'[p].s.tx = FirstBuffer
         /\ ch'[p].rb = NoState /\ ch'[p].ver = 0 /\ ch'[p].own = 0 /\ ch'[p].ctr = 0
         /\ ch[p].kind \in Opening /\ Secretive(p, out)
         /\ \A t \in Watched(p)' : t \in Watched(p) \/ t = FirstBuffer
<1>1. ch'[p] = d /\ Turn(p, d, out, {FirstBuffer})
  BY TurnFacts DEF Open
<1>2. /\ d.kind = "Signed" /\ d.s.st = "Established" /\ d.s.tx = FirstBuffer
      /\ d.rb = NoState /\ d.ver = 0 /\ d.own = 0 /\ d.ctr = 0
  BY SignedFields DEF Open
<1>3. \A x \in out : x.type \notin Reveals
  BY KeptTypes DEF Open
<1>4. \A t \in Watched(p)' : t \in Watched(p) \/ t = FirstBuffer
  BY <1>1, TurnFacts
<1> QED BY <1>1, <1>2, <1>3, <1>4, NoSecrets DEF Open, Secretive

LEMMA ProposeFacts ==
  ASSUME Types, NEW p \in Party, NEW s, NEW out, Propose(p, s, out)
  PROVE  /\ Same(ch[p], ch'[p]) /\ ch'[p].s = s /\ ch'[p].rb = ch[p].s /\ ch[p].kind = "Signed"
         /\ ch[p].s.st \in StableStates /\ s.st \in {"SettledOffered", "RenewOffered"}
         /\ (s.offer <=> s.st = "RenewOffered")
         /\ s.tx \in Tx /\ s.tx.kind = TxKind(s.st) /\ s.tx.by = p /\ s.tx.o = ch[p].ver + 1
         /\ s.st = "SettledOffered" => "settle" \in scenario.ops
         /\ \A x \in out : x.to = Other(p) /\ x.type = OfferOf(s.st) /\ x.tx = s.tx
         /\ Secretive(p, out) /\ Unwatched(p)
<1>1. ch'[p] = Swap(ch[p], s) /\ Turn(p, Swap(ch[p], s), out, {})
  BY TurnFacts DEF Propose
<1>2. Same(ch[p], ch'[p]) /\ ch'[p].s = s /\ ch'[p].rb = ch[p].s
  BY <1>1, Stored, SwapFields
<1>3. TxKind(s.st) \in Kind
  BY DEF Propose, TxKind, SettleStates, Kind
<1>4. s.tx \in Tx /\ s.tx.kind = TxKind(s.st) /\ s.tx.by = p /\ s.tx.o = ch[p].ver + 1
  BY <1>3, NewTxs DEF Propose
<1>5. \A x \in out : x.to = Other(p) /\ x.type = OfferOf(s.st) /\ x.tx = s.tx
  BY Answers DEF Propose
<1>6. \A x \in out : x.type \notin Reveals
  BY <1>5, KeptTypes DEF OfferOf
<1>7. Secretive(p, out) /\ Unwatched(p)
  BY <1>1, <1>6, NoSecrets, NothingNew DEF Secretive
<1>8. /\ ch[p].kind = "Signed" /\ ch[p].s.st \in StableStates /\ s.st \in {"SettledOffered", "RenewOffered"}
      /\ (s.offer <=> s.st = "RenewOffered") /\ (s.st = "SettledOffered" => "settle" \in scenario.ops)
  BY DEF Propose
<1> QED BY <1>2, <1>4, <1>5, <1>7, <1>8

LEMMA GetOfferFacts ==
  ASSUME Types, MessageInv, NEW p \in Party, NEW m, NEW s, GetOffer(p, m, s)
  PROVE  /\ Same(ch[p], ch'[p]) /\ ch'[p].s = s /\ ch'[p].rb = ch[p].s /\ ch[p].kind = "Signed"
         /\ ch[p].s.st \in StableStates /\ s.st \in {"SettledReceived", "RenewOffered"} /\ ~s.offer
         /\ m \in msgs /\ m.to = p /\ s.tx = m.tx
         /\ \/ m.type = "SettleOffer" /\ s.st = "SettledReceived"
            \/ m.type = "RenewOffer" /\ s.st = "RenewOffered"
         /\ s.tx \in Tx /\ s.tx.kind = TxKind(s.st) /\ s.tx.by = Other(p)
         /\ Secretive(p, {}) /\ Unwatched(p)
<1>1. ch'[p] = Swap(ch[p], s) /\ Turn(p, Swap(ch[p], s), {}, {})
  BY TurnFacts DEF GetOffer
<1>2. Same(ch[p], ch'[p]) /\ ch'[p].s = s /\ ch'[p].rb = ch[p].s
  BY <1>1, Stored, SwapFields
<1>3. /\ ch[p].kind = "Signed" /\ ch[p].s.st \in StableStates /\ ~s.offer
      /\ m \in msgs /\ m.to = p /\ s.tx = m.tx
      /\ \/ m.type = "SettleOffer" /\ s.st = "SettledReceived"
         \/ m.type = "RenewOffer" /\ s.st = "RenewOffered"
  BY DEF GetOffer
<1>4. s.tx \in Tx /\ s.tx.kind = TxKind(s.st) /\ s.tx.by = Other(p)
  BY <1>3 DEF MessageInv, TxKind, SettleStates
<1>5. Secretive(p, {}) /\ Unwatched(p)
  BY <1>1, NoSecrets, NothingNew DEF Secretive
<1> QED BY <1>2, <1>3, <1>4, <1>5

LEMMA WithdrawFacts ==
  ASSUME Types, NEW p \in Party, NEW out, Withdraw(p, out)
  PROVE  /\ Same(ch[p], ch'[p]) /\ ch'[p].s = ch[p].rb /\ ch'[p].rb = NoState /\ ch[p].kind = "Signed"
         /\ ch[p].s.st \in {"SettledOffered", "SettledReceived", "RenewOffered"} /\ ch[p].s.st \in Updating
         /\ Secretive(p, out) /\ Unwatched(p)
<1>1. ch'[p] = RollBack(ch[p]) /\ Turn(p, RollBack(ch[p]), out, {})
  BY TurnFacts DEF Withdraw
<1>2. Same(ch[p], ch'[p]) /\ ch'[p].s = ch[p].rb /\ ch'[p].rb = NoState
  BY <1>1, Stored, RollBackFields
<1>3. \A x \in out : x.type \notin Reveals
  BY KeptTypes DEF Withdraw
<1>4. Secretive(p, out) /\ Unwatched(p)
  BY <1>1, <1>3, NoSecrets, NothingNew DEF Secretive
<1> QED BY <1>2, <1>4 DEF Withdraw, Updating, SettleStates, RenewStates

LEMMA AcceptFacts ==
  ASSUME Types, NEW p \in Party, StateInv(p), NEW s, NEW out, Accept(p, s, out)
  PROVE  /\ Same(ch[p], ch'[p]) /\ ch'[p].s = s /\ ch'[p].rb = ch[p].rb /\ ch[p].kind = "Signed"
         /\ Received(ch[p].s) /\ ch[p].s.st \in Updating
         /\ s.st = (IF ch[p].s.st = "SettledReceived" THEN "SettledAccepted" ELSE "RenewAccepted")
         /\ s.tx \in Tx /\ s.tx.kind = TxKind(s.st) /\ s.tx.by = Other(p)
         /\ s.tx.o = ch[p].s.tx.o /\ s.tx.a = ch[p].ver + 1
         /\ \A x \in out : x.to = Other(p) /\ x.type = AcceptOf(s.st) /\ x.tx = s.tx
         /\ Secretive(p, out) /\ Unwatched(p)
<1>1. ch'[p] = [ch[p] EXCEPT !.s = s] /\ Turn(p, [ch[p] EXCEPT !.s = s], out, {})
  BY TurnFacts DEF Accept
<1>2. Same(ch[p], ch'[p]) /\ ch'[p].s = s /\ ch'[p].rb = ch[p].rb
  BY <1>1, Stored, SetFields
<1>3. /\ ch[p].kind = "Signed" /\ Received(ch[p].s) /\ ch[p].ver < MaxUpdates /\ s.tx = Completed(p)
      /\ s.st = (IF ch[p].s.st = "SettledReceived" THEN "SettledAccepted" ELSE "RenewAccepted")
  BY DEF Accept
<1>4. ch[p].s.st \in Updating /\ TxKind(s.st) = TxKind(ch[p].s.st)
  BY <1>3 DEF Received, Updating, SettleStates, RenewStates, TxKind
<1>5. ch[p].s.tx \in Tx /\ ch[p].s.tx.kind = TxKind(s.st) /\ ch[p].s.tx.by = Other(p)
  BY <1>3, <1>4 DEF StateInv, Fits
<1>6. /\ s.tx \in Tx /\ s.tx.kind = TxKind(s.st) /\ s.tx.by = Other(p)
      /\ s.tx.o = ch[p].s.tx.o /\ s.tx.a = ch[p].ver + 1
  BY <1>3, <1>5, NewTxs
<1>7. \A x \in out : x.to = Other(p) /\ x.type = AcceptOf(s.st) /\ x.tx = s.tx
  BY Answers DEF Accept
<1>8. Secretive(p, out) /\ Unwatched(p)
  <2>1. \A x \in out : x.type \notin Reveals
    BY <1>7, KeptTypes DEF AcceptOf
  <2> QED BY <1>1, <2>1, NoSecrets, NothingNew DEF Secretive
<1> QED BY <1>2, <1>3, <1>4, <1>6, <1>7, <1>8

LEMMA ConfirmFacts ==
  ASSUME Types, MessageInv, NEW p \in Party, NEW m, NEW s, NEW out, Confirm(p, m, s, out)
  PROVE  /\ Same(ch[p], ch'[p]) /\ ch'[p].s = s /\ ch'[p].rb = ch[p].rb /\ ch[p].kind = "Signed"
         /\ ch[p].s.st \in Updating /\ Unwatched(p) /\ m \in msgs /\ s.tx = m.tx
         /\ s.tx \in Tx /\ s.tx.kind = TxKind(s.st) /\ s.tx.by = p /\ s.tx.o = ch[p].s.tx.o
         /\ \/ /\ ch[p].s.st = "SettledOffered" /\ s.st = "SettledConfirmed" /\ m.type = "SettleAccept"
               /\ out = Out("SettleConfirm", p, m.tx, ch[p].ver)
            \/ /\ ch[p].s.st = "RenewOffered" /\ s.st = "RenewConfirmed" /\ m.type = "RenewAccept"
               /\ out = Out("RenewConfirm", p, m.tx, 0) /\ revealed'[p] = revealed[p]
         /\ \A x \in revealed'[p] : x \in revealed[p] \/ x \in out
<1>1. ch'[p] = [ch[p] EXCEPT !.s = s] /\ Turn(p, [ch[p] EXCEPT !.s = s], out, {})
  BY TurnFacts DEF Confirm
<1>2. Same(ch[p], ch'[p]) /\ ch'[p].s = s /\ ch'[p].rb = ch[p].rb
  BY <1>1, Stored, SetFields
<1>3. /\ ch[p].kind = "Signed" /\ m \in msgs /\ m.to = p /\ s.tx = m.tx /\ m.tx.by = p
      /\ m.tx.o = ch[p].s.tx.o
      /\ \/ /\ ch[p].s.st = "SettledOffered" /\ s.st = "SettledConfirmed" /\ m.type = "SettleAccept"
            /\ out = Out("SettleConfirm", p, m.tx, ch[p].ver)
         \/ /\ ch[p].s.st = "RenewOffered" /\ s.st = "RenewConfirmed" /\ m.type = "RenewAccept"
            /\ out = Out("RenewConfirm", p, m.tx, 0)
  BY DEF Confirm
<1>4. ch[p].s.st \in Updating
  BY <1>3 DEF Updating, SettleStates, RenewStates
<1>5. s.tx \in Tx /\ s.tx.kind = TxKind(s.st)
  BY <1>3 DEF MessageInv, TxKind, SettleStates
<1>6. out = Out("RenewConfirm", p, m.tx, 0) => revealed'[p] = revealed[p]
  <2> SUFFICES ASSUME out = Out("RenewConfirm", p, m.tx, 0) PROVE revealed'[p] = revealed[p]
    OBVIOUS
  <2>1. \A x \in out : x.type \notin Reveals
    BY Answers, KeptTypes
  <2> QED BY <1>1, <2>1, NoSecrets
<1>7. \A x \in revealed'[p] : x \in revealed[p] \/ x \in out
  BY <1>1, TurnFacts
<1>8. Unwatched(p)
  BY <1>1, NothingNew
<1> QED BY <1>2, <1>3, <1>4, <1>5, <1>6, <1>7, <1>8

LEMMA SettleFacts ==
  ASSUME Types, NEW p \in Party, StateInv(p), NEW m, NEW out, Settle(p, m, out)
  PROVE  LET c == ch[p]
             d == ch'[p]
         IN  /\ d.kind = "Signed" /\ c.kind = "Signed" /\ d.ver = c.ver + 1 /\ d.s.st = "Settled"
             /\ d.s.tx = c.s.tx /\ d.rb = NoState /\ c.s.tx \in Tx
             /\ d.own = Point(p, c.s.tx) /\ d.ctr = Point(Other(p), c.s.tx)
             /\ c.own = c.ver /\ c.s.st \in {"SettledAccepted", "SettledConfirmed"}
             /\ Replaces(p, c) /\ Drops(p, out) /\ Unwatched(p)
             /\ m \in msgs /\ m.to = p /\ m.sec = c.ctr
             /\ \/ /\ c.s.st = "SettledAccepted" /\ m.type = "SettleConfirm" /\ m.tx = c.s.tx
                   /\ out \in {{}, Out("SettleFinalize", p, NoTx, c.ver)}
                \/ c.s.st = "SettledConfirmed" /\ m.type = "SettleFinalize" /\ out = {}
             /\ \A x \in revealed'[p] : x \in revealed[p] \/ x \in out
<1> DEFINE c == ch[p]
           d == ch'[p]
<1>1. d = settle_channel_finalize(p) /\ Turn(p, settle_channel_finalize(p), out, {})
  BY TurnFacts DEF Settle
<1>2. /\ d.kind = c.kind /\ d.ver = c.ver + 1 /\ d.own = Point(p, c.s.tx) /\ d.ctr = Point(Other(p), c.s.tx)
      /\ d.s = Bare("Settled", c.s.tx) /\ d.rb = NoState
  BY <1>1, UpdatedFields
<1>3. d.s.st = "Settled" /\ d.s.tx = c.s.tx
  BY <1>2 DEF Bare
<1>4. /\ c.kind = "Signed" /\ m \in msgs /\ m.to = p /\ m.sec = c.ctr /\ Drops(p, out)
      /\ \/ /\ c.s.st = "SettledAccepted" /\ m.type = "SettleConfirm" /\ m.tx = c.s.tx
            /\ out \in {{}, Out("SettleFinalize", p, NoTx, c.ver)}
         \/ c.s.st = "SettledConfirmed" /\ m.type = "SettleFinalize" /\ out = {}
  BY DEF Settle
<1>5. c.s.st \in {"SettledAccepted", "SettledConfirmed"} /\ c.s.st \in Updating
  BY <1>4 DEF Updating, SettleStates, RenewStates
<1>6. Fits(p, c, c.s) /\ Replaces(p, c)
  BY <1>4, <1>5 DEF StateInv
<1>7. c.s.tx \in Tx /\ c.own = c.ver
  BY <1>5, <1>6 DEF Fits
<1>8. \A x \in revealed'[p] : x \in revealed[p] \/ x \in out
  BY <1>1, TurnFacts
<1>9. Unwatched(p)
  BY <1>1, NothingNew
<1> HIDE DEF c, d
<1>10. /\ d.kind = "Signed" /\ c.kind = "Signed" /\ d.ver = c.ver + 1 /\ d.s.st = "Settled"
       /\ d.s.tx = c.s.tx /\ d.rb = NoState /\ c.s.tx \in Tx
       /\ d.own = Point(p, c.s.tx) /\ d.ctr = Point(Other(p), c.s.tx)
       /\ c.own = c.ver /\ c.s.st \in {"SettledAccepted", "SettledConfirmed"}
  BY <1>2, <1>3, <1>4, <1>5, <1>7
<1> QED BY <1>4, <1>6, <1>8, <1>9, <1>10 DEF c, d

LEMMA FinalizeFacts ==
  ASSUME Types, NEW p \in Party, StateInv(p), NEW m, NEW out, Finalize(p, m, out)
  PROVE  LET c == ch[p]
             d == ch'[p]
             t == c.s.tx
         IN  /\ d.kind = "Signed" /\ c.kind = "Signed" /\ d.ver = c.ver /\ d.s.st = "RenewFinalized"
             /\ d.s.tx = t /\ d.rb = c.rb /\ d.prev = c.ctr /\ c.own = c.ver
             /\ d.own = Point(p, t) /\ d.ctr = Point(Other(p), t)
             /\ t \in Tx /\ t.kind = "buffer" /\ t.by = Other(p) /\ Point(p, t) = c.ver + 1
             /\ c.s.st = "RenewAccepted" /\ Replaces(p, c) /\ Drops(p, out)
             /\ m \in msgs /\ m.to = p /\ m.type = "RenewConfirm" /\ m.tx = t
             /\ out \in {{}, Out("RenewFinalize", p, t, c.ver)}
             /\ \A x \in revealed'[p] : x \in revealed[p] \/ x \in out
             /\ \A u \in Watched(p)' : u \in Watched(p) \/ u = t
<1> DEFINE c == ch[p]
           d == ch'[p]
           t == c.s.tx
<1>1. d = verify_renew_confirm_and_finalize(p, t) /\ Turn(p, verify_renew_confirm_and_finalize(p, t), out, {t})
  BY TurnFacts DEF Finalize
<1>2. /\ d.kind = c.kind /\ d.ver = c.ver /\ d.own = Point(p, t) /\ d.ctr = Point(Other(p), t)
      /\ d.s.st = "RenewFinalized" /\ d.s.tx = t /\ d.rb = c.rb /\ d.prev = c.ctr
  BY <1>1, FinalizedFields
<1>3. /\ c.kind = "Signed" /\ m \in msgs /\ m.to = p /\ m.type = "RenewConfirm" /\ m.tx = t /\ Drops(p, out)
      /\ c.s.st = "RenewAccepted" /\ out \in {{}, Out("RenewFinalize", p, t, c.ver)}
  BY DEF Finalize
<1>4. Fits(p, c, c.s) /\ Replaces(p, c) /\ c.s.st \in Updating
  BY <1>3 DEF StateInv, Updating, SettleStates, RenewStates
<1>5. t \in Tx /\ t.kind = "buffer" /\ t.by = Other(p) /\ t.a = c.ver + 1 /\ c.own = c.ver
  BY <1>3, <1>4 DEF Fits, TxKind, SettleStates, Accepts
<1>6. Point(p, t) = c.ver + 1
  BY <1>5, Parties DEF Point
<1>7. \A x \in revealed'[p] : x \in revealed[p] \/ x \in out
  BY <1>1, TurnFacts
<1>8. \A u \in Watched(p)' : u \in Watched(p) \/ u = t
  BY <1>1, TurnFacts
<1> HIDE DEF c, d, t
<1>9. /\ d.kind = "Signed" /\ c.kind = "Signed" /\ d.ver = c.ver /\ d.s.st = "RenewFinalized"
      /\ d.s.tx = t /\ d.rb = c.rb /\ d.prev = c.ctr /\ c.own = c.ver
      /\ d.own = Point(p, t) /\ d.ctr = Point(Other(p), t)
  BY <1>2, <1>3, <1>5
<1> QED BY <1>3, <1>4, <1>5, <1>6, <1>7, <1>8, <1>9 DEF c, d, t

LEMMA RenewFacts ==
  ASSUME Types, NEW p \in Party, StateInv(p), NEW m, NEW out, Renew(p, m, out)
  PROVE  LET c == ch[p]
             d == ch'[p]
             t == c.s.tx
         IN  /\ d.kind = "Signed" /\ c.kind = "Signed" /\ d.ver = c.ver + 1 /\ d.s.st = "Established"
             /\ d.s.tx = t /\ d.rb = NoState /\ c.own = c.ver
             /\ d.own = Point(p, t) /\ d.ctr = Point(Other(p), t)
             /\ t \in Tx /\ t.kind = "buffer" /\ t.by = p /\ Point(p, t) = c.ver + 1
             /\ c.s.st = "RenewConfirmed" /\ Replaces(p, c) /\ Drops(p, out)
             /\ m \in msgs /\ m.to = p /\ m.type = "RenewFinalize" /\ m.tx = t /\ m.sec = c.ctr
             /\ out \in {{}, Out("RenewRevoke", p, NoTx, c.ver)}
             /\ \A x \in revealed'[p] : x \in revealed[p] \/ x \in out
             /\ \A u \in Watched(p)' : u \in Watched(p) \/ u = t
<1> DEFINE c == ch[p]
           d == ch'[p]
           t == c.s.tx
<1>1. d = renew_channel_on_finalize(p) /\ Turn(p, renew_channel_on_finalize(p), out, {t})
  BY TurnFacts DEF Renew
<1>2. /\ d.kind = c.kind /\ d.ver = c.ver + 1 /\ d.own = Point(p, t) /\ d.ctr = Point(Other(p), t)
      /\ d.s = WithContract("Established", t, TRUE) /\ d.rb = NoState
  BY <1>1, UpdatedFields
<1>3. d.s.st = "Established" /\ d.s.tx = t
  BY <1>2 DEF WithContract
<1>4. /\ c.kind = "Signed" /\ m \in msgs /\ m.to = p /\ m.type = "RenewFinalize" /\ m.tx = t
      /\ m.sec = c.ctr /\ Drops(p, out)
      /\ c.s.st = "RenewConfirmed" /\ out \in {{}, Out("RenewRevoke", p, NoTx, c.ver)}
  BY DEF Renew
<1>5. Fits(p, c, c.s) /\ Replaces(p, c) /\ c.s.st \in Updating
  BY <1>4 DEF StateInv, Updating, SettleStates, RenewStates
<1>6. t \in Tx /\ t.kind = "buffer" /\ t.by = p /\ t.o = c.ver + 1 /\ c.own = c.ver
  BY <1>4, <1>5 DEF Fits, TxKind, SettleStates, Offers
<1>7. Point(p, t) = c.ver + 1
  BY <1>6 DEF Point
<1>8. /\ \A x \in revealed'[p] : x \in revealed[p] \/ x \in out
      /\ \A u \in Watched(p)' : u \in Watched(p) \/ u = t
  BY <1>1, TurnFacts
<1> HIDE DEF c, d, t
<1>9. /\ d.kind = "Signed" /\ c.kind = "Signed" /\ d.ver = c.ver + 1 /\ d.s.st = "Established"
      /\ d.s.tx = t /\ d.rb = NoState /\ c.own = c.ver
      /\ d.own = Point(p, t) /\ d.ctr = Point(Other(p), t)
  BY <1>2, <1>3, <1>4, <1>6
<1> QED BY <1>4, <1>5, <1>6, <1>7, <1>8, <1>9 DEF c, d, t

LEMMA RevokeFacts ==
  ASSUME Types, NEW p \in Party, StateInv(p), NEW m, Revoke(p, m)
  PROVE  LET c == ch[p]
             d == ch'[p]
             t == c.s.tx
         IN  /\ d.kind = "Signed" /\ c.kind = "Signed" /\ d.ver = c.ver + 1 /\ d.s.st = "Established"
             /\ d.s.tx = t /\ d.rb = c.rb /\ c.own = c.ver + 1
             /\ d.own = Point(p, t) /\ d.ctr = Point(Other(p), t)
             /\ t \in Tx /\ t.kind = "buffer" /\ t.by = Other(p) /\ Point(p, t) = c.ver + 1
             /\ c.s.st = "RenewFinalized" /\ Replaces(p, c)
             /\ m \in msgs /\ m.to = p /\ m.type = "RenewRevoke" /\ m.sec = c.prev
             /\ revealed'[p] = revealed[p] /\ Unwatched(p)
<1> DEFINE c == ch[p]
           d == ch'[p]
           t == c.s.tx
<1>1. d = renew_channel_on_revoke(p) /\ Turn(p, renew_channel_on_revoke(p), {}, {})
  BY TurnFacts DEF Revoke
<1>2. /\ d.kind = c.kind /\ d.ver = c.ver + 1 /\ d.own = Point(p, t) /\ d.ctr = Point(Other(p), t)
      /\ d.s = WithContract("Established", t, TRUE) /\ d.rb = c.rb
  BY <1>1, UpdatedFields
<1>3. d.s.st = "Established" /\ d.s.tx = t
  BY <1>2 DEF WithContract
<1>4. /\ c.kind = "Signed" /\ m \in msgs /\ m.to = p /\ m.type = "RenewRevoke" /\ m.sec = c.prev
      /\ c.s.st = "RenewFinalized"
  BY DEF Revoke
<1>5. Fits(p, c, c.s) /\ Replaces(p, c)
  BY <1>4 DEF StateInv
<1>6. t \in Tx /\ t.kind = "buffer" /\ t.by = Other(p) /\ t.a = c.ver + 1 /\ c.own = c.ver + 1
  BY <1>4, <1>5 DEF Fits, TxKind, SettleStates, Accepts
<1>7. Point(p, t) = c.ver + 1
  BY <1>6, Parties DEF Point
<1>8. revealed'[p] = revealed[p] /\ Unwatched(p)
  BY <1>1, NoSecrets, NothingNew
<1> HIDE DEF c, d, t
<1>9. /\ d.kind = "Signed" /\ c.kind = "Signed" /\ d.ver = c.ver + 1 /\ d.s.st = "Established"
      /\ d.s.tx = t /\ d.rb = c.rb /\ c.own = c.ver + 1
      /\ d.own = Point(p, t) /\ d.ctr = Point(Other(p), t)
  BY <1>2, <1>3, <1>4, <1>6
<1> QED BY <1>4, <1>5, <1>6, <1>7, <1>8, <1>9 DEF c, d, t

LEMMA OfferCloseFacts ==
  ASSUME Types, NEW p \in Party, NEW t, NEW out, OfferClose(p, t, out)
  PROVE  /\ Same(ch[p], ch'[p]) /\ ch'[p].rb = ch[p].s /\ ch[p].kind = "Signed"
         /\ ch'[p].s.st = "CollaborativeCloseOffered" /\ ch'[p].s.tx = t /\ t \in Tx /\ t.kind = "close"
         /\ "collaborative" \in scenario.ops
         /\ \A x \in out : x.type = "CollaborativeCloseOffer" /\ x.tx = t
         /\ Secretive(p, out) /\ Unwatched(p)
<1> DEFINE s == Bare("CollaborativeCloseOffered", t)
<1>1. ch'[p] = Swap(ch[p], s) /\ Turn(p, Swap(ch[p], s), out, {})
  BY TurnFacts DEF OfferClose, close_offered
<1>2. s.st = "CollaborativeCloseOffered" /\ s.tx = t
  BY DEF Bare
<1> HIDE DEF s
<1>3. Same(ch[p], ch'[p]) /\ ch'[p].s = s /\ ch'[p].rb = ch[p].s
  BY <1>1, Stored, SwapFields
<1>4. \A x \in out : x.type = "CollaborativeCloseOffer" /\ x.tx = t
  BY Answers DEF OfferClose
<1>5. Secretive(p, out) /\ Unwatched(p)
  BY <1>1, <1>4, KeptTypes, NoSecrets, NothingNew DEF Secretive
<1> QED BY <1>2, <1>3, <1>4, <1>5 DEF OfferClose

\* The state that a forced close starts from.
LEMMA ClosableFields ==
  ASSUME Types, NEW p \in Party
  PROVE  /\ Closable(p) \in Channel /\ Same(ch[p], Closable(p))
         /\ ch[p].s.st \in Direct => Closable(p) = ch[p]
         /\ ch[p].s.st \notin Direct => Closable(p).s = ch[p].rb /\ Closable(p).rb = NoState
<1> DEFINE c == ch[p]
<1>1. c \in Channel
  BY Stored
<1>2. Same(c, RollBack(c)) /\ RollBack(c).s = c.rb /\ RollBack(c).rb = NoState
  BY <1>1, RollBackFields
<1>3. RollBack(c) \in Channel
  BY <1>1 DEF Channel, RollBack, State, NoState, SignedState
<1>4. Same(c, c)
  BY DEF Same
<1> HIDE DEF c
<1>5. CASE c.s.st \in Direct
  BY <1>1, <1>4, <1>5 DEF Closable, c
<1>6. CASE c.s.st \notin Direct
  BY <1>2, <1>3, <1>6 DEF Closable, c
<1> QED BY <1>5, <1>6 DEF c

LEMMA ForceCloseFacts ==
  ASSUME Types, NEW p \in Party, ForceClose(p)
  PROVE  /\ Same(ch[p], ch'[p]) /\ ch[p].kind = "Signed"
         /\ ch'[p].s.st = "Closing" /\ ch'[p].s.tx = Closable(p).s.tx /\ ch'[p].rb = Closable(p).rb
         /\ Closable(p).s.st \in {"Established", "RenewFinalized"} /\ Publish(p, Closable(p).s.tx)
         /\ revealed'[p] = revealed[p] /\ Unwatched(p)
<1> DEFINE e == Closable(p)
<1>1. /\ ch'[p] = initiate_unilateral_close(e) /\ Turn(p, initiate_unilateral_close(e), {}, {})
      /\ ch[p].kind = "Signed" /\ e.s.st \in {"Established", "RenewFinalized"} /\ Publish(p, e.s.tx)
  BY TurnFacts DEF ForceClose
<1>2. e \in Channel /\ Same(ch[p], e)
  BY ClosableFields
<1> HIDE DEF e
<1>3. Same(e, ch'[p]) /\ ch'[p].s.st = "Closing" /\ ch'[p].s.tx = e.s.tx /\ ch'[p].rb = e.rb
  BY <1>1, <1>2, ForceCloseFields
<1>4. Same(ch[p], ch'[p])
  BY <1>2, <1>3 DEF Same
<1>5. revealed'[p] = revealed[p] /\ Unwatched(p)
  BY <1>1, NoSecrets, NothingNew
<1> QED BY <1>1, <1>3, <1>4, <1>5 DEF e

LEMMA SeeBufferFacts ==
  ASSUME Types, NEW p \in Party, NEW t, SeeBuffer(p, t)
  PROVE  /\ Same(ch[p], ch'[p]) /\ ch[p].kind = "Signed" /\ t \in Watched(p)
         /\ ch'[p].s.st = "Closing" /\ ch'[p].s.tx = t /\ ch'[p].s.con = ch[p].s.con /\ ch'[p].rb = ch[p].s
         /\ revealed'[p] = revealed[p] /\ Unwatched(p)
<1> DEFINE s == [ch[p].s EXCEPT !.st = "Closing", !.tx = t, !.offer = FALSE]
<1>1. ch'[p] = Swap(ch[p], s) /\ Turn(p, Swap(ch[p], s), {}, {}) /\ t \in Watched(p) /\ ch[p].kind = "Signed"
  BY TurnFacts DEF SeeBuffer
<1>2. s.st = "Closing" /\ s.tx = t /\ s.con = ch[p].s.con
  BY Stored DEF Channel, State
<1> HIDE DEF s
<1>3. Same(ch[p], ch'[p]) /\ ch'[p].s = s /\ ch'[p].rb = ch[p].s
  BY <1>1, Stored, SwapFields
<1>4. revealed'[p] = revealed[p] /\ Unwatched(p)
  BY <1>1, NoSecrets, NothingNew
<1> QED BY <1>1, <1>2, <1>3, <1>4

LEMMA CloseFacts ==
  ASSUME Types, NEW p \in Party, NEW k, Close(p, k)
  PROVE  /\ ch[p].kind = "Signed" /\ ch'[p].kind \in ClosedKinds /\ ch'[p].ver = ch[p].ver /\ ch'[p].own = ch[p].own
         /\ revealed'[p] = revealed[p] /\ Unwatched(p)
         /\ \/ Quiet \/ \E t : t.kind = "close" /\ Publish(p, t)
            \/ Closable(p).s.st = "Settled" /\ Publish(p, Closable(p).s.tx)
         /\ \/ ch'[p].s = ch[p].s /\ ch'[p].rb = ch[p].rb
            \/ ch'[p].s = Closable(p).s /\ ch'[p].rb = Closable(p).rb
<1>1. ASSUME NEW e \in Channel, Same(ch[p], e), k \in ClosedKinds, Turn(p, [e EXCEPT !.kind = k], {}, {})
      PROVE  /\ ch'[p].kind \in ClosedKinds /\ ch'[p].ver = ch[p].ver /\ ch'[p].own = ch[p].own
             /\ ch'[p].s = e.s /\ ch'[p].rb = e.rb
             /\ revealed'[p] = revealed[p] /\ Unwatched(p)
  <2>1. ch'[p] = [e EXCEPT !.kind = k]
    BY <1>1, TurnFacts
  <2>2. ch'[p].kind \in ClosedKinds /\ ch'[p].ver = ch[p].ver /\ ch'[p].own = ch[p].own /\ ch'[p].s = e.s /\ ch'[p].rb = e.rb
    BY <1>1, <2>1 DEF Same, Channel
  <2>3. revealed'[p] = revealed[p] /\ Unwatched(p)
    BY <1>1, NoSecrets, NothingNew
  <2> QED BY <2>2, <2>3
<1>2. CASE Turn(p, OfKind(p, k), {}, {}) /\ (Quiet \/ \E t : t.kind = "close" /\ Publish(p, t))
  <2>1. Same(ch[p], ch[p]) /\ OfKind(p, k) = [ch[p] EXCEPT !.kind = k] /\ ch[p] \in Channel
    BY Stored DEF Same, OfKind
  <2>2. k \in ClosedKinds /\ ch[p].kind = "Signed"
    BY DEF Close
  <2>3. /\ ch'[p].kind \in ClosedKinds /\ ch'[p].ver = ch[p].ver /\ ch'[p].own = ch[p].own
        /\ ch'[p].s = ch[p].s /\ ch'[p].rb = ch[p].rb
        /\ revealed'[p] = revealed[p] /\ Unwatched(p)
    BY <1>1, <1>2, <2>1, <2>2
  <2> QED BY <1>2, <2>2, <2>3
<1>3. CASE /\ Closable(p).s.st = "Settled" /\ Publish(p, Closable(p).s.tx)
           /\ Turn(p, [Closable(p) EXCEPT !.kind = k], {}, {})
  <2>1. k \in ClosedKinds /\ ch[p].kind = "Signed" /\ Closable(p) \in Channel /\ Same(ch[p], Closable(p))
    BY ClosableFields DEF Close
  <2>2. /\ ch'[p].kind \in ClosedKinds /\ ch'[p].ver = ch[p].ver /\ ch'[p].own = ch[p].own
        /\ ch'[p].s = Closable(p).s /\ ch'[p].rb = Closable(p).rb
        /\ revealed'[p] = revealed[p] /\ Unwatched(p)
    BY <1>1, <1>3, <2>1
  <2> QED BY <1>3, <2>1, <2>2
<1> QED BY <1>2, <1>3 DEF Close

-----------------------------------------------------------------------------
(* The invariants of the party that acts.                                  *)

LEMMA NotExposing ==
  ASSUME NEW c, NEW x, c.s.st \in StableStates \union Updating, c.s.st # "SettledConfirmed"
  PROVE  ~Exposing(c, x)
  BY DEF Exposing, StableStates, Updating, SettleStates, RenewStates

LEMMA SecretTypes ==
  ASSUME Types, NEW p \in Party
  PROVE  ch[p].ver \in Nat /\ \A x \in revealed[p] : x.sec \in Nat
<1>1. ch[p].ver \in Idx
  BY Stored DEF Channel
<1>2. revealed[p] \subseteq Msg
  BY DEF Types, TypeOK
<1>3. \A x \in Msg : x.sec \in Idx
  BY DEF Msg
<1> QED BY <1>1, <1>2, <1>3, Indices

\* The secrets of p do not reach further while the version stays, unless they may.
LEMMA SecretsStay ==
  ASSUME Types, NEW p \in Party, SecretInv(p), ch[p].kind = "Signed", Same(ch[p], ch'[p]),
         revealed'[p] = revealed[p],
         \A x \in revealed[p] : Exposing(ch[p], x) => Exposing(ch'[p], x)
  PROVE  SecretInv(p)'
  BY DEF SecretInv, Same, Opening

\* An update that reveals the secret of the old version at most.
LEMMA SecretsPass ==
  ASSUME Types, NEW p \in Party, SecretInv(p), ch'[p].kind = "Signed", ch'[p].ver = ch[p].ver + 1,
         \A x \in revealed'[p] : x \in revealed[p] \/ x.sec = ch[p].ver
  PROVE  SecretInv(p)'
<1>1. \A x \in revealed'[p] : x.sec <= ch[p].ver /\ x.sec \in Nat /\ ch[p].ver \in Nat
  BY SecretTypes DEF SecretInv
<1>2. \A x \in revealed'[p] : x.sec <= ch'[p].ver /\ x.sec # ch'[p].ver
  BY <1>1
<1> QED BY <1>2 DEF SecretInv, Opening

LEMMA Sent ==
  ASSUME NEW p \in Party, NEW type, NEW t, NEW k, NEW out \in {{}, Out(type, p, t, k)}
  PROVE  \A x \in out : x.type = type /\ x.to = Other(p) /\ x.tx = t /\ x.sec = k
  BY Answers

LEMMA SecretKept ==
  ASSUME Types, MessageInv, NEW p \in Party, StateInv(p), SecretInv(p), Move(p)
  PROVE  SecretInv(p)'
<1> DEFINE c == ch[p]
           d == ch'[p]
<1>1. ASSUME NEW out, Idle(p, out) PROVE SecretInv(p)'
  BY <1>1, IdleFacts DEF SecretInv, Secretive
<1>2. ASSUME NEW k, NEW out, Setup(p, k, out) PROVE SecretInv(p)'
  BY <1>2, SetupFacts DEF SecretInv, Secretive, Opening
<1>3. ASSUME NEW k, NEW out, Open(p, k, out) PROVE SecretInv(p)'
  BY <1>3, OpenFacts DEF SecretInv, Secretive, Opening
<1>4. ASSUME NEW s, NEW out, Propose(p, s, out) PROVE SecretInv(p)'
  <2>1. /\ Same(c, d) /\ c.kind = "Signed" /\ revealed'[p] = revealed[p] /\ c.s.st \in StableStates
    BY <1>4, ProposeFacts DEF Secretive
  <2>2. \A x : ~Exposing(c, x)
    BY <2>1, NotExposing DEF StableStates
  <2> QED BY <2>1, <2>2, SecretsStay
<1>5. ASSUME NEW m, NEW s, GetOffer(p, m, s) PROVE SecretInv(p)'
  <2>1. /\ Same(c, d) /\ c.kind = "Signed" /\ revealed'[p] = revealed[p] /\ c.s.st \in StableStates
    BY <1>5, GetOfferFacts DEF Secretive
  <2>2. \A x : ~Exposing(c, x)
    BY <2>1, NotExposing DEF StableStates
  <2> QED BY <2>1, <2>2, SecretsStay
<1>6. ASSUME NEW out, Withdraw(p, out) PROVE SecretInv(p)'
  <2>1. /\ Same(c, d) /\ c.kind = "Signed" /\ revealed'[p] = revealed[p] /\ c.s.st \in Updating
        /\ c.s.st # "SettledConfirmed"
    BY <1>6, WithdrawFacts DEF Secretive
  <2>2. \A x : ~Exposing(c, x)
    BY <2>1, NotExposing
  <2> QED BY <2>1, <2>2, SecretsStay
<1>7. ASSUME NEW s, NEW out, Accept(p, s, out) PROVE SecretInv(p)'
  <2>1. /\ Same(c, d) /\ c.kind = "Signed" /\ revealed'[p] = revealed[p] /\ c.s.st \in Updating
        /\ c.s.st # "SettledConfirmed"
    BY <1>7, AcceptFacts DEF Secretive, Received
  <2>2. \A x : ~Exposing(c, x)
    BY <2>1, NotExposing
  <2> QED BY <2>1, <2>2, SecretsStay
<1>8. ASSUME NEW m, NEW s, NEW out, Confirm(p, m, s, out) PROVE SecretInv(p)'
  <2>1. /\ Same(c, d) /\ c.kind = "Signed" /\ c.s.st \in Updating /\ d.s = s
        /\ \/ /\ c.s.st = "SettledOffered" /\ s.st = "SettledConfirmed"
              /\ out = Out("SettleConfirm", p, m.tx, c.ver)
           \/ c.s.st = "RenewOffered" /\ revealed'[p] = revealed[p]
        /\ \A x \in revealed'[p] : x \in revealed[p] \/ x \in out
    BY <1>8, ConfirmFacts
  <2>2. \A x : ~Exposing(c, x)
    BY <2>1, NotExposing
  <2>3. CASE revealed'[p] = revealed[p]
    BY <2>1, <2>2, <2>3, SecretsStay
  <2>4. CASE s.st = "SettledConfirmed" /\ out = Out("SettleConfirm", p, m.tx, c.ver)
    <3>1. \A x \in out : x.sec = c.ver /\ x.type = "SettleConfirm"
      BY <2>4, Answers
    <3>2. c.ver \in Nat /\ d.ver = c.ver /\ d.kind = "Signed"
      BY <2>1, SecretTypes DEF Same
    <3>3. \A x \in revealed[p] : x.sec <= c.ver /\ x.sec # c.ver
      BY <2>1, <2>2 DEF SecretInv
    <3>4. \A x \in revealed'[p] : x.sec <= d.ver /\ (x.sec = d.ver => x.type = "SettleConfirm")
      BY <2>1, <3>1, <3>2, <3>3
    <3> QED BY <2>1, <2>4, <3>2, <3>4 DEF SecretInv, Exposing, Opening
  <2> QED BY <2>1, <2>3, <2>4
<1>9. ASSUME NEW m, NEW out, Settle(p, m, out) PROVE SecretInv(p)'
  <2>1. /\ d.kind = "Signed" /\ d.ver = c.ver + 1
        /\ out \in {{}, Out("SettleFinalize", p, NoTx, c.ver)}
        /\ \A x \in revealed'[p] : x \in revealed[p] \/ x \in out
    BY <1>9, SettleFacts
  <2>2. \A x \in revealed'[p] : x \in revealed[p] \/ x.sec = c.ver
    BY <2>1, Sent
  <2> QED BY <2>1, <2>2, SecretsPass
<1>10. ASSUME NEW m, NEW out, Finalize(p, m, out) PROVE SecretInv(p)'
  <2>1. /\ d.kind = "Signed" /\ d.ver = c.ver /\ d.s.st = "RenewFinalized"
        /\ out \in {{}, Out("RenewFinalize", p, c.s.tx, c.ver)}
        /\ \A x \in revealed'[p] : x \in revealed[p] \/ x \in out
    BY <1>10, FinalizeFacts
  <2>2. \A x \in out : x.sec = c.ver
    BY <2>1, Sent
  <2>3. \A x \in revealed'[p] : x.sec <= d.ver
    BY <2>1, <2>2, SecretTypes DEF SecretInv
  <2> QED BY <2>1, <2>3 DEF SecretInv, Exposing, Opening
<1>11. ASSUME NEW m, NEW out, Renew(p, m, out) PROVE SecretInv(p)'
  <2>1. /\ d.kind = "Signed" /\ d.ver = c.ver + 1
        /\ out \in {{}, Out("RenewRevoke", p, NoTx, c.ver)}
        /\ \A x \in revealed'[p] : x \in revealed[p] \/ x \in out
    BY <1>11, RenewFacts
  <2>2. \A x \in revealed'[p] : x \in revealed[p] \/ x.sec = c.ver
    BY <2>1, Sent
  <2> QED BY <2>1, <2>2, SecretsPass
<1>12. ASSUME NEW m, Revoke(p, m) PROVE SecretInv(p)'
  <2>1. d.kind = "Signed" /\ d.ver = c.ver + 1 /\ revealed'[p] = revealed[p]
    BY <1>12, RevokeFacts
  <2> QED BY <2>1, SecretsPass
<1>13. ASSUME NEW t, NEW out, OfferClose(p, t, out) PROVE SecretInv(p)'
  <2>1. /\ Same(c, d) /\ c.kind = "Signed" /\ revealed'[p] = revealed[p] /\ d.rb = c.s
        /\ d.s.st = "CollaborativeCloseOffered"
    BY <1>13, OfferCloseFacts DEF Secretive
  <2>2. \A x : Exposing(c, x) => Exposing(d, x)
    BY <2>1 DEF Exposing
  <2> QED BY <2>1, <2>2, SecretsStay
<1>14. ASSUME Same(c, d), c.kind = "Signed", revealed'[p] = revealed[p], d.s.st = "Closing"
       PROVE  SecretInv(p)'
  BY <1>14, SecretsStay DEF Exposing
<1>15. CASE ForceClose(p)
  BY <1>14, <1>15, ForceCloseFacts
<1>16. ASSUME NEW t, SeeBuffer(p, t) PROVE SecretInv(p)'
  BY <1>14, <1>16, SeeBufferFacts
<1>17. ASSUME NEW k, Close(p, k) PROVE SecretInv(p)'
  <2>1. d.kind \in ClosedKinds /\ d.ver = c.ver /\ revealed'[p] = revealed[p]
    BY <1>17, CloseFacts
  <2>2. d.kind # "Signed" /\ d.kind \notin Opening
    BY <2>1 DEF ClosedKinds, Opening
  <2> QED BY <2>1, <2>2 DEF SecretInv
<1> QED BY <1>1, <1>2, <1>3, <1>4, <1>5, <1>6, <1>7, <1>8, <1>9, <1>10, <1>11, <1>12, <1>13, <1>15,
           <1>16, <1>17 DEF Move

\* What p watches, whose point is a number.
LEMMA WatchTypes ==
  ASSUME Types, NEW p \in Party, WatchInv(p)
  PROVE  ch[p].ver \in Nat /\ \A t \in Watched(p) : t \in Tx /\ Point(p, t) \in Nat
  BY SecretTypes, PointType, Indices DEF WatchInv

\* The watched buffers stay, and what is current of the channel too.
LEMMA WatchStays ==
  ASSUME Types, NEW p \in Party, WatchInv(p), ch[p].kind = "Signed", Same(ch[p], ch'[p]), Unwatched(p),
         ch[p].s.st \in StableStates \union Updating, Current(ch'[p]) = Current(ch[p])
  PROVE  WatchInv(p)'
  BY DEF WatchInv, Same, Unwatched, Opening, StableStates, Updating, SettleStates, RenewStates

\* A channel that is being closed, or was.
LEMMA WatchEnds ==
  ASSUME NEW p \in Party, WatchInv(p), Unwatched(p), ch'[p].kind \notin Opening,
         ch'[p].kind # "Signed" \/ ch'[p].s.st \notin StableStates \union Updating \union {"RenewFinalized"}
  PROVE  WatchInv(p)'
  BY DEF WatchInv, Unwatched

LEMMA Ends == /\ "CollaborativeCloseOffered" \notin StableStates \union Updating \union {"RenewFinalized"}
              /\ "Closing" \notin StableStates \union Updating \union {"RenewFinalized"}
              /\ "Signed" \notin Opening /\ "Signed" \notin ClosedKinds
              /\ \A k \in ClosedKinds : k \notin Opening /\ k # "Signed"
              /\ \A k \in Opening : k \notin ClosedKinds /\ k # "Signed"
              /\ "RenewFinalized" \notin StableStates \union Updating
              /\ \A st \in StableStates : st \notin Updating
  BY DEF StableStates, Updating, SettleStates, RenewStates, Opening, ClosedKinds

LEMMA WatchKept ==
  ASSUME Types, MessageInv, NEW p \in Party, StateInv(p), WatchInv(p), Move(p)
  PROVE  WatchInv(p)'
<1> DEFINE c == ch[p]
           d == ch'[p]
<1>1. ASSUME NEW out, Idle(p, out) PROVE WatchInv(p)'
  BY <1>1, IdleFacts DEF WatchInv, Unwatched
<1>2. ASSUME NEW k, NEW out, Setup(p, k, out) PROVE WatchInv(p)'
  <2>1. c.kind \in Opening /\ d.kind \in Opening /\ Unwatched(p)
    BY <1>2, SetupFacts
  <2> QED BY <2>1, Ends DEF WatchInv, Unwatched
<1>3. ASSUME NEW k, NEW out, Open(p, k, out) PROVE WatchInv(p)'
  <2>1. /\ c.kind \in Opening /\ d.kind = "Signed" /\ d.s.st = "Established" /\ d.s.tx = FirstBuffer /\ d.ver = 0
        /\ \A t \in Watched(p)' : t \in Watched(p) \/ t = FirstBuffer
    BY <1>3, OpenFacts
  <2>2. \A t \in Watched(p)' : t = FirstBuffer
    BY <2>1 DEF WatchInv
  <2>3. Current(d) = FirstBuffer
    BY <2>1 DEF Current, StableStates
  <2> QED BY <2>1, <2>2, <2>3, FirstBufferTx, Ends DEF WatchInv
<1>4. ASSUME NEW s, NEW out, Propose(p, s, out) PROVE WatchInv(p)'
  <2>1. /\ Same(c, d) /\ c.kind = "Signed" /\ Unwatched(p) /\ c.s.st \in StableStates
        /\ d.s = s /\ d.rb = c.s /\ s.st \in {"SettledOffered", "RenewOffered"}
    BY <1>4, ProposeFacts
  <2>2. Current(d) = Current(c)
    BY <2>1 DEF Current, StableStates
  <2> QED BY <2>1, <2>2, WatchStays
<1>5. ASSUME NEW m, NEW s, GetOffer(p, m, s) PROVE WatchInv(p)'
  <2>1. /\ Same(c, d) /\ c.kind = "Signed" /\ Unwatched(p) /\ c.s.st \in StableStates
        /\ d.s = s /\ d.rb = c.s /\ s.st \in {"SettledReceived", "RenewOffered"}
    BY <1>5, GetOfferFacts
  <2>2. Current(d) = Current(c)
    BY <2>1 DEF Current, StableStates
  <2> QED BY <2>1, <2>2, WatchStays
<1>6. ASSUME NEW out, Withdraw(p, out) PROVE WatchInv(p)'
  <2>1. /\ Same(c, d) /\ c.kind = "Signed" /\ Unwatched(p) /\ c.s.st \in Updating /\ d.s = c.rb
    BY <1>6, WithdrawFacts
  <2>2. c.rb.st \in StableStates
    BY <2>1 DEF StateInv, Replaces
  <2>3. Current(d) = Current(c)
    BY <2>1, <2>2, Ends DEF Current
  <2> QED BY <2>1, <2>3, WatchStays
\* The state to roll back to stays the current one.
<1>7. ASSUME Same(c, d), c.kind = "Signed", Unwatched(p), c.s.st \in Updating, d.s.st \in Updating, d.rb = c.rb
      PROVE  WatchInv(p)'
  <2>1. Current(d) = Current(c)
    BY <1>7, Ends DEF Current
  <2> QED BY <1>7, <2>1, WatchStays
<1>8. ASSUME NEW s, NEW out, Accept(p, s, out) PROVE WatchInv(p)'
  <2>1. /\ Same(c, d) /\ c.kind = "Signed" /\ Unwatched(p) /\ c.s.st \in Updating /\ d.rb = c.rb /\ d.s = s
        /\ s.st \in {"SettledAccepted", "RenewAccepted"}
    BY <1>8, AcceptFacts
  <2> QED BY <1>7, <2>1 DEF Updating, SettleStates, RenewStates
<1>9. ASSUME NEW m, NEW s, NEW out, Confirm(p, m, s, out) PROVE WatchInv(p)'
  <2>1. /\ Same(c, d) /\ c.kind = "Signed" /\ Unwatched(p) /\ c.s.st \in Updating /\ d.rb = c.rb /\ d.s = s
        /\ s.st \in {"SettledConfirmed", "RenewConfirmed"}
    BY <1>9, ConfirmFacts
  <2> QED BY <1>7, <2>1 DEF Updating, SettleStates, RenewStates
\* What is watched of a channel in an update that is not over.
<1>10. ASSUME c.kind = "Signed", c.s.st \in Updating
       PROVE  \A t \in Watched(p) : /\ t \in Tx /\ t.kind = "buffer" /\ Point(p, t) \in Nat /\ c.ver \in Nat
                                    /\ Point(p, t) < c.ver \/ (Point(p, t) = c.ver /\ t = c.rb.tx)
  BY <1>10, WatchTypes, Ends DEF WatchInv, Current
<1>11. ASSUME NEW m, NEW out, Settle(p, m, out) PROVE WatchInv(p)'
  <2>1. /\ d.kind = "Signed" /\ c.kind = "Signed" /\ d.ver = c.ver + 1 /\ Unwatched(p)
        /\ c.s.st \in {"SettledAccepted", "SettledConfirmed"}
    BY <1>11, SettleFacts
  <2>2. \A t \in Watched(p)' : t \in Tx /\ t.kind = "buffer" /\ Point(p, t) < d.ver
    BY <1>10, <2>1 DEF Unwatched, Updating, SettleStates, RenewStates
  <2> QED BY <2>1, <2>2, Ends DEF WatchInv
<1>12. ASSUME NEW m, NEW out, Finalize(p, m, out) PROVE WatchInv(p)'
  <2>1. /\ d.kind = "Signed" /\ c.kind = "Signed" /\ d.ver = c.ver /\ d.rb = c.rb
        /\ d.s.st = "RenewFinalized" /\ d.s.tx = c.s.tx /\ c.s.tx \in Tx /\ c.s.tx.kind = "buffer"
        /\ c.s.st = "RenewAccepted"
        /\ \A u \in Watched(p)' : u \in Watched(p) \/ u = c.s.tx
    BY <1>12, FinalizeFacts
  <2>2. Current(d) = c.rb.tx
    BY <2>1 DEF Current, StableStates
  <2>3. \A t \in Watched(p) : /\ t \in Tx /\ t.kind = "buffer"
                              /\ Point(p, t) < d.ver \/ (Point(p, t) = d.ver /\ t = Current(d))
    BY <1>10, <2>1, <2>2 DEF Updating, SettleStates, RenewStates
  <2> QED BY <2>1, <2>3, Ends DEF WatchInv
<1>13. ASSUME NEW m, NEW out, Renew(p, m, out) PROVE WatchInv(p)'
  <2>1. /\ d.kind = "Signed" /\ c.kind = "Signed" /\ d.ver = c.ver + 1 /\ d.s.st = "Established"
        /\ d.s.tx = c.s.tx /\ c.s.tx \in Tx /\ c.s.tx.kind = "buffer" /\ Point(p, c.s.tx) = c.ver + 1
        /\ c.s.st = "RenewConfirmed"
        /\ \A u \in Watched(p)' : u \in Watched(p) \/ u = c.s.tx
    BY <1>13, RenewFacts
  <2>2. Current(d) = c.s.tx
    BY <2>1 DEF Current, StableStates
  <2>3. \A t \in Watched(p) : t \in Tx /\ t.kind = "buffer" /\ Point(p, t) < d.ver
    BY <1>10, <2>1 DEF Updating, SettleStates, RenewStates
  <2> QED BY <2>1, <2>2, <2>3, Ends DEF WatchInv
<1>14. ASSUME NEW m, Revoke(p, m) PROVE WatchInv(p)'
  <2>1. /\ d.kind = "Signed" /\ c.kind = "Signed" /\ d.ver = c.ver + 1 /\ d.s.st = "Established"
        /\ d.s.tx = c.s.tx /\ Point(p, c.s.tx) = c.ver + 1 /\ c.s.st = "RenewFinalized" /\ Unwatched(p)
    BY <1>14, RevokeFacts
  <2>2. Current(d) = c.s.tx
    BY <2>1 DEF Current, StableStates
  <2>3. \A t \in Watched(p) : /\ t \in Tx /\ t.kind = "buffer"
                              /\ Point(p, t) < d.ver \/ (Point(p, t) = d.ver /\ t = Current(d))
    BY <2>1, <2>2, WatchTypes DEF WatchInv
  <2> QED BY <2>1, <2>3, Ends DEF WatchInv, Unwatched
<1>15. ASSUME NEW t, NEW out, OfferClose(p, t, out) PROVE WatchInv(p)'
  <2>1. d.kind = "Signed" /\ d.s.st = "CollaborativeCloseOffered" /\ Unwatched(p)
    BY <1>15, OfferCloseFacts DEF Same
  <2> QED BY <2>1, Ends, WatchEnds
<1>16. CASE ForceClose(p)
  <2>1. d.kind = "Signed" /\ d.s.st = "Closing" /\ Unwatched(p)
    BY <1>16, ForceCloseFacts DEF Same
  <2> QED BY <2>1, Ends, WatchEnds
<1>17. ASSUME NEW t, SeeBuffer(p, t) PROVE WatchInv(p)'
  <2>1. d.kind = "Signed" /\ d.s.st = "Closing" /\ Unwatched(p)
    BY <1>17, SeeBufferFacts DEF Same
  <2> QED BY <2>1, Ends, WatchEnds
<1>18. ASSUME NEW k, Close(p, k) PROVE WatchInv(p)'
  <2>1. d.kind \in ClosedKinds /\ Unwatched(p)
    BY <1>18, CloseFacts
  <2> QED BY <2>1, Ends, WatchEnds
<1> QED BY <1>1, <1>2, <1>3, <1>4, <1>5, <1>6, <1>8, <1>9, <1>11, <1>12, <1>13, <1>14, <1>15, <1>16,
           <1>17, <1>18 DEF Move

\* The transaction of a forced close fits the point of the channel, and its
\* secret was not given away, but for SettledConfirmed.
LEMMA ClosableFits ==
  ASSUME Types, NEW p \in Party, StateInv(p), ch[p].kind = "Signed",
         Closable(p).s.st \in {"Established", "Settled", "RenewFinalized"}
  PROVE  /\ Closable(p).s.tx \in Tx /\ Point(p, Closable(p).s.tx) = ch[p].own
         /\ Closable(p).s.tx.kind \in {"buffer", "settle"}
         /\ \/ Point(p, Closable(p).s.tx) = ch[p].ver + 1
            \/ /\ Point(p, Closable(p).s.tx) = ch[p].ver
               /\ \/ ch[p].s.st \in StableStates \union Updating
                  \/ ch[p].s.st = "CollaborativeCloseOffered" /\ ch[p].rb.st \in StableStates
<1> DEFINE c == ch[p]
           e == Closable(p)
<1>0. c.ver \in Nat /\ c \in Channel /\ Other(p) # p
  BY Stored, Indices, Parties DEF Channel
<1>1. CASE c.s.st \in Direct
  <2>1. e = c
    BY <1>1, ClosableFields
  <2>2. Fits(p, c, c.s) /\ c.s.st \in StableStates \union {"RenewFinalized"}
    BY <2>1 DEF StateInv, StableStates
  <2>3. c.s.tx \in Tx /\ c.s.tx.kind \in {"buffer", "settle"}
    BY <2>2 DEF Fits, TxKind, StableStates
  <2>4. CASE c.s.st \in StableStates
    <3>1. Point(p, c.s.tx) = c.ver /\ c.own = c.ver
      BY <2>2, <2>4 DEF Fits
    <3> QED BY <2>1, <2>3, <2>4, <3>1
  <2>5. CASE c.s.st = "RenewFinalized"
    <3>1. c.s.tx.by = Other(p) /\ c.s.tx.a = c.ver + 1 /\ c.own = c.ver + 1
      BY <2>2, <2>5 DEF Fits, Accepts
    <3>2. Point(p, c.s.tx) = c.ver + 1
      BY <1>0, <3>1 DEF Point
    <3> QED BY <2>1, <2>3, <3>1, <3>2
  <2> QED BY <2>2, <2>4, <2>5
<1>2. CASE c.s.st \notin Direct
  <2>1. e.s = c.rb
    BY <1>2, ClosableFields
  <2>2. Fits(p, c, c.s) /\ c.s \in State
    BY <1>0 DEF StateInv, Channel
  <2>3. c.s.st \in Updating \/ c.s.st = "CollaborativeCloseOffered"
    BY <1>2, <2>2 DEF Fits, State, SignedState, Direct, Updating, SettleStates, RenewStates
  <2>4. CASE c.s.st \in Updating
    <3>1. Replaces(p, c) /\ c.own = c.ver
      BY <2>2, <2>4 DEF StateInv, Fits
    <3>2. c.rb.tx \in Tx /\ c.rb.tx.kind \in {"buffer", "settle"} /\ Point(p, c.rb.tx) = c.ver
      BY <3>1 DEF Replaces, TxKind, StableStates
    <3> QED BY <2>1, <2>4, <3>1, <3>2
  <2>5. CASE c.s.st = "CollaborativeCloseOffered"
    <3>1. Fits(p, c, c.rb) /\ c.rb.st \in StableStates \union {"RenewFinalized"}
      BY <2>1, <2>5 DEF StateInv, StableStates
    <3>2. c.rb.tx \in Tx /\ c.rb.tx.kind \in {"buffer", "settle"}
      BY <3>1 DEF Fits, TxKind, StableStates
    <3>3. CASE c.rb.st \in StableStates
      <4>1. Point(p, c.rb.tx) = c.ver /\ c.own = c.ver
        BY <3>1, <3>3 DEF Fits
      <4> QED BY <2>1, <2>5, <3>2, <3>3, <4>1
    <3>4. CASE c.rb.st = "RenewFinalized"
      <4>1. c.rb.tx.by = Other(p) /\ c.rb.tx.a = c.ver + 1 /\ c.own = c.ver + 1
        BY <3>1, <3>4 DEF Fits, Accepts
      <4>2. Point(p, c.rb.tx) = c.ver + 1
        BY <1>0, <4>1 DEF Point
      <4> QED BY <2>1, <3>2, <4>1, <4>2
    <3> QED BY <3>1, <3>3, <3>4
  <2> QED BY <2>3, <2>4, <2>5
<1> QED BY <1>1, <1>2

LEMMA ClosableHidden ==
  ASSUME Types, NEW p \in Party, StateInv(p), SecretInv(p), ch[p].kind = "Signed",
         Closable(p).s.st \in {"Established", "Settled", "RenewFinalized"},
         NEW x \in revealed[p], x.sec = Point(p, Closable(p).s.tx)
  PROVE  ch[p].s.st = "SettledConfirmed" /\ x.type = "SettleConfirm" /\ x.sec = ch[p].own
<1> DEFINE c == ch[p]
<1>1. c.ver \in Nat /\ x.sec <= c.ver /\ (x.sec = c.ver => Exposing(c, x))
  BY SecretTypes DEF SecretInv
<1>2. /\ x.sec = c.own /\ x.sec = c.ver
      /\ \/ c.s.st \in StableStates \union Updating
         \/ c.s.st = "CollaborativeCloseOffered" /\ c.rb.st \in StableStates
  BY <1>1, ClosableFits
<1>3. Exposing(c, x)
  BY <1>1, <1>2
<1> QED BY <1>2, <1>3 DEF Exposing, StableStates, Updating, SettleStates, RenewStates

LEMMA HiddenDef ==
  ASSUME NEW p, NEW t
  PROVE  Hidden(p, t) <=> \A x \in revealed[p] : x.sec # Point(p, t)
  BY DEF Hidden, GivenAway

LEMMA HiddenDefPrime ==
  ASSUME NEW p, NEW t
  PROVE  Hidden(p, t)' <=> \A x \in revealed'[p] : x.sec # Point(p, t)
  BY DEF Hidden, GivenAway, Point

LEMMA HiddenKept ==
  ASSUME Types, MessageInv, UseInv, scenario' = scenario, NEW p \in Party,
         StateInv(p), SecretInv(p), WatchInv(p), HiddenInv(p), Move(p)
  PROVE  HiddenInv(p)'
<1> DEFINE c == ch[p]
           d == ch'[p]
<1> SUFFICES ASSUME "settle" \notin scenario.ops PROVE HiddenInv(p)'
  BY DEF HiddenInv
<1>a. /\ \A t \in Watched(p) : Hidden(p, t)
      /\ c.kind = "Signed" /\ c.s.st = "Closing" => Hidden(p, c.s.tx)
      /\ c.kind = "Signed" /\ c.s.st = "CollaborativeCloseOffered" /\ c.rb.st = "Closing" => Hidden(p, c.rb.tx)
      /\ c.s.st \notin SettleStates
  BY DEF HiddenInv, UseInv, In
<1>b. ASSUME \A t \in Watched(p)' : \A x \in revealed'[p] : x.sec # Point(p, t),
             d.kind = "Signed" /\ d.s.st = "Closing" => \A x \in revealed'[p] : x.sec # Point(p, d.s.tx),
             d.kind = "Signed" /\ d.s.st = "CollaborativeCloseOffered" /\ d.rb.st = "Closing" =>
                \A x \in revealed'[p] : x.sec # Point(p, d.rb.tx)
      PROVE  HiddenInv(p)'
  BY <1>b, HiddenDefPrime DEF HiddenInv, In
\* Nothing is revealed, and the party does not start to close.
<1>c. ASSUME revealed'[p] = revealed[p], Unwatched(p),
             d.kind # "Signed" \/ d.s.st \notin {"Closing", "CollaborativeCloseOffered"}
      PROVE  HiddenInv(p)'
  BY <1>a, <1>b, <1>c, HiddenDef DEF Unwatched
<1>1. ASSUME NEW out, Idle(p, out) PROVE HiddenInv(p)'
  <2>1. d = c /\ revealed'[p] = revealed[p] /\ Unwatched(p)
    BY <1>1, IdleFacts DEF Secretive
  <2> QED BY <1>a, <1>b, <2>1, HiddenDef DEF Unwatched
<1>2. ASSUME NEW k, NEW out, Setup(p, k, out) PROVE HiddenInv(p)'
  BY <1>2, <1>c, SetupFacts, Ends DEF Secretive
<1>3. ASSUME NEW k, NEW out, Open(p, k, out) PROVE HiddenInv(p)'
  <2>1. revealed'[p] = {} /\ d.s.st = "Established"
    BY <1>3, OpenFacts DEF SecretInv, Secretive
  <2> QED BY <1>b, <2>1
<1>4. ASSUME NEW s, NEW out, Propose(p, s, out) PROVE HiddenInv(p)'
  BY <1>4, <1>c, ProposeFacts DEF Secretive
<1>5. ASSUME NEW m, NEW s, GetOffer(p, m, s) PROVE HiddenInv(p)'
  BY <1>5, <1>c, GetOfferFacts DEF Secretive
<1>6. ASSUME NEW out, Withdraw(p, out) PROVE HiddenInv(p)'
  <2>1. /\ revealed'[p] = revealed[p] /\ Unwatched(p) /\ c.kind = "Signed" /\ c.s.st \in Updating
        /\ d.s = c.rb
    BY <1>6, WithdrawFacts DEF Secretive
  <2>2. d.s.st \in StableStates
    BY <2>1 DEF StateInv, Replaces
  <2> QED BY <1>c, <2>1, <2>2 DEF StableStates
<1>7. ASSUME NEW s, NEW out, Accept(p, s, out) PROVE HiddenInv(p)'
  BY <1>7, <1>c, AcceptFacts DEF Secretive
<1>8. ASSUME NEW m, NEW s, NEW out, Confirm(p, m, s, out) PROVE HiddenInv(p)'
  BY <1>8, <1>a, <1>c, ConfirmFacts DEF SettleStates
<1>9. ASSUME NEW m, NEW out, Settle(p, m, out) PROVE HiddenInv(p)'
  BY <1>9, <1>a, SettleFacts DEF SettleStates
\* A secret of the current version is given away when what it belongs to is no longer watched.
<1>10. ASSUME NEW out, c.kind = "Signed", c.s.st \in Updating,
              \A x \in revealed'[p] : x \in revealed[p] \/ x \in out,
              \A x \in out : x.sec = c.ver,
              out # {} => c.rb.tx \notin Watched(p)',
              c.s.tx \in Tx, Point(p, c.s.tx) = c.ver + 1,
              \A u \in Watched(p)' : u \in Watched(p) \/ u = c.s.tx,
              NEW t \in Watched(p)', NEW x \in revealed'[p]
       PROVE  x.sec # Point(p, t)
  <2>1. c.ver \in Nat /\ x.sec <= c.ver
    BY <1>10, SecretTypes DEF SecretInv
  <2>2. CASE t = c.s.tx
    BY <1>10, <2>1, <2>2
  <2>3. CASE t \in Watched(p) /\ x \in revealed[p]
    BY <1>a, <2>3, HiddenDef
  <2>4. CASE t \in Watched(p) /\ x \in out
    <3>1. t # c.rb.tx /\ x.sec = c.ver
      BY <1>10, <2>4
    <3>2. Current(c) = c.rb.tx /\ c.s.st # "RenewFinalized"
      BY <1>10, Ends DEF Current
    <3>3. Point(p, t) < c.ver /\ Point(p, t) \in Nat
      BY <1>10, <2>4, <3>1, <3>2, WatchTypes DEF WatchInv
    <3> QED BY <2>1, <3>1, <3>3
  <2> QED BY <1>10, <2>2, <2>3, <2>4
<1>11. ASSUME NEW m, NEW out, Finalize(p, m, out) PROVE HiddenInv(p)'
  <2>1. /\ c.kind = "Signed" /\ c.s.st = "RenewAccepted" /\ d.s.st = "RenewFinalized"
        /\ out \in {{}, Out("RenewFinalize", p, c.s.tx, c.ver)}
        /\ \A x \in revealed'[p] : x \in revealed[p] \/ x \in out
        /\ (out # {} => c.rb.tx \notin Watched(p)') /\ c.s.tx \in Tx /\ Point(p, c.s.tx) = c.ver + 1
        /\ \A u \in Watched(p)' : u \in Watched(p) \/ u = c.s.tx
    BY <1>11, FinalizeFacts DEF Drops
  <2>2. (\A x \in out : x.sec = c.ver) /\ c.s.st \in Updating
    BY <2>1, Sent DEF Updating, SettleStates, RenewStates
  <2>3. \A t \in Watched(p)' : \A x \in revealed'[p] : x.sec # Point(p, t)
    BY <1>10, <2>1, <2>2
  <2> QED BY <1>b, <2>1, <2>3
<1>12. ASSUME NEW m, NEW out, Renew(p, m, out) PROVE HiddenInv(p)'
  <2>1. /\ c.kind = "Signed" /\ c.s.st = "RenewConfirmed" /\ d.s.st = "Established"
        /\ out \in {{}, Out("RenewRevoke", p, NoTx, c.ver)}
        /\ \A x \in revealed'[p] : x \in revealed[p] \/ x \in out
        /\ (out # {} => c.rb.tx \notin Watched(p)') /\ c.s.tx \in Tx /\ Point(p, c.s.tx) = c.ver + 1
        /\ \A u \in Watched(p)' : u \in Watched(p) \/ u = c.s.tx
    BY <1>12, RenewFacts DEF Drops
  <2>2. (\A x \in out : x.sec = c.ver) /\ c.s.st \in Updating
    BY <2>1, Sent DEF Updating, SettleStates, RenewStates
  <2>3. \A t \in Watched(p)' : \A x \in revealed'[p] : x.sec # Point(p, t)
    BY <1>10, <2>1, <2>2
  <2> QED BY <1>b, <2>1, <2>3
<1>13. ASSUME NEW m, Revoke(p, m) PROVE HiddenInv(p)'
  BY <1>13, <1>c, RevokeFacts
<1>14. ASSUME NEW t, NEW out, OfferClose(p, t, out) PROVE HiddenInv(p)'
  <2>1. /\ revealed'[p] = revealed[p] /\ Unwatched(p) /\ c.kind = "Signed" /\ d.rb = c.s
        /\ d.s.st = "CollaborativeCloseOffered"
    BY <1>14, OfferCloseFacts DEF Secretive
  <2> QED BY <1>a, <1>b, <2>1, HiddenDef DEF Unwatched
<1>15. CASE ForceClose(p)
  <2>1. /\ revealed'[p] = revealed[p] /\ Unwatched(p) /\ c.kind = "Signed"
        /\ Closable(p).s.st \in {"Established", "RenewFinalized"}
        /\ d.s.st = "Closing" /\ d.s.tx = Closable(p).s.tx
    BY <1>15, ForceCloseFacts
  <2>2. c.s.st # "SettledConfirmed"
    BY <1>a DEF SettleStates
  <2>3. \A x \in revealed[p] : x.sec # Point(p, Closable(p).s.tx)
    BY <2>1, <2>2, ClosableHidden
  <2> QED BY <1>a, <1>b, <2>1, <2>3, HiddenDef DEF Unwatched
<1>16. ASSUME NEW t, SeeBuffer(p, t) PROVE HiddenInv(p)'
  <2>1. /\ revealed'[p] = revealed[p] /\ Unwatched(p) /\ t \in Watched(p)
        /\ d.s.st = "Closing" /\ d.s.tx = t
    BY <1>16, SeeBufferFacts
  <2> QED BY <1>a, <1>b, <2>1, HiddenDef DEF Unwatched
<1>17. ASSUME NEW k, Close(p, k) PROVE HiddenInv(p)'
  BY <1>17, <1>c, CloseFacts, Ends
<1> QED BY <1>1, <1>2, <1>3, <1>4, <1>5, <1>6, <1>7, <1>8, <1>9, <1>11, <1>12, <1>13, <1>14, <1>15,
           <1>16, <1>17 DEF Move

\* Only a crash makes a party lose what it watches.
LEMMA MoveFaults ==
  ASSUME Types, NEW p \in Party, Move(p)
  PROVE  faults' = 0 => faults = 0
<1>1. ASSUME NEW d, NEW out, NEW new, Turn(p, d, out, new) PROVE faults' = 0 => faults = 0
  BY <1>1, TurnFacts
<1> QED BY <1>1 DEF Move, Idle, Setup, Open, Propose, GetOffer, Withdraw, Accept, Confirm, Settle, Finalize,
                    Renew, Revoke, OfferClose, ForceClose, SeeBuffer, Close

LEMMA OwnPointKept ==
  ASSUME Types, MessageInv, NEW p \in Party, StateInv(p), WatchInv(p), OwnPointInv(p), Move(p)
  PROVE  OwnPointInv(p)'
<1> DEFINE c == ch[p]
           d == ch'[p]
<1> SUFFICES ASSUME faults = 0, faults' = 0 PROVE OwnPointInv(p)'
  BY MoveFaults DEF OwnPointInv
<1>a. c.kind = "Signed" => /\ \A t \in Watched(p) : Point(p, t) = c.own
                           /\ c.s.st = "Closing" => Point(p, c.s.tx) = c.own
  BY DEF OwnPointInv
<1>b. ASSUME d.kind = "Signed" => \A t \in Watched(p)' : Point(p, t) = d.own,
             d.kind = "Signed" /\ d.s.st = "Closing" => Point(p, d.s.tx) = d.own
      PROVE  OwnPointInv(p)'
  BY <1>b DEF OwnPointInv, Point
<1>c. ASSUME c.kind = "Signed", Same(c, d), Unwatched(p), d.s.st = "Closing" => Point(p, d.s.tx) = c.own
      PROVE  OwnPointInv(p)'
  BY <1>a, <1>b, <1>c DEF Unwatched, Same
<1>1. ASSUME NEW out, Idle(p, out) PROVE OwnPointInv(p)'
  <2>1. d = c /\ Unwatched(p)
    BY <1>1, IdleFacts
  <2> QED BY <1>a, <1>b, <2>1 DEF Unwatched
<1>2. ASSUME NEW k, NEW out, Setup(p, k, out) PROVE OwnPointInv(p)'
  BY <1>2, <1>b, SetupFacts, Ends
<1>3. ASSUME NEW k, NEW out, Open(p, k, out) PROVE OwnPointInv(p)'
  <2>1. /\ c.kind \in Opening /\ d.s.st = "Established" /\ d.own = 0
        /\ \A t \in Watched(p)' : t \in Watched(p) \/ t = FirstBuffer
    BY <1>3, OpenFacts
  <2>2. \A t \in Watched(p)' : t = FirstBuffer
    BY <2>1 DEF WatchInv
  <2> QED BY <1>b, <2>1, <2>2, FirstBufferTx
<1>4. ASSUME NEW s, NEW out, Propose(p, s, out) PROVE OwnPointInv(p)'
  BY <1>4, <1>c, ProposeFacts
<1>5. ASSUME NEW m, NEW s, GetOffer(p, m, s) PROVE OwnPointInv(p)'
  BY <1>5, <1>c, GetOfferFacts
<1>6. ASSUME NEW out, Withdraw(p, out) PROVE OwnPointInv(p)'
  <2>1. c.kind = "Signed" /\ Same(c, d) /\ Unwatched(p) /\ c.s.st \in Updating /\ d.s = c.rb
    BY <1>6, WithdrawFacts
  <2>2. d.s.st \in StableStates
    BY <2>1 DEF StateInv, Replaces
  <2> QED BY <1>c, <2>1, <2>2 DEF StableStates
<1>7. ASSUME NEW s, NEW out, Accept(p, s, out) PROVE OwnPointInv(p)'
  BY <1>7, <1>c, AcceptFacts
<1>8. ASSUME NEW m, NEW s, NEW out, Confirm(p, m, s, out) PROVE OwnPointInv(p)'
  BY <1>8, <1>c, ConfirmFacts
\* All that an update leaves watched is its new transaction.
<1>9. ASSUME NEW out, c.kind = "Signed", c.s.st \in Updating, c.own = c.ver, Drops(p, out)
      PROVE  \A t \in Watched(p)' : t \notin Watched(p)
  <2> SUFFICES ASSUME NEW t \in Watched(p)', t \in Watched(p) PROVE FALSE
    OBVIOUS
  <2>1. Point(p, t) = c.ver /\ c.ver \in Nat
    BY <1>a, <1>9, SecretTypes
  <2>2. t = Current(c)
    BY <1>9, <2>1, Ends DEF WatchInv
  <2> QED BY <1>9, <2>2, Ends DEF Current, Drops
<1>10. ASSUME NEW m, NEW out, Settle(p, m, out) PROVE OwnPointInv(p)'
  <2>1. /\ c.kind = "Signed" /\ c.s.st \in {"SettledAccepted", "SettledConfirmed"} /\ c.own = c.ver
        /\ Drops(p, out) /\ Unwatched(p) /\ d.s.st = "Settled"
    BY <1>10, SettleFacts
  <2>2. \A t \in Watched(p)' : FALSE
    BY <1>9, <2>1 DEF Unwatched, Updating, SettleStates, RenewStates
  <2> QED BY <1>b, <2>1, <2>2
<1>11. ASSUME NEW m, NEW out, Finalize(p, m, out) PROVE OwnPointInv(p)'
  <2>1. /\ c.kind = "Signed" /\ c.s.st = "RenewAccepted" /\ c.own = c.ver /\ Drops(p, out)
        /\ d.s.st = "RenewFinalized" /\ d.own = Point(p, c.s.tx)
        /\ \A u \in Watched(p)' : u \in Watched(p) \/ u = c.s.tx
    BY <1>11, FinalizeFacts
  <2>2. \A t \in Watched(p)' : t = c.s.tx
    BY <1>9, <2>1 DEF Updating, SettleStates, RenewStates
  <2> QED BY <1>b, <2>1, <2>2
<1>12. ASSUME NEW m, NEW out, Renew(p, m, out) PROVE OwnPointInv(p)'
  <2>1. /\ c.kind = "Signed" /\ c.s.st = "RenewConfirmed" /\ c.own = c.ver /\ Drops(p, out)
        /\ d.s.st = "Established" /\ d.own = Point(p, c.s.tx)
        /\ \A u \in Watched(p)' : u \in Watched(p) \/ u = c.s.tx
    BY <1>12, RenewFacts
  <2>2. \A t \in Watched(p)' : t = c.s.tx
    BY <1>9, <2>1 DEF Updating, SettleStates, RenewStates
  <2> QED BY <1>b, <2>1, <2>2
<1>13. ASSUME NEW m, Revoke(p, m) PROVE OwnPointInv(p)'
  <2>1. /\ c.kind = "Signed" /\ c.own = c.ver + 1 /\ d.own = Point(p, c.s.tx) /\ Point(p, c.s.tx) = c.ver + 1
        /\ Unwatched(p) /\ d.s.st = "Established"
    BY <1>13, RevokeFacts
  <2> QED BY <1>a, <1>b, <2>1 DEF Unwatched
<1>14. ASSUME NEW t, NEW out, OfferClose(p, t, out) PROVE OwnPointInv(p)'
  BY <1>14, <1>c, OfferCloseFacts
<1>15. CASE ForceClose(p)
  <2>1. /\ Same(c, d) /\ c.kind = "Signed" /\ Unwatched(p) /\ d.s.tx = Closable(p).s.tx
        /\ Closable(p).s.st \in {"Established", "RenewFinalized"}
    BY <1>15, ForceCloseFacts
  <2> QED BY <1>c, <2>1, ClosableFits
<1>16. ASSUME NEW t, SeeBuffer(p, t) PROVE OwnPointInv(p)'
  BY <1>a, <1>c, <1>16, SeeBufferFacts
<1>17. ASSUME NEW k, Close(p, k) PROVE OwnPointInv(p)'
  BY <1>17, <1>b, CloseFacts, Ends
<1> QED BY <1>1, <1>2, <1>3, <1>4, <1>5, <1>6, <1>7, <1>8, <1>10, <1>11, <1>12, <1>13, <1>14, <1>15,
           <1>16, <1>17 DEF Move

-----------------------------------------------------------------------------
(* The invariants of both parties, the messages and the chain.             *)

\* What a message of p says, whatever the state that p sends it in.
Sendable(p, x) ==
    /\ x.type \in {"SettleOffer", "RenewOffer"} => x.tx \in Tx /\ x.tx.by = Other(x.to) /\ x.tx.o # 0
    /\ x.type \in {"SettleAccept", "RenewAccept"} => x.tx \in Tx /\ x.tx.by = x.to
    /\ x.type \in {"SettleOffer", "SettleAccept"} => x.tx.kind = "settle"
    /\ x.type \in {"RenewOffer", "RenewAccept"} => x.tx.kind = "buffer"
    /\ x.type = "CollaborativeCloseOffer" => x.tx \in Tx /\ x.tx.kind = "close" /\ "collaborative" \in scenario.ops
    /\ x.type \in Reveals => x.to = Other(p)
    /\ x.type \in SettleMsgs => "settle" \in scenario.ops
    /\ x.type = "AcceptChannel" => x.to = "alice"
    /\ x.type = "SignChannel" => x.to = "bob" /\ p = "alice" /\ ch'["alice"].kind = "Signed"
Sends(p, out) == (\E d, new : Turn(p, d, out, new)) /\ \A x \in out : Sendable(p, x)

LEMMA MoveSends ==
  ASSUME Types, MessageInv, UseInv, NEW p \in Party, StateInv(p), Move(p)
  PROVE  \E out : Sends(p, out)
<1> DEFINE c == ch[p]
           d == ch'[p]
<1>a. Other(Other(p)) = p
  BY Parties
<1>b. c.s.st \in SettleStates => "settle" \in scenario.ops
  BY DEF UseInv
<1>1. ASSUME NEW out, Idle(p, out) PROVE Sends(p, out)
  BY <1>1 DEF Idle, Sends, Sendable, Reveals, SettleMsgs
<1>2. ASSUME NEW k, NEW out, Setup(p, k, out) PROVE Sends(p, out)
  BY <1>2 DEF Setup, Sends, Sendable, Reveals, SettleMsgs
<1>3. ASSUME NEW k, NEW out, Open(p, k, out) PROVE Sends(p, out)
  <2>1. d.kind = "Signed"
    BY <1>3, OpenFacts
  <2> QED BY <1>3, <2>1 DEF Open, Sends, Sendable, Reveals, SettleMsgs
<1>4. ASSUME NEW s, NEW out, Propose(p, s, out) PROVE Sends(p, out)
  <2>1. /\ s.st \in {"SettledOffered", "RenewOffered"}
        /\ s.tx \in Tx /\ s.tx.kind = TxKind(s.st) /\ s.tx.by = p
        /\ s.st = "SettledOffered" => "settle" \in scenario.ops
        /\ \A x \in out : x.to = Other(p) /\ x.type = OfferOf(s.st) /\ x.tx = s.tx
        /\ s.tx.o = c.ver + 1
    BY <1>4, ProposeFacts
  <2>2. s.tx.o # 0
    BY <2>1, SecretTypes
  <2>3. \A x \in out : Sendable(p, x)
    BY <1>a, <2>1, <2>2 DEF Sendable, OfferOf, TxKind, SettleStates, Reveals, SettleMsgs
  <2> QED BY <1>4, <2>3 DEF Propose, Sends
<1>5. ASSUME NEW m, NEW s, GetOffer(p, m, s) PROVE Sends(p, {})
  BY <1>5 DEF GetOffer, Sends
<1>6. ASSUME NEW out, Withdraw(p, out) PROVE Sends(p, out)
  BY <1>6 DEF Withdraw, Sends, Sendable, Reveals, SettleMsgs
<1>7. ASSUME NEW s, NEW out, Accept(p, s, out) PROVE Sends(p, out)
  <2>1. /\ s.st = (IF c.s.st = "SettledReceived" THEN "SettledAccepted" ELSE "RenewAccepted")
        /\ s.tx \in Tx /\ s.tx.kind = TxKind(s.st) /\ s.tx.by = Other(p)
        /\ \A x \in out : x.to = Other(p) /\ x.type = AcceptOf(s.st) /\ x.tx = s.tx
    BY <1>7, AcceptFacts
  <2>2. s.st = "SettledAccepted" => "settle" \in scenario.ops
    BY <1>b, <2>1 DEF SettleStates
  <2>3. \A x \in out : Sendable(p, x)
    BY <2>1, <2>2 DEF Sendable, AcceptOf, TxKind, SettleStates, Reveals, SettleMsgs
  <2> QED BY <1>7, <2>3 DEF Accept, Sends
<1>8. ASSUME NEW m, NEW s, NEW out, Confirm(p, m, s, out) PROVE Sends(p, out)
  <2>1. \/ c.s.st = "SettledOffered" /\ out = Out("SettleConfirm", p, m.tx, c.ver)
        \/ out = Out("RenewConfirm", p, m.tx, 0)
    BY <1>8, ConfirmFacts
  <2>2. \A x \in out : /\ x.to = Other(p)
                       /\ \/ x.type = "SettleConfirm" /\ c.s.st = "SettledOffered"
                          \/ x.type = "RenewConfirm"
    BY <2>1, Answers
  <2>3. \A x \in out : Sendable(p, x)
    BY <1>b, <2>2 DEF Sendable, SettleStates, Reveals, SettleMsgs
  <2> QED BY <1>8, <2>3 DEF Confirm, Sends
<1>9. ASSUME NEW m, NEW out, Settle(p, m, out) PROVE Sends(p, out)
  <2>1. out \in {{}, Out("SettleFinalize", p, NoTx, c.ver)} /\ c.s.st \in {"SettledAccepted", "SettledConfirmed"}
    BY <1>9, SettleFacts
  <2>2. \A x \in out : Sendable(p, x)
    BY <1>b, <2>1, Sent DEF Sendable, SettleStates, Reveals, SettleMsgs
  <2> QED BY <1>9, <2>2 DEF Settle, Sends
<1>10. ASSUME NEW m, NEW out, Finalize(p, m, out) PROVE Sends(p, out)
  <2>1. out \in {{}, Out("RenewFinalize", p, c.s.tx, c.ver)}
    BY <1>10, FinalizeFacts
  <2>2. \A x \in out : Sendable(p, x)
    BY <2>1, Sent DEF Sendable, Reveals, SettleMsgs
  <2> QED BY <1>10, <2>2 DEF Finalize, Sends
<1>11. ASSUME NEW m, NEW out, Renew(p, m, out) PROVE Sends(p, out)
  <2>1. out \in {{}, Out("RenewRevoke", p, NoTx, c.ver)}
    BY <1>11, RenewFacts
  <2>2. \A x \in out : Sendable(p, x)
    BY <2>1, Sent DEF Sendable, Reveals, SettleMsgs
  <2> QED BY <1>11, <2>2 DEF Renew, Sends
<1>12. ASSUME NEW m, Revoke(p, m) PROVE Sends(p, {})
  BY <1>12 DEF Revoke, Sends
<1>13. ASSUME NEW t, NEW out, OfferClose(p, t, out) PROVE Sends(p, out)
  <2>1. /\ t \in Tx /\ t.kind = "close" /\ "collaborative" \in scenario.ops
        /\ \A x \in out : x.type = "CollaborativeCloseOffer" /\ x.tx = t
    BY <1>13, OfferCloseFacts
  <2>2. \A x \in out : Sendable(p, x)
    BY <2>1 DEF Sendable, Reveals, SettleMsgs
  <2> QED BY <1>13, <2>2 DEF OfferClose, Sends
<1>14. CASE ForceClose(p)
  <2>1. Sends(p, {})
    BY <1>14 DEF ForceClose, Sends
  <2> QED BY <2>1
<1>15. ASSUME NEW t, SeeBuffer(p, t) PROVE Sends(p, {})
  BY <1>15 DEF SeeBuffer, Sends
<1>16. ASSUME NEW k, Close(p, k) PROVE Sends(p, {})
  BY <1>16 DEF Close, Sends
<1> QED BY <1>1, <1>2, <1>3, <1>4, <1>5, <1>6, <1>7, <1>8, <1>9, <1>10, <1>11, <1>12, <1>13, <1>14,
           <1>15, <1>16 DEF Move

LEMMA MessageKept ==
  ASSUME Types, MessageInv, UseInv, NEW p \in Party, StateInv(p), Move(p)
  PROVE  MessageInv'
<1>1. PICK out : Sends(p, out)
  BY MoveSends
<1>2. /\ \A x : x \in revealed'[p] <=> x \in revealed[p] \/ (x \in out /\ x.type \in Reveals)
      /\ \A q \in Party \ {p} : revealed'[q] = revealed[q]
      /\ \A x \in msgs' : x \in msgs \/ x \in out
  BY <1>1, TurnFacts DEF Sends
<1>3. \A m \in msgs : m.to \in Party
  BY DEF Types, TypeOK, Msg
<1>4. \A q \in Party : \A x \in revealed[q] : x \in revealed'[q]
  BY <1>2
<1>5. SUFFICES ASSUME NEW m \in msgs'
               PROVE  /\ m.type \in {"SettleOffer", "RenewOffer"} => m.tx \in Tx /\ m.tx.by = Other(m.to) /\ m.tx.o # 0
                      /\ m.type \in {"SettleAccept", "RenewAccept"} => m.tx \in Tx /\ m.tx.by = m.to
                      /\ m.type \in {"SettleOffer", "SettleAccept"} => m.tx.kind = "settle"
                      /\ m.type \in {"RenewOffer", "RenewAccept"} => m.tx.kind = "buffer"
                      /\ m.type = "CollaborativeCloseOffer" => m.tx \in Tx /\ m.tx.kind = "close"
                      /\ m.type \in Reveals => m \in revealed'[Other(m.to)]
  BY DEF MessageInv
<1>6. CASE m \in msgs
  BY <1>3, <1>4, <1>6, Parties DEF MessageInv
<1>7. CASE m \in out
  <2>1. Sendable(p, m)
    BY <1>1, <1>7 DEF Sends
  <2>2. m.type \in Reveals => m \in revealed'[Other(m.to)]
    BY <1>2, <1>7, <2>1, Parties DEF Sendable
  <2> QED BY <2>1, <2>2 DEF Sendable
<1> QED BY <1>2, <1>6, <1>7

\* The states of the party that acts.
LEMMA UseStates ==
  ASSUME Types, MessageInv, UseInv, NEW p \in Party, StateInv(p), Move(p)
  PROVE  /\ "collaborative" \notin scenario.ops =>
                ~(ch'[p].kind = "Signed" /\ ch'[p].s.st = "CollaborativeCloseOffered")
         /\ "settle" \notin scenario.ops => ch'[p].s.st \notin SettleStates /\ ch'[p].rb.st \notin SettleStates
<1> DEFINE c == ch[p]
           d == ch'[p]
           Goal == /\ "collaborative" \notin scenario.ops => ~(d.kind = "Signed" /\ d.s.st = "CollaborativeCloseOffered")
                   /\ "settle" \notin scenario.ops => d.s.st \notin SettleStates /\ d.rb.st \notin SettleStates
<1>a. /\ "collaborative" \notin scenario.ops => ~(c.kind = "Signed" /\ c.s.st = "CollaborativeCloseOffered")
      /\ "settle" \notin scenario.ops => c.s.st \notin SettleStates /\ c.rb.st \notin SettleStates
      /\ "settle" \notin scenario.ops => \A x \in msgs : x.type \notin SettleMsgs
  BY DEF UseInv, In
<1>b. NoState.st = "NoState" /\ "NoState" \notin SettleStates
  BY DEF NoState, SettleStates
<1> SUFFICES Goal
  OBVIOUS
<1>1. ASSUME NEW out, Idle(p, out) PROVE Goal
  BY <1>1, <1>a, IdleFacts
<1>2. ASSUME NEW k, NEW out, Setup(p, k, out) PROVE Goal
  BY <1>2, <1>a, SetupFacts, Ends
<1>3. ASSUME NEW k, NEW out, Open(p, k, out) PROVE Goal
  BY <1>3, <1>b, OpenFacts DEF SettleStates
<1>4. ASSUME NEW s, NEW out, Propose(p, s, out) PROVE Goal
  BY <1>4, <1>a, ProposeFacts DEF StableStates, SettleStates
<1>5. ASSUME NEW m, NEW s, GetOffer(p, m, s) PROVE Goal
  <2>1. /\ d.s = s /\ d.rb = c.s /\ m \in msgs
        /\ \/ m.type = "SettleOffer" /\ s.st = "SettledReceived"
           \/ m.type = "RenewOffer" /\ s.st = "RenewOffered"
    BY <1>5, GetOfferFacts
  <2> QED BY <1>a, <2>1 DEF SettleStates, SettleMsgs
<1>6. ASSUME NEW out, Withdraw(p, out) PROVE Goal
  <2>1. d.s = c.rb /\ d.rb = NoState /\ c.kind = "Signed" /\ c.s.st \in Updating
    BY <1>6, WithdrawFacts
  <2>2. d.s.st \in StableStates
    BY <2>1 DEF StateInv, Replaces
  <2> QED BY <1>b, <2>1, <2>2 DEF StableStates, SettleStates
<1>7. ASSUME NEW s, NEW out, Accept(p, s, out) PROVE Goal
  BY <1>7, <1>a, AcceptFacts DEF SettleStates
<1>8. ASSUME NEW m, NEW s, NEW out, Confirm(p, m, s, out) PROVE Goal
  BY <1>8, <1>a, ConfirmFacts DEF SettleStates
<1>9. ASSUME NEW m, NEW out, Settle(p, m, out) PROVE Goal
  BY <1>9, <1>b, SettleFacts DEF SettleStates
<1>10. ASSUME NEW m, NEW out, Finalize(p, m, out) PROVE Goal
  BY <1>10, <1>a, FinalizeFacts DEF SettleStates
<1>11. ASSUME NEW m, NEW out, Renew(p, m, out) PROVE Goal
  BY <1>11, <1>b, RenewFacts DEF SettleStates
<1>12. ASSUME NEW m, Revoke(p, m) PROVE Goal
  BY <1>12, <1>a, RevokeFacts DEF SettleStates
<1>13. ASSUME NEW t, NEW out, OfferClose(p, t, out) PROVE Goal
  BY <1>13, <1>a, OfferCloseFacts DEF SettleStates
<1>14. Closable(p).rb \in {c.rb, NoState} /\ Closable(p).s \in {c.s, c.rb}
  BY ClosableFields
<1>15. CASE ForceClose(p)
  BY <1>15, <1>a, <1>b, <1>14, ForceCloseFacts DEF SettleStates
<1>16. ASSUME NEW t, SeeBuffer(p, t) PROVE Goal
  BY <1>16, <1>a, SeeBufferFacts DEF SettleStates
<1>17. ASSUME NEW k, Close(p, k) PROVE Goal
  <2>1. d.kind # "Signed" /\ d.s \in {c.s, c.rb} /\ d.rb \in {c.rb, NoState}
    BY <1>14, <1>17, CloseFacts, Ends
  <2> QED BY <1>a, <1>b, <2>1
<1> QED BY <1>1, <1>2, <1>3, <1>4, <1>5, <1>6, <1>7, <1>8, <1>9, <1>10, <1>11, <1>12, <1>13, <1>15,
           <1>16, <1>17 DEF Move

LEMMA UseKept ==
  ASSUME Types, MessageInv, UseInv, scenario' = scenario, NEW p \in Party, StateInv(p), Move(p)
  PROVE  UseInv'
<1>1. PICK out : Sends(p, out)
  BY MoveSends
<1>2. /\ \A x \in msgs' : x \in msgs \/ x \in out
      /\ \A q \in Party \ {p} : ch'[q] = ch[q]
  BY <1>1, TurnFacts DEF Sends
<1>3. /\ "collaborative" \notin scenario.ops => \A m \in msgs' : m.type # "CollaborativeCloseOffer"
      /\ "settle" \notin scenario.ops => \A m \in msgs' : m.type \notin SettleMsgs
  BY <1>1, <1>2 DEF Sends, Sendable, UseInv
<1>4. "collaborative" \notin scenario.ops => \A q \in Party : ~In(q, "CollaborativeCloseOffered")'
  BY <1>2, UseStates DEF UseInv, In
<1>5. "settle" \notin scenario.ops =>
          \A q \in Party : ch'[q].s.st \notin SettleStates /\ ch'[q].rb.st \notin SettleStates
  BY <1>2, UseStates DEF UseInv
<1> QED BY <1>3, <1>4, <1>5 DEF UseInv

\* How far the setup of the channel is, and its funding transaction.
LEMMA KindMoves ==
  ASSUME Types, MessageInv, NEW p \in Party, StateInv(p), Move(p)
  PROVE  /\ \/ ch'[p].kind = ch[p].kind
            \/ /\ ch[p].kind \in Opening /\ ch'[p].kind \in Opening
               /\ p = "alice" => ch'[p].kind # "Accepted"
            \/ ch'[p].kind \in ClosedKinds \union {"Signed"}
         /\ \/ chain'.fund = chain.fund
            \/ Opened("alice") /\ (faults' = 0 => p = "bob" /\ ch'[p].kind = "Signed")
<1>a. Quiet => chain'.fund = chain.fund
  BY DEF Quiet
<1>b. \A t : Publish(p, t) => chain'.fund = chain.fund
  BY Publishing DEF Publish
<1>1. ASSUME NEW out, Idle(p, out) PROVE ch'[p] = ch[p] /\ (chain'.fund = chain.fund \/ (faults' # 0 /\ Opened("alice")))
  BY <1>1, <1>a, IdleFacts DEF Idle
<1>2. ASSUME NEW k, NEW out, Setup(p, k, out)
      PROVE  /\ ch[p].kind \in Opening /\ ch'[p].kind \in Opening /\ (p = "alice" => ch'[p].kind # "Accepted")
             /\ chain'.fund = chain.fund
  BY <1>2, <1>a, SetupFacts DEF Setup
<1>3. ASSUME NEW k, NEW out, Open(p, k, out)
      PROVE  /\ ch'[p].kind = "Signed"
             /\ chain'.fund = chain.fund \/ (Opened("alice") /\ p = "bob")
  BY <1>3, OpenFacts DEF Open
<1>4. ASSUME NEW s, NEW out, Propose(p, s, out) \/ Accept(p, s, out)
      PROVE  ch'[p].kind = "Signed" /\ chain'.fund = chain.fund
  BY <1>4, <1>a, ProposeFacts, AcceptFacts DEF Same, Propose, Accept
<1>5. ASSUME NEW m, NEW s, GetOffer(p, m, s) PROVE ch'[p].kind = "Signed" /\ chain'.fund = chain.fund
  BY <1>5, <1>a, GetOfferFacts DEF Same, GetOffer
<1>6. ASSUME NEW out, Withdraw(p, out) PROVE ch'[p].kind = "Signed" /\ chain'.fund = chain.fund
  BY <1>6, <1>a, WithdrawFacts DEF Same, Withdraw
<1>7. ASSUME NEW m, NEW s, NEW out, Confirm(p, m, s, out) PROVE ch'[p].kind = "Signed" /\ chain'.fund = chain.fund
  BY <1>7, <1>a, ConfirmFacts DEF Same, Confirm
<1>8. ASSUME NEW m, NEW out, Settle(p, m, out) PROVE ch'[p].kind = "Signed" /\ chain'.fund = chain.fund
  BY <1>8, <1>a, SettleFacts DEF Settle
<1>9. ASSUME NEW m, NEW out, Finalize(p, m, out) PROVE ch'[p].kind = "Signed" /\ chain'.fund = chain.fund
  BY <1>9, <1>a, FinalizeFacts DEF Finalize
<1>10. ASSUME NEW m, NEW out, Renew(p, m, out) PROVE ch'[p].kind = "Signed" /\ chain'.fund = chain.fund
  BY <1>10, <1>a, RenewFacts DEF Renew
<1>11. ASSUME NEW m, Revoke(p, m) PROVE ch'[p].kind = "Signed" /\ chain'.fund = chain.fund
  BY <1>11, <1>a, RevokeFacts DEF Revoke
<1>12. ASSUME NEW t, NEW out, OfferClose(p, t, out) PROVE ch'[p].kind = "Signed" /\ chain'.fund = chain.fund
  BY <1>12, <1>a, OfferCloseFacts DEF Same, OfferClose
<1>13. CASE ForceClose(p)
  BY <1>13, <1>b, ForceCloseFacts DEF Same
<1>14. ASSUME NEW t, SeeBuffer(p, t) PROVE ch'[p].kind = "Signed" /\ chain'.fund = chain.fund
  BY <1>14, <1>a, SeeBufferFacts DEF Same, SeeBuffer
<1>15. ASSUME NEW k, Close(p, k) PROVE ch'[p].kind \in ClosedKinds /\ chain'.fund = chain.fund
  BY <1>15, <1>a, <1>b, CloseFacts
<1> QED BY <1>1, <1>2, <1>3, <1>4, <1>5, <1>6, <1>7, <1>8, <1>9, <1>10, <1>11, <1>12, <1>13, <1>14,
           <1>15 DEF Move

LEMMA OpeningKept ==
  ASSUME Types, MessageInv, UseInv, OpeningInv, NEW p \in Party, StateInv(p), Move(p)
  PROVE  OpeningInv'
<1>1. PICK out : Sends(p, out)
  BY MoveSends
<1>2. /\ \A x \in msgs' : x \in msgs \/ x \in out
      /\ \A q \in Party \ {p} : ch'[q] = ch[q]
  BY <1>1, TurnFacts DEF Sends
<1>3. \A q \in Party : ch[q].kind \in ClosedKinds \union {"Signed"} => ch'[q].kind \in ClosedKinds \union {"Signed"}
  BY <1>2, KindMoves, Ends
<1>4. \A q : Opened(q)' <=> ch'[q].kind \in ClosedKinds \union {"Signed"}
  BY DEF Opened
<1>5. Opened("alice") => Opened("alice")'
  BY <1>3, <1>4, Parties DEF Opened
<1>6. \A m \in msgs' : /\ m.type = "AcceptChannel" => m.to = "alice"
                       /\ m.type = "SignChannel" => m.to = "bob" /\ Opened("alice")'
  BY <1>1, <1>2, <1>4, <1>5 DEF OpeningInv, Sends, Sendable
<1>7. ch'["alice"].kind # "Accepted"
  BY <1>2, KindMoves, Ends, Parties DEF OpeningInv, Opening, ClosedKinds
<1>8. chain'.fund # "none" => Opened("alice")' /\ (faults' = 0 => Opened("bob")')
  <2>1. CASE chain'.fund = chain.fund
    BY <1>3, <1>4, <1>5, <2>1, MoveFaults, Parties DEF OpeningInv, Opened
  <2>2. CASE Opened("alice") /\ (faults' = 0 => p = "bob" /\ ch'[p].kind = "Signed")
    BY <1>4, <1>5, <2>2
  <2> QED BY <2>1, <2>2, KindMoves
<1> QED BY <1>6, <1>7, <1>8 DEF OpeningInv

\* A party that closes the channel gives no more secrets away.
LEMMA GoneMoves ==
  ASSUME Types, MessageInv, NEW p \in Party, StateInv(p), Gone(p), Move(p)
  PROVE  Gone(p)' /\ revealed'[p] = revealed[p] /\ ch'[p].own = ch[p].own
<1> DEFINE c == ch[p]
           d == ch'[p]
           Goal == Gone(p)' /\ revealed'[p] = revealed[p] /\ d.own = c.own
<1> SUFFICES Goal
  OBVIOUS
<1>a. \/ c.kind \in ClosedKinds
      \/ c.kind = "Signed" /\ c.s.st = "Closing"
      \/ /\ c.kind = "Signed" /\ c.s.st = "CollaborativeCloseOffered"
         /\ c.rb.st \in {"Closing", "CollaborativeCloseOffered"}
  BY DEF Gone, In
<1>b. Gone(p)' <=> \/ d.kind \in ClosedKinds
                   \/ d.kind = "Signed" /\ d.s.st = "Closing"
                   \/ /\ d.kind = "Signed" /\ d.s.st = "CollaborativeCloseOffered"
                      /\ d.rb.st \in {"Closing", "CollaborativeCloseOffered"}
  BY DEF Gone, In
<1>c. c.kind \notin Opening /\ (c.kind = "Signed" => c.s.st \notin StableStates \union Updating \union {"RenewFinalized"})
  BY <1>a, Ends
<1>1. ASSUME NEW out, Idle(p, out) PROVE Goal
  BY <1>1, <1>a, <1>b, IdleFacts DEF Secretive
<1>2. ASSUME NEW k, NEW out, Setup(p, k, out) PROVE FALSE
  BY <1>2, <1>c, SetupFacts
<1>3. ASSUME NEW k, NEW out, Open(p, k, out) PROVE FALSE
  BY <1>3, <1>c, OpenFacts
<1>4. ASSUME NEW s, NEW out, Propose(p, s, out) PROVE FALSE
  BY <1>4, <1>c, ProposeFacts
<1>5. ASSUME NEW m, NEW s, GetOffer(p, m, s) PROVE FALSE
  BY <1>5, <1>c, GetOfferFacts
<1>6. ASSUME NEW out, Withdraw(p, out) PROVE FALSE
  BY <1>6, <1>c, WithdrawFacts
<1>7. ASSUME NEW s, NEW out, Accept(p, s, out) PROVE FALSE
  BY <1>7, <1>c, AcceptFacts
<1>8. ASSUME NEW m, NEW s, NEW out, Confirm(p, m, s, out) PROVE FALSE
  BY <1>8, <1>c, ConfirmFacts
<1>9. ASSUME NEW m, NEW out, Settle(p, m, out) PROVE FALSE
  <2>1. c.kind = "Signed" /\ c.s.st \in {"SettledAccepted", "SettledConfirmed"}
    BY <1>9, SettleFacts
  <2> QED BY <1>c, <2>1 DEF Updating, SettleStates, RenewStates
<1>10. ASSUME NEW m, NEW out, Finalize(p, m, out) PROVE FALSE
  <2>1. c.kind = "Signed" /\ c.s.st = "RenewAccepted"
    BY <1>10, FinalizeFacts
  <2> QED BY <1>c, <2>1 DEF Updating, SettleStates, RenewStates
<1>11. ASSUME NEW m, NEW out, Renew(p, m, out) PROVE FALSE
  <2>1. c.kind = "Signed" /\ c.s.st = "RenewConfirmed"
    BY <1>11, RenewFacts
  <2> QED BY <1>c, <2>1 DEF Updating, SettleStates, RenewStates
<1>12. ASSUME NEW m, Revoke(p, m) PROVE FALSE
  BY <1>12, <1>c, RevokeFacts
<1>13. ASSUME NEW t, NEW out, OfferClose(p, t, out) PROVE Goal
  <2>1. Same(c, d) /\ c.kind = "Signed" /\ d.rb = c.s /\ d.s.st = "CollaborativeCloseOffered" /\ revealed'[p] = revealed[p]
    BY <1>13, OfferCloseFacts DEF Secretive
  <2> QED BY <1>a, <1>b, <2>1, Ends DEF Same
<1>14. CASE ForceClose(p)
  <2>1. Same(c, d) /\ c.kind = "Signed" /\ d.s.st = "Closing" /\ revealed'[p] = revealed[p]
    BY <1>14, ForceCloseFacts
  <2> QED BY <1>b, <2>1 DEF Same
<1>15. ASSUME NEW t, SeeBuffer(p, t) PROVE Goal
  <2>1. Same(c, d) /\ c.kind = "Signed" /\ d.s.st = "Closing" /\ revealed'[p] = revealed[p]
    BY <1>15, SeeBufferFacts
  <2> QED BY <1>b, <2>1 DEF Same
<1>16. ASSUME NEW k, Close(p, k) PROVE Goal
  BY <1>16, <1>b, CloseFacts
<1> QED BY <1>1, <1>2, <1>3, <1>4, <1>5, <1>6, <1>7, <1>8, <1>9, <1>10, <1>11, <1>12, <1>13, <1>14,
           <1>15, <1>16 DEF Move

\* Who publishes what.
StartsToClose(p) ==
    /\ chain'.by = p /\ chain'.tx = Closable(p).s.tx /\ Gone(p)'
    /\ ch[p].kind = "Signed" /\ Closable(p).s.st \in {"Established", "Settled", "RenewFinalized"}
    /\ revealed'[p] = revealed[p] /\ ch'[p].own = ch[p].own

LEMMA PublishMoves ==
  ASSUME Types, NEW p \in Party, Move(p)
  PROVE  \/ chain'.tx = chain.tx /\ chain'.by = chain.by
         \/ faults' # 0 \/ chain'.tx.kind = "close" \/ StartsToClose(p)
<1> DEFINE Quietly == chain'.tx = chain.tx /\ chain'.by = chain.by
<1>a. Quiet => Quietly
  BY DEF Quiet
<1>b. ASSUME NEW t, Publish(p, t) PROVE Quietly \/ (chain'.by = p /\ chain'.tx = t)
  BY <1>b DEF Publish, CanSpend, Spent, Types, TypeOK, Chain
<1>1. ASSUME NEW out, Idle(p, out) PROVE Quietly \/ faults' # 0
  BY <1>1, <1>a DEF Idle
<1>2. ASSUME NEW k, NEW out, Setup(p, k, out) \/ Open(p, k, out) \/ OfferClose(p, k, out) PROVE Quietly
  BY <1>2, <1>a DEF Setup, Open, OfferClose
<1>3. ASSUME NEW s, NEW out, Propose(p, s, out) \/ Accept(p, s, out) PROVE Quietly
  BY <1>3, <1>a DEF Propose, Accept
<1>4. ASSUME NEW m, NEW s, GetOffer(p, m, s) PROVE Quietly
  BY <1>4, <1>a DEF GetOffer
<1>5. ASSUME NEW out, Withdraw(p, out) PROVE Quietly
  BY <1>5, <1>a DEF Withdraw
<1>6. ASSUME NEW m, NEW s, NEW out, Confirm(p, m, s, out) PROVE Quietly
  BY <1>6, <1>a DEF Confirm
<1>7. ASSUME NEW m, NEW out, Settle(p, m, out) \/ Finalize(p, m, out) \/ Renew(p, m, out) PROVE Quietly
  BY <1>7, <1>a DEF Settle, Finalize, Renew
<1>8. ASSUME NEW m, Revoke(p, m) PROVE Quietly
  BY <1>8, <1>a DEF Revoke
<1>9. CASE ForceClose(p)
  <2>1. /\ Same(ch[p], ch'[p]) /\ ch[p].kind = "Signed" /\ ch'[p].s.st = "Closing"
        /\ Closable(p).s.st \in {"Established", "RenewFinalized"} /\ Publish(p, Closable(p).s.tx)
        /\ revealed'[p] = revealed[p]
    BY <1>9, ForceCloseFacts
  <2>2. Gone(p)'
    BY <2>1 DEF Gone, In, Same
  <2> QED BY <1>b, <2>1, <2>2 DEF StartsToClose, Same
<1>10. ASSUME NEW t, SeeBuffer(p, t) PROVE Quietly
  BY <1>10, <1>a DEF SeeBuffer
<1>11. ASSUME NEW k, Close(p, k) PROVE Quietly \/ chain'.tx.kind = "close" \/ StartsToClose(p)
  <2>1. /\ ch[p].kind = "Signed" /\ ch'[p].kind \in ClosedKinds /\ ch'[p].own = ch[p].own
        /\ revealed'[p] = revealed[p]
        /\ \/ Quiet \/ \E t : t.kind = "close" /\ Publish(p, t)
           \/ Closable(p).s.st = "Settled" /\ Publish(p, Closable(p).s.tx)
    BY <1>11, CloseFacts
  <2>2. Gone(p)'
    BY <2>1 DEF Gone
  <2>3. CASE \E t : t.kind = "close" /\ Publish(p, t)
    BY <1>b, <2>3
  <2>4. CASE Closable(p).s.st = "Settled" /\ Publish(p, Closable(p).s.tx)
    BY <1>b, <2>1, <2>2, <2>4 DEF StartsToClose
  <2> QED BY <1>a, <2>1, <2>3, <2>4
<1> QED BY <1>1, <1>2, <1>3, <1>4, <1>5, <1>6, <1>7, <1>8, <1>9, <1>10, <1>11 DEF Move

LEMMA PublisherDef ==
  PublisherInv <=>
    (chain.tx # NoTx /\ chain.tx.kind # "close" /\ faults = 0 =>
       /\ Gone(chain.by)
       /\ \A x \in revealed[chain.by] : x.sec = Point(chain.by, chain.tx) =>
             x.type = "SettleConfirm" /\ x.sec = ch[chain.by].own)
  BY DEF PublisherInv, NeverPublishRevoked

LEMMA PublisherKept ==
  ASSUME Types, MessageInv, NEW p \in Party, StateInv(p), SecretInv(p), PublisherInv, Move(p)
  PROVE  PublisherInv'
<1>a. \A q : (ch'[q].kind \in ClosedKinds \/ (ch'[q].kind = "Signed" /\ ch'[q].s.st = "Closing")
                \/ /\ ch'[q].kind = "Signed" /\ ch'[q].s.st = "CollaborativeCloseOffered"
                   /\ ch'[q].rb.st \in {"Closing", "CollaborativeCloseOffered"}) <=> Gone(q)'
  BY DEF Gone, In
<1>b. Gone(chain.by)' <=>
             \/ ch'[chain'.by].kind \in ClosedKinds
             \/ ch'[chain'.by].kind = "Signed" /\ ch'[chain'.by].s.st = "Closing"
             \/ /\ ch'[chain'.by].kind = "Signed" /\ ch'[chain'.by].s.st = "CollaborativeCloseOffered"
                /\ ch'[chain'.by].rb.st \in {"Closing", "CollaborativeCloseOffered"}
  BY DEF Gone, In
<1>1. SUFFICES ASSUME chain'.tx # NoTx, chain'.tx.kind # "close", faults' = 0
               PROVE  /\ Gone(chain.by)'
                      /\ \A x \in revealed'[chain'.by] : x.sec = Point(chain'.by, chain'.tx) =>
                             x.type = "SettleConfirm" /\ x.sec = ch'[chain'.by].own
  BY DEF PublisherInv, NeverPublishRevoked, Point
<1>2. CASE chain'.tx = chain.tx /\ chain'.by = chain.by
  <2>0. PICK q \in Party : q = chain.by
    BY DEF Types, TypeOK, Chain
  <2>1. /\ Gone(q)
        /\ \A x \in revealed[q] : x.sec = Point(q, chain.tx) => x.type = "SettleConfirm" /\ x.sec = ch[q].own
    BY <1>1, <1>2, <2>0, PublisherDef, MoveFaults
  <2>3. Gone(q)' /\ revealed'[q] = revealed[q] /\ ch'[q].own = ch[q].own
    <3>1. CASE q = p
      BY <2>1, <3>1, GoneMoves
    <3>2. CASE q # p
      <4>1. ASSUME NEW d, NEW out, NEW new, Turn(p, d, out, new) PROVE ch'[q] = ch[q] /\ revealed'[q] = revealed[q]
        BY <3>2, <4>1, TurnFacts
      <4>2. ch'[q] = ch[q] /\ revealed'[q] = revealed[q]
        BY <4>1 DEF Move, Idle, Setup, Open, Propose, GetOffer, Withdraw, Accept, Confirm, Settle, Finalize,
                    Renew, Revoke, OfferClose, ForceClose, SeeBuffer, Close
      <4>3. Gone(q)'
        BY <1>a, <2>1, <4>2 DEF Gone, In
      <4> QED BY <4>2, <4>3
    <3> QED BY <3>1, <3>2
  <2> QED BY <1>2, <2>0, <2>1, <2>3, <1>a, <1>b
<1>3. CASE StartsToClose(p)
  <2>1. \A x \in revealed[p] : x.sec = Point(p, Closable(p).s.tx) =>
            x.type = "SettleConfirm" /\ x.sec = ch[p].own
    BY <1>3, ClosableHidden DEF StartsToClose
  <2> QED BY <1>3, <1>a, <1>b, <2>1 DEF StartsToClose
<1> QED BY <1>1, <1>2, <1>3, PublishMoves

-----------------------------------------------------------------------------
(* Types.                                                                  *)

LEMMA StateTypes ==
  ASSUME NEW st \in SignedState
  PROVE  /\ \A t \in Tx \union {NoTx} : Bare(st, t) \in State
         /\ \A t \in Tx : \A b \in BOOLEAN : WithContract(st, t, b) \in State
         /\ \A t \in Tx : \A b \in BOOLEAN : Renewal(t, b) \in State
<1>1. \A t \in Tx \union {NoTx} : Bare(st, t) \in State
  BY DEF Bare, State
<1>2. \A t \in Tx : t.o \in Idx
  BY DEF Tx
<1>3. \A t \in Tx : \A b \in BOOLEAN : WithContract(st, t, b) \in State
  BY <1>2 DEF WithContract, State
<1>4. \A t \in Tx : \A b \in BOOLEAN : Renewal(t, b) = [st |-> "RenewOffered", tx |-> t, offer |-> b, con |-> TemporaryId]
  BY DEF Renewal, WithContract
<1>5. "RenewOffered" \in SignedState
  BY DEF SignedState, RenewStates
<1>6. \A t \in Tx : \A b \in BOOLEAN : Renewal(t, b) \in State
  BY <1>4, <1>5 DEF State
<1> QED BY <1>1, <1>3, <1>6

LEMMA ChannelTypes ==
  ASSUME NEW c \in Channel
  PROVE  /\ \A s \in State : Swap(c, s) \in Channel /\ [c EXCEPT !.s = s] \in Channel
         /\ RollBack(c) \in Channel
         /\ \A k \in ChannelKind : [c EXCEPT !.kind = k] \in Channel
         /\ c.s \in State /\ c.rb \in State /\ c.ver \in Idx /\ c.own \in Idx /\ c.ctr \in Idx
         /\ c.secrets \subseteq Idx
<1>1. NoState \in State
  BY DEF NoState, State, SignedState
<1> QED BY <1>1 DEF Channel, Swap, RollBack

LEMMA OutTypes ==
  ASSUME NEW p \in Party, NEW type \in MsgType, NEW t \in Tx \union {NoTx}, NEW k \in Idx
  PROVE  Out(type, p, t, k) \subseteq Msg
  BY Parties DEF Out, Msg

LEMMA UpsertTypes ==
  ASSUME Types, NEW p \in Party, NEW c \in Channel, NEW m \in Monitor, NEW l \in SUBSET Idx, Upsert(p, c, m, l)
  PROVE  ch' \in [Party -> Channel] /\ mon' \in [Party -> Monitor] /\ live' \in [Party -> SUBSET Idx]
  BY DEF Types, TypeOK, Upsert

LEMMA ReplyTypes ==
  ASSUME Types, NEW p \in Party, NEW in, NEW out \in SUBSET Msg, Reply(p, in, out)
  PROVE  msgs' \subseteq Msg /\ revealed' \in [Party -> SUBSET Msg] /\ dups' \in 0..scenario.duplicates
<1>1. PICK again \in BOOLEAN :
        /\ again => in # NoTx /\ dups < scenario.duplicates
        /\ dups' = IF again THEN dups + 1 ELSE dups
        /\ msgs' = (IF again THEN msgs ELSE msgs \ {in}) \union out
  BY DEF Reply
<1>2. msgs' \subseteq Msg
  BY <1>1 DEF Types, TypeOK
<1>3. dups' \in 0..scenario.duplicates
  <2>1. dups \in 0..scenario.duplicates
    BY DEF Types, TypeOK
  <2>2. CASE again
    BY <1>1, <2>1, <2>2, Bounded
  <2>3. CASE ~again
    BY <1>1, <2>1, <2>3
  <2> QED BY <2>2, <2>3
<1>4. revealed' \in [Party -> SUBSET Msg]
  <2> DEFINE new == {x \in out : x.type \in Reveals}
  <2>1. revealed' = [revealed EXCEPT ![p] = @ \union new] /\ new \subseteq Msg
    BY DEF Reply
  <2> HIDE DEF new
  <2> QED BY <2>1 DEF Types, TypeOK
<1> QED BY <1>2, <1>3, <1>4

LEMMA FaultTypes ==
  ASSUME Types, Fault
  PROVE  faults' \in 0..scenario.faults
<1>1. faults < scenario.faults /\ faults' = faults + 1
  BY DEF Fault
<1>2. faults \in Nat /\ scenario.faults \in Nat
  BY Bounded
<1> QED BY <1>1, <1>2

\* The rest of the variables.
Others == signed' \subseteq Party /\ chain' \in Chain /\ scenario' = scenario

LEMMA FinishTypes ==
  ASSUME Types, Others, NEW p \in Party, NEW c \in Channel, NEW m \in Monitor, NEW l \in SUBSET Idx, NEW in,
         NEW out \in SUBSET Msg, Finish(p, c, m, l, in, out)
  PROVE  TypeOK'
<1>1. /\ Upsert(p, c, m, l) /\ Reply(p, in, out)
      /\ disk' = disk /\ attested' = attested /\ panics' = panics /\ faults' = faults
  BY DEF Finish
<1>2. /\ ch' \in [Party -> Channel] /\ mon' \in [Party -> Monitor] /\ live' \in [Party -> SUBSET Idx]
      /\ msgs' \subseteq Msg /\ revealed' \in [Party -> SUBSET Msg] /\ dups' \in 0..scenario.duplicates
  BY <1>1, UpsertTypes, ReplyTypes
<1> QED BY <1>1, <1>2 DEF Types, TypeOK, Others

LEMMA FinishPersistTypes ==
  ASSUME Types, Others, NEW p \in Party, NEW c \in Channel, NEW m \in Monitor, NEW l \in SUBSET Idx,
         NEW lc \in SUBSET Idx, NEW in, NEW out \in SUBSET Msg, FinishPersist(p, c, m, l, lc, in, out)
  PROVE  TypeOK'
<1>0. disk[p] \in Monitor /\ disk \in [Party -> Monitor] /\ {} \in SUBSET Msg
  BY DEF Types, TypeOK
<1>1. attested' = attested /\ panics' = panics
  BY DEF FinishPersist
<1>2. CASE Upsert(p, c, m, l) /\ disk' = [disk EXCEPT ![p] = m] /\ Reply(p, in, out) /\ faults' = faults
  <2>1. /\ ch' \in [Party -> Channel] /\ mon' \in [Party -> Monitor] /\ live' \in [Party -> SUBSET Idx]
        /\ msgs' \subseteq Msg /\ revealed' \in [Party -> SUBSET Msg] /\ dups' \in 0..scenario.duplicates
        /\ disk' \in [Party -> Monitor]
    BY <1>0, <1>2, UpsertTypes, ReplyTypes
  <2> QED BY <1>1, <1>2, <2>1 DEF Types, TypeOK, Others
<1>3. CASE Fault /\ Upsert(p, c, disk[p], lc) /\ Reply(p, in, {}) /\ disk' = disk
  <2>1. /\ ch' \in [Party -> Channel] /\ mon' \in [Party -> Monitor] /\ live' \in [Party -> SUBSET Idx]
        /\ msgs' \subseteq Msg /\ revealed' \in [Party -> SUBSET Msg] /\ dups' \in 0..scenario.duplicates
        /\ disk' \in [Party -> Monitor] /\ faults' \in 0..scenario.faults
    BY <1>0, <1>3, UpsertTypes, ReplyTypes, FaultTypes
  <2> QED BY <1>1, <2>1 DEF Types, TypeOK, Others
<1> QED BY <1>2, <1>3 DEF FinishPersist

LEMMA SendThenCrashTypes ==
  ASSUME Types, Others, NEW p \in Party, NEW in, SendThenCrash(p, in)
  PROVE  TypeOK'
<1>0. disk[p] \in Monitor /\ ch[p] \in Channel /\ live[p] \in SUBSET Idx /\ {} \in SUBSET Msg
  BY DEF Types, TypeOK
<1>1. /\ Upsert(p, ch[p], disk[p], live[p]) /\ Reply(p, in, {}) /\ Fault
      /\ disk' = disk /\ attested' = attested /\ panics' = panics
  BY DEF SendThenCrash
<1>2. /\ ch' \in [Party -> Channel] /\ mon' \in [Party -> Monitor] /\ live' \in [Party -> SUBSET Idx]
      /\ msgs' \subseteq Msg /\ revealed' \in [Party -> SUBSET Msg] /\ dups' \in 0..scenario.duplicates
      /\ faults' \in 0..scenario.faults
  BY <1>0, <1>1, UpsertTypes, ReplyTypes, FaultTypes
<1> QED BY <1>1, <1>2 DEF Types, TypeOK, Others

LEMMA PanicTypes ==
  ASSUME Types, scenario' = scenario, NEW p \in Party,
         NEW what \in {"contract id", "rollback state", "per update secret"}, Panic(p, what)
  PROVE  TypeOK'
<1>0. disk[p] \in Monitor /\ ch[p] \in Channel /\ live[p] \in SUBSET Idx
  BY DEF Types, TypeOK
<1>1. /\ Upsert(p, ch[p], disk[p], live[p]) /\ panics' = panics \union {what}
      /\ UNCHANGED <<disk, signed, msgs, revealed, chain, attested, dups, faults>>
  BY DEF Panic
<1>2. ch' \in [Party -> Channel] /\ mon' \in [Party -> Monitor] /\ live' \in [Party -> SUBSET Idx]
  BY <1>0, <1>1, UpsertTypes
<1> QED BY <1>1, <1>2 DEF Types, TypeOK

LEMMA CrashTypes ==
  ASSUME Types, scenario' = scenario, NEW p \in Party, NEW l \in SUBSET Idx, Fault,
         Upsert(p, ch[p], disk[p], l),
         UNCHANGED <<disk, signed, msgs, revealed, chain, attested, panics, dups>>
  PROVE  TypeOK'
<1>0. disk[p] \in Monitor /\ ch[p] \in Channel
  BY DEF Types, TypeOK
<1>1. /\ ch' \in [Party -> Channel] /\ mon' \in [Party -> Monitor] /\ live' \in [Party -> SUBSET Idx]
      /\ faults' \in 0..scenario.faults
  BY <1>0, UpsertTypes, FaultTypes
<1> QED BY <1>1 DEF Types, TypeOK

\* What a handler has at hand.
LEMMA Typed ==
  ASSUME Types, NEW p \in Party
  PROVE  /\ ch[p] \in Channel /\ mon[p] \in Monitor /\ disk[p] \in Monitor /\ live[p] \in SUBSET Idx
         /\ ch[p].s \in State /\ ch[p].rb \in State /\ ch[p].ver \in Idx /\ ch[p].ver \in Nat
         /\ signed \subseteq Party /\ chain \in Chain /\ {} \in SUBSET Msg /\ 0 \in Idx
         /\ NoTx \in Tx \union {NoTx}
<1>1. ch[p] \in Channel /\ mon[p] \in Monitor /\ disk[p] \in Monitor
  BY Stored
<1>2. live[p] \in SUBSET Idx /\ signed \subseteq Party /\ chain \in Chain
  BY DEF Types, TypeOK
<1>3. 0 \in Idx
  BY ChannelAssumption DEF Idx
<1> QED BY <1>1, <1>2, <1>3, ChannelTypes, Indices

LEMMA SetupTypes ==
  ASSUME Types, OpeningInv, scenario' = scenario, NEW p \in Party
  PROVE  /\ offer_channel => TypeOK'
         /\ accept_channel(p) \/ reject_channel(p) => TypeOK'
         /\ \A m \in msgs : m.to = p => (
              on_offer_channel(p, m) \/ on_accept_channel(p, m) \/ on_sign_channel(p, m) => TypeOK')
<1>a. \A q \in Party : \A k \in ChannelKind : OfKind(q, k) \in Channel
  BY Typed, ChannelTypes DEF OfKind
<1>b. /\ "Offered" \in ChannelKind /\ "Accepted" \in ChannelKind /\ "Cancelled" \in ChannelKind
      /\ "FailedAccept" \in ChannelKind /\ "FailedSign" \in ChannelKind /\ "Signed" \in ChannelKind
  BY DEF ChannelKind
<1>c. \A q \in Party : /\ Out("OfferChannel", q, NoTx, 0) \in SUBSET Msg
                       /\ Out("AcceptChannel", q, FirstBuffer, 0) \in SUBSET Msg
                       /\ Out("SignChannel", q, FirstBuffer, 0) \in SUBSET Msg
                       /\ Out("Reject", q, NoTx, 0) \in SUBSET Msg
  <2>1. "OfferChannel" \in MsgType /\ "AcceptChannel" \in MsgType /\ "SignChannel" \in MsgType /\ "Reject" \in MsgType
    BY DEF MsgType
  <2>2. FirstBuffer \in Tx \union {NoTx} /\ 0 \in Idx /\ NoTx \in Tx \union {NoTx}
    BY FirstBufferTx, ChannelAssumption DEF Idx
  <2> QED BY <2>1, <2>2, OutTypes
<1>d. Others <=> signed' \subseteq Party /\ chain' \in Chain
  BY DEF Others
<1>e. \A b \in BOOLEAN : Signs(b) \in Channel
  <2>1. NoState \in State /\ 0 \in Idx
    BY ChannelAssumption DEF NoState, State, SignedState, Idx
  <2>2. NoChannel \in Channel
    BY <2>1 DEF NoChannel, Channel, ChannelKind
  <2>3. \A b \in BOOLEAN : WithContract("Established", FirstBuffer, b) \in State
    BY StateTypes, FirstBufferTx DEF SignedState
  <2>4. ASSUME NEW t \in State PROVE [NoChannel EXCEPT !.kind = "Signed", !.s = t] \in Channel
    BY <1>b, <2>2, <2>4 DEF Channel
  <2> QED BY <2>3, <2>4 DEF Signs
<1>1. offer_channel => TypeOK'
  <2> SUFFICES ASSUME offer_channel PROVE TypeOK'
    OBVIOUS
  <2>1. Finish("alice", OfKind("alice", "Offered"), mon["alice"], live["alice"], NoTx,
               Out("OfferChannel", "alice", NoTx, 0))
    BY DEF offer_channel, channel_offered
  <2>2. Others
    BY <1>d, Typed DEF offer_channel
  <2> QED BY <1>a, <1>b, <1>c, <2>1, <2>2, Typed, FinishTypes, Parties
<1>2. accept_channel(p) => TypeOK'
  <2> SUFFICES ASSUME accept_channel(p) PROVE TypeOK'
    OBVIOUS
  <2>1. Others
    BY <1>d, Typed DEF accept_channel
  <2> QED BY <1>a, <1>b, <1>c, <2>1, Typed, FinishTypes DEF accept_channel, accept_channel_offer
<1>3. reject_channel(p) => TypeOK'
  <2> SUFFICES ASSUME reject_channel(p) PROVE TypeOK'
    OBVIOUS
  <2>1. Others
    BY <1>d, Typed DEF reject_channel
  <2> QED BY <1>a, <1>b, <1>c, <2>1, Typed, FinishTypes DEF reject_channel
<1> SUFFICES ASSUME NEW m \in msgs, m.to = p
             PROVE  on_offer_channel(p, m) \/ on_accept_channel(p, m) \/ on_sign_channel(p, m) => TypeOK'
  BY <1>1, <1>2, <1>3
<1>4. on_offer_channel(p, m) => TypeOK'
  <2> SUFFICES ASSUME on_offer_channel(p, m) PROVE TypeOK'
    OBVIOUS
  <2>1. Others
    BY <1>d, Typed DEF on_offer_channel
  <2> QED BY <1>a, <1>b, <2>1, Typed, FinishTypes DEF on_offer_channel, channel_offered
<1>5. ASSUME NEW k \in ChannelKind, Refuse(p, m, k) PROVE TypeOK'
  <2>1. /\ Upsert(p, OfKind(p, k), mon[p], live[p]) /\ Reply(p, m, {}) /\ Fault
        /\ UNCHANGED <<disk, signed, chain, attested, panics>>
    BY <1>5 DEF Refuse
  <2>2. /\ ch' \in [Party -> Channel] /\ mon' \in [Party -> Monitor] /\ live' \in [Party -> SUBSET Idx]
        /\ msgs' \subseteq Msg /\ revealed' \in [Party -> SUBSET Msg] /\ dups' \in 0..scenario.duplicates
        /\ faults' \in 0..scenario.faults
    BY <1>a, <2>1, Typed, UpsertTypes, ReplyTypes, FaultTypes
  <2> QED BY <2>1, <2>2 DEF Types, TypeOK
<1>6. add_tx(mon[p], FirstBuffer, "BufferTx") \in Monitor
  <2>1. "BufferTx" \in TxType /\ 0 \in Idx /\ FALSE \in BOOLEAN
    BY Typed DEF TxType
  <2> QED BY <2>1, MonitorTypes, Typed, FirstBufferTx
<1>7. on_accept_channel(p, m) => TypeOK'
  <2> SUFFICES ASSUME on_accept_channel(p, m) PROVE TypeOK'
    OBVIOUS
  <2>1. CASE Refuse(p, m, "FailedAccept")
    BY <1>5, <1>b, <2>1
  <2>2. CASE /\ FinishPersist(p, verify_and_sign_accepted_channel,
                              add_tx(mon[p], FirstBuffer, "BufferTx"), live[p], live[p], m,
                              Out("SignChannel", p, FirstBuffer, 0))
             /\ signed' = signed \union {p} /\ UNCHANGED chain
    <3>1. Others
      BY <1>d, <2>2, Typed
    <3>2. verify_and_sign_accepted_channel \in Channel
      BY <1>e DEF verify_and_sign_accepted_channel, Signs
    <3> QED BY <1>6, <1>c, <2>2, <3>1, <3>2, Typed, FinishPersistTypes
  <2> QED BY <2>1, <2>2 DEF on_accept_channel
<1>8. on_sign_channel(p, m) => TypeOK'
  <2> SUFFICES ASSUME on_sign_channel(p, m) PROVE TypeOK'
    OBVIOUS
  <2>1. CASE Refuse(p, m, "FailedSign")
    BY <1>5, <1>b, <2>1
  <2>2. CASE chain' = [chain EXCEPT !.fund = IF @ = "none" THEN "mempool" ELSE @]
    <3>1. chain' \in Chain
      BY <2>2, Typed DEF Chain
    <3>2. CASE SendThenCrash(p, m) /\ UNCHANGED signed
      <4>1. Others
        BY <1>d, <3>1, <3>2, Typed
      <4> QED BY <3>2, <4>1, SendThenCrashTypes
    <3>3. CASE /\ FinishPersist(p, verify_signed_channel,
                                add_tx(mon[p], FirstBuffer, "BufferTx"), live[p], live[p], m, {})
               /\ signed' = signed \union {p}
      <4>1. Others
        BY <1>d, <3>1, <3>3, Typed
      <4>2. verify_signed_channel \in Channel
        BY <1>e DEF verify_signed_channel, Signs
      <4> QED BY <1>6, <3>3, <4>1, <4>2, Typed, FinishPersistTypes
    <3> QED BY <2>1, <2>2, <3>2, <3>3 DEF on_sign_channel
  <2> QED BY <2>1, <2>2 DEF on_sign_channel
<1> QED BY <1>4, <1>7, <1>8

\* The transactions of an update, and that it leads to a version.
LEMMA UpdateTypes ==
  ASSUME Types, NEW p \in Party, StateInv(p), NEW st \in Updating \union {"RenewFinalized"}, In(p, st)
  PROVE  /\ ch[p].s.tx \in Tx /\ ch[p].rb.tx \in Tx /\ ch[p].rb.offer \in BOOLEAN
         /\ st \in {"SettledAccepted", "SettledConfirmed", "RenewAccepted", "RenewConfirmed", "RenewFinalized"} =>
                ch[p].ver + 1 \in Idx
<1> DEFINE c == ch[p]
<1>1. c.kind = "Signed" /\ c.s.st = st /\ Fits(p, c, c.s) /\ Replaces(p, c)
  BY DEF In, StateInv
<1>2. c.s.tx \in Tx /\ c.rb.tx \in Tx
  BY <1>1 DEF Fits, Replaces
<1>3. c.rb.offer \in BOOLEAN
  BY Typed DEF State
<1>4. st \in {"SettledConfirmed", "RenewConfirmed"} => c.s.tx.o = c.ver + 1
  BY <1>1 DEF Fits, Offers
<1>5. st \in {"SettledAccepted", "RenewAccepted", "RenewFinalized"} => c.s.tx.a = c.ver + 1
  BY <1>1 DEF Fits, Accepts
<1>6. c.s.tx.o \in Idx /\ c.s.tx.a \in Idx
  BY <1>2 DEF Tx
<1> QED BY <1>2, <1>3, <1>4, <1>5, <1>6

LEMMA UpdatedTypes ==
  ASSUME Types, NEW p \in Party, NEW s \in State, s.tx \in Tx, ch[p].ver + 1 \in Idx
  PROVE  Updated(p, s) \in Channel /\ [Updated(p, s) EXCEPT !.rb = NoState] \in Channel
<1> DEFINE c == ch[p]
           i == Point(p, s.tx)
           j == Point(Other(p), s.tx)
           x == c.secrets \union {c.ver}
           v == c.ver + 1
<1>1. i \in Idx /\ j \in Idx /\ v \in Idx
  BY PointType, Parties
<1>2. c \in Channel /\ x \subseteq Idx
  BY Typed, ChannelTypes
<1>3. Updated(p, s) = [c EXCEPT !.s = s, !.ver = v, !.secrets = x, !.own = i, !.ctr = j]
  BY DEF Updated
<1> HIDE DEF c, i, j, x, v
<1>4. Updated(p, s) \in Channel
  BY <1>1, <1>2, <1>3 DEF Channel
<1>5. NoState \in State
  BY DEF NoState, State, SignedState
<1>6. \A u \in Channel : [u EXCEPT !.rb = NoState] \in Channel
  BY <1>5 DEF Channel
<1> QED BY <1>4, <1>6

LEMMA SettleTypes ==
  ASSUME Types, MessageInv, scenario' = scenario, NEW p \in Party, StateInv(p)
  PROVE  /\ settle_offer(p) \/ accept_settle_offer(p) \/ reject_settle_offer(p) => TypeOK'
         /\ \A m \in msgs : m.to = p => (
              (on_settle_offer(p, m) \/ on_settle_accept(p, m)
                  \/ on_settle_confirm(p, m) \/ on_settle_finalize(p, m)) => TypeOK')
<1>a. scenario.updates <= MaxUpdates /\ scenario.updates \in Nat /\ MaxUpdates \in Nat
  BY Bounded, ChannelAssumption
<1>b. Others <=> signed' \subseteq Party /\ chain' \in Chain
  BY DEF Others
<1>c. /\ "SettleOffer" \in MsgType /\ "SettleAccept" \in MsgType /\ "SettleConfirm" \in MsgType
      /\ "SettleFinalize" \in MsgType /\ "Reject" \in MsgType
  BY DEF MsgType
<1>d. \A st \in {"SettledOffered", "SettledReceived", "SettledAccepted", "SettledConfirmed", "Settled"} :
         st \in SignedState
  BY DEF SignedState, SettleStates
<1>e. \A st \in {"SettledOffered", "SettledReceived", "SettledAccepted", "SettledConfirmed"} : st \in Updating
  BY DEF Updating, SettleStates, RenewStates
<1>f. "SettleTx" \in TxType /\ FALSE \in BOOLEAN /\ "settle" \in Kind
  BY DEF TxType, Kind
<1>1. settle_offer(p) => TypeOK'
  <2> SUFFICES ASSUME settle_offer(p) PROVE TypeOK'
    OBVIOUS
  <2>1. Proposal(p, "settle") \in Tx /\ Others
    BY <1>a, <1>b, <1>f, NewTxs, Typed DEF settle_offer
  <2>2. settle_channel_offer(p) \in Channel
    BY <1>d, <2>1, StateTypes, ChannelTypes, Typed DEF settle_channel_offer
  <2>3. Out("SettleOffer", p, Proposal(p, "settle"), 0) \in SUBSET Msg
    BY <1>c, <2>1, Typed, OutTypes
  <2> QED BY <2>1, <2>2, <2>3, Typed, FinishTypes DEF settle_offer
<1>2. accept_settle_offer(p) => TypeOK'
  <2> SUFFICES ASSUME accept_settle_offer(p) PROVE TypeOK'
    OBVIOUS
  <2>0. ch[p].s.tx \in Tx
    BY <1>e, UpdateTypes DEF accept_settle_offer
  <2>1. Completed(p) \in Tx /\ Others
    BY <1>a, <1>b, <2>0, NewTxs, Typed DEF accept_settle_offer
  <2>2. settle_channel_accept(p) \in Channel
    BY <1>d, <2>1, StateTypes, ChannelTypes, Typed DEF settle_channel_accept
  <2>3. Out("SettleAccept", p, Completed(p), 0) \in SUBSET Msg
    BY <1>c, <2>1, Typed, OutTypes
  <2>4. add_tx(mon[p], Completed(p), "SettleTx") \in Monitor
    BY <1>f, <2>1, Typed, MonitorTypes
  <2> QED BY <2>1, <2>2, <2>3, <2>4, Typed, FinishTypes DEF accept_settle_offer
<1>g. Out("Reject", p, NoTx, 0) \in SUBSET Msg /\ RollBack(ch[p]) \in Channel
  BY <1>c, Typed, OutTypes, ChannelTypes
<1>3. reject_settle_offer(p) => TypeOK'
  <2> SUFFICES ASSUME reject_settle_offer(p) PROVE TypeOK'
    OBVIOUS
  <2>1. Others
    BY <1>b, Typed DEF reject_settle_offer
  <2> QED BY <1>g, <2>1, Typed, FinishTypes DEF reject_settle_offer
<1> SUFFICES ASSUME NEW m \in msgs, m.to = p
             PROVE  (on_settle_offer(p, m) \/ on_settle_accept(p, m)
                        \/ on_settle_confirm(p, m) \/ on_settle_finalize(p, m)) => TypeOK'
  BY <1>1, <1>2, <1>3
<1>4. on_settle_offer(p, m) => TypeOK'
  <2> SUFFICES ASSUME on_settle_offer(p, m) PROVE TypeOK'
    OBVIOUS
  <2>1. m.tx \in Tx /\ Others
    BY <1>b, Typed DEF on_settle_offer, MessageInv
  <2>2. settle_channel_received(p, m.tx) \in Channel
    BY <1>d, <2>1, StateTypes, ChannelTypes, Typed DEF settle_channel_received
  <2>3. CASE Finish(p, ch[p], mon[p], live[p], m, Out("Reject", p, NoTx, 0))
    BY <1>g, <2>1, <2>3, Typed, FinishTypes
  <2>4. CASE Finish(p, settle_channel_received(p, m.tx), mon[p], live[p], m, {})
    BY <2>1, <2>2, <2>4, Typed, FinishTypes
  <2> QED BY <2>3, <2>4 DEF on_settle_offer
<1>5. on_settle_accept(p, m) => TypeOK'
  <2> SUFFICES ASSUME on_settle_accept(p, m) PROVE TypeOK'
    OBVIOUS
  <2>1. m.tx \in Tx /\ Others
    BY <1>b, Typed DEF on_settle_accept, MessageInv
  <2>2. settle_channel_confirm(p, m.tx) \in Channel
    BY <1>d, <2>1, StateTypes, ChannelTypes, Typed DEF settle_channel_confirm
  <2>3. Out("SettleConfirm", p, m.tx, ch[p].ver) \in SUBSET Msg
    BY <1>c, <2>1, Typed, OutTypes
  <2>4. add_tx(mon[p], m.tx, "SettleTx") \in Monitor
    BY <1>f, <2>1, Typed, MonitorTypes
  <2> QED BY <2>1, <2>2, <2>3, <2>4, Typed, FinishTypes DEF on_settle_accept
<1>6. ASSUME NEW st \in {"SettledAccepted", "SettledConfirmed"}, In(p, st), NEW out \in SUBSET Msg, NEW c,
             FinishSettle(p, c, m, out), c = settle_channel_finalize(p)
      PROVE  TypeOK'
  <2>1. ch[p].s.tx \in Tx /\ ch[p].rb.tx \in Tx /\ ch[p].rb.offer \in BOOLEAN /\ ch[p].ver + 1 \in Idx
    BY <1>e, <1>6, UpdateTypes
  <2>2. c \in Channel
    <3>1. Bare("Settled", ch[p].s.tx) \in State /\ Bare("Settled", ch[p].s.tx).tx = ch[p].s.tx
      BY <1>d, <2>1, StateTypes DEF Bare
    <3> QED BY <1>6, <2>1, <3>1, UpdatedTypes DEF settle_channel_finalize
  <2>3. add_revoked(mon[p], ch[p].rb.tx, ch[p].ver, ch[p].rb.offer) \in Monitor
    BY <1>f, <2>1, Typed, MonitorTypes
  <2>4. live[p] \ {ch[p].rb.con} \in SUBSET Idx
    BY Typed
  <2> DEFINE w == add_revoked(mon[p], ch[p].rb.tx, ch[p].ver, ch[p].rb.offer)
             l == live[p] \ {ch[p].rb.con}
  <2>5. Others /\ (FinishPersist(p, c, w, l, l, m, out) \/ Finish(p, ch[p], w, live[p], m, {}))
    BY <1>6, <1>b, Typed DEF FinishSettle
  <2> HIDE DEF w, l
  <2>6. w \in Monitor /\ l \in SUBSET Idx
    BY <2>3, <2>4 DEF w, l
  <2> QED BY <1>6, <2>2, <2>5, <2>6, Typed, FinishTypes, FinishPersistTypes
<1>7. on_settle_confirm(p, m) => TypeOK'
  <2> SUFFICES ASSUME on_settle_confirm(p, m) PROVE TypeOK'
    OBVIOUS
  <2>1. Out("SettleFinalize", p, NoTx, ch[p].ver) \in SUBSET Msg
    BY <1>c, Typed, OutTypes
  <2> QED BY <1>6, <2>1 DEF on_settle_confirm
<1>8. on_settle_finalize(p, m) => TypeOK'
  <2> SUFFICES ASSUME on_settle_finalize(p, m) PROVE TypeOK'
    OBVIOUS
  <2>1. settle_channel_on_finalize(p) = settle_channel_finalize(p)
    BY DEF settle_channel_on_finalize, settle_channel_finalize
  <2> QED BY <1>6, <2>1, Typed DEF on_settle_finalize
<1> QED BY <1>4, <1>5, <1>7, <1>8

LEMMA FinalizedTypes ==
  ASSUME Types, NEW p \in Party, NEW t \in Tx
  PROVE  verify_renew_confirm_and_finalize(p, t) \in Channel
<1> DEFINE c == ch[p]
           s == WithContract("RenewFinalized", t, FALSE)
           i == Point(p, t)
           j == Point(Other(p), t)
<1>1. i \in Idx /\ j \in Idx /\ c.ctr \in Idx /\ c \in Channel
  BY PointType, Parties, Typed, ChannelTypes
<1>2. s \in State
  BY StateTypes DEF SignedState, RenewStates
<1>3. verify_renew_confirm_and_finalize(p, t) = [c EXCEPT !.s = s, !.prev = c.ctr, !.own = i, !.ctr = j]
  BY DEF verify_renew_confirm_and_finalize
<1> HIDE DEF c, s, i, j
<1> QED BY <1>1, <1>2, <1>3 DEF Channel

LEMMA RenewTypes ==
  ASSUME Types, MessageInv, scenario' = scenario, NEW p \in Party, StateInv(p)
  PROVE  /\ renew_offer(p) \/ accept_renew_offer(p) \/ reject_renew_offer(p) => TypeOK'
         /\ \A m \in msgs : m.to = p => (
              (on_renew_offer(p, m) \/ on_renew_accept(p, m) \/ on_renew_confirm(p, m)
                  \/ on_renew_finalize(p, m) \/ on_renew_revoke(p, m) \/ on_reject(p, m)) => TypeOK')
<1>a. scenario.updates <= MaxUpdates /\ scenario.updates \in Nat /\ MaxUpdates \in Nat
  BY Bounded, ChannelAssumption
<1>b. Others <=> signed' \subseteq Party /\ chain' \in Chain
  BY DEF Others
<1>c. /\ "RenewOffer" \in MsgType /\ "RenewAccept" \in MsgType /\ "RenewConfirm" \in MsgType
      /\ "RenewFinalize" \in MsgType /\ "RenewRevoke" \in MsgType /\ "Reject" \in MsgType
  BY DEF MsgType
<1>d. \A st \in {"RenewOffered", "RenewAccepted", "RenewConfirmed", "RenewFinalized", "Established"} :
         st \in SignedState
  BY DEF SignedState, RenewStates
<1>e. \A st \in {"RenewOffered", "RenewAccepted", "RenewConfirmed"} : st \in Updating
  BY DEF Updating, SettleStates, RenewStates
<1>f. "BufferTx" \in TxType /\ FALSE \in BOOLEAN /\ TRUE \in BOOLEAN /\ "buffer" \in Kind
  BY DEF TxType, Kind
<1>g. Out("Reject", p, NoTx, 0) \in SUBSET Msg /\ RollBack(ch[p]) \in Channel
  BY <1>c, Typed, OutTypes, ChannelTypes
<1>h. \A t \in Tx : t.o \in Idx
  BY DEF Tx
<1>1. renew_offer(p) => TypeOK'
  <2> SUFFICES ASSUME renew_offer(p) PROVE TypeOK'
    OBVIOUS
  <2>1. Proposal(p, "buffer") \in Tx /\ Others
    BY <1>a, <1>b, <1>f, NewTxs, Typed DEF renew_offer
  <2>2. renew_channel_offer(p) \in Channel
    BY <1>d, <1>f, <2>1, StateTypes, ChannelTypes, Typed DEF renew_channel_offer
  <2>3. Out("RenewOffer", p, Proposal(p, "buffer"), 0) \in SUBSET Msg
    BY <1>c, <2>1, Typed, OutTypes
  <2> QED BY <2>1, <2>2, <2>3, Typed, FinishTypes DEF renew_offer
<1>2. accept_renew_offer(p) => TypeOK'
  <2> SUFFICES ASSUME accept_renew_offer(p) PROVE TypeOK'
    OBVIOUS
  <2>0. ch[p].s.tx \in Tx
    BY <1>e, UpdateTypes DEF accept_renew_offer
  <2>1. Completed(p) \in Tx /\ Others
    BY <1>a, <1>b, <2>0, NewTxs, Typed DEF accept_renew_offer
  <2>2. accept_channel_renewal(p) \in Channel
    BY <1>d, <1>f, <2>1, StateTypes, ChannelTypes, Typed DEF accept_channel_renewal
  <2>3. Out("RenewAccept", p, Completed(p), 0) \in SUBSET Msg
    BY <1>c, <2>1, Typed, OutTypes
  <2>4. live[p] \ {Completed(p).o} \in SUBSET Idx
    BY Typed
  <2> QED BY <2>1, <2>2, <2>3, <2>4, Typed, FinishTypes DEF accept_renew_offer
<1>3. reject_renew_offer(p) => TypeOK'
  <2> SUFFICES ASSUME reject_renew_offer(p) PROVE TypeOK'
    OBVIOUS
  <2>1. Others
    BY <1>b, Typed DEF reject_renew_offer
  <2> QED BY <1>g, <2>1, Typed, FinishTypes DEF reject_renew_offer
<1> SUFFICES ASSUME NEW m \in msgs, m.to = p
             PROVE  (on_renew_offer(p, m) \/ on_renew_accept(p, m) \/ on_renew_confirm(p, m)
                        \/ on_renew_finalize(p, m) \/ on_renew_revoke(p, m) \/ on_reject(p, m)) => TypeOK'
  BY <1>1, <1>2, <1>3
<1>4. on_renew_offer(p, m) => TypeOK'
  <2> SUFFICES ASSUME on_renew_offer(p, m) PROVE TypeOK'
    OBVIOUS
  <2>1. m.tx \in Tx /\ Others
    BY <1>b, Typed DEF on_renew_offer, MessageInv
  <2>2. renew_channel_received(p, m.tx) \in Channel
    BY <1>d, <1>f, <2>1, StateTypes, ChannelTypes, Typed DEF renew_channel_received
  <2>3. CASE Finish(p, ch[p], mon[p], live[p], m, Out("Reject", p, NoTx, 0))
    BY <1>g, <2>1, <2>3, Typed, FinishTypes
  <2>4. CASE Finish(p, renew_channel_received(p, m.tx), mon[p], live[p], m, {})
    BY <2>1, <2>2, <2>4, Typed, FinishTypes
  <2> QED BY <2>3, <2>4 DEF on_renew_offer
<1>5. on_renew_accept(p, m) => TypeOK'
  <2> SUFFICES ASSUME on_renew_accept(p, m) PROVE TypeOK'
    OBVIOUS
  <2>1. m.tx \in Tx /\ Others
    BY <1>b, Typed DEF on_renew_accept, MessageInv
  <2>2. verify_renew_accept_and_confirm(p, m.tx) \in Channel
    BY <1>d, <1>f, <2>1, StateTypes, ChannelTypes, Typed DEF verify_renew_accept_and_confirm
  <2>3. Out("RenewConfirm", p, m.tx, 0) \in SUBSET Msg
    BY <1>c, <2>1, Typed, OutTypes
  <2>4. live[p] \union {m.tx.o} \in SUBSET Idx
    BY <1>h, <2>1, Typed
  <2> QED BY <2>1, <2>2, <2>3, <2>4, Typed, FinishTypes DEF on_renew_accept
<1>6. on_renew_confirm(p, m) => TypeOK'
  <2> SUFFICES ASSUME on_renew_confirm(p, m) PROVE TypeOK'
    OBVIOUS
  <2>1. m.tx = ch[p].s.tx /\ m.tx \in Tx /\ ch[p].rb.tx \in Tx /\ Others
    BY <1>b, <1>e, Typed, UpdateTypes DEF on_renew_confirm
  <2> DEFINE w == add_tx(mon[p], m.tx, "BufferTx")
             lc == live[p] \union {m.tx.o}
             out == Out("RenewFinalize", p, m.tx, ch[p].ver)
  <2>2. verify_renew_confirm_and_finalize(p, m.tx) \in Channel
    BY <2>1, FinalizedTypes
  <2>3. out \in SUBSET Msg
    BY <1>c, <2>1, Typed, OutTypes
  <2>4. w \in Monitor
    BY <1>f, <2>1, Typed, MonitorTypes
  <2>5. lc \in SUBSET Idx /\ lc \ {ch[p].rb.con} \in SUBSET Idx
    BY <1>h, <2>1, Typed
  <2>6. FinishPersist(p, verify_renew_confirm_and_finalize(p, m.tx), Replaced(p, w), lc \ {ch[p].rb.con}, lc, m, out)
    BY DEF on_renew_confirm
  <2> HIDE DEF w, lc, out
  <2>7. Replaced(p, w) \in Monitor
    BY <2>1, <2>4, ReplacedWatch, Typed
  <2> QED BY <2>1, <2>2, <2>3, <2>5, <2>6, <2>7, FinishPersistTypes
<1>i. ASSUME NEW st \in {"RenewConfirmed", "RenewFinalized"}, In(p, st)
      PROVE  /\ renew_channel_on_finalize(p) \in Channel /\ renew_channel_on_revoke(p) \in Channel
             /\ ch[p].s.tx \in Tx /\ ch[p].rb.tx \in Tx
  <2>1. ch[p].s.tx \in Tx /\ ch[p].rb.tx \in Tx /\ ch[p].ver + 1 \in Idx
    BY <1>e, <1>i, UpdateTypes
  <2> DEFINE s == WithContract("Established", ch[p].s.tx, TRUE)
  <2>2. s \in State /\ s.tx = ch[p].s.tx
    BY <1>d, <1>f, <2>1, StateTypes DEF WithContract
  <2>3. Updated(p, s) \in Channel /\ [Updated(p, s) EXCEPT !.rb = NoState] \in Channel
    <3> HIDE DEF s
    <3> QED BY <2>1, <2>2, UpdatedTypes
  <2> QED BY <2>1, <2>3 DEF renew_channel_on_finalize, renew_channel_on_revoke
<1>7. on_renew_finalize(p, m) => TypeOK'
  <2> SUFFICES ASSUME on_renew_finalize(p, m) PROVE TypeOK'
    OBVIOUS
  <2>1. /\ m.tx = ch[p].s.tx /\ m.tx \in Tx /\ ch[p].rb.tx \in Tx /\ Others
        /\ renew_channel_on_finalize(p) \in Channel
    BY <1>b, <1>i, Typed DEF on_renew_finalize
  <2> DEFINE w == Replaced(p, mon[p])
             out == Out("RenewRevoke", p, NoTx, ch[p].ver)
  <2>3. out \in SUBSET Msg
    BY <1>c, Typed, OutTypes
  <2>4. w \in Monitor
    BY <2>1, Typed, ReplacedWatch
  <2>5. live[p] \ {ch[p].rb.con} \in SUBSET Idx
    BY Typed
  <2>6. FinishPersist(p, renew_channel_on_finalize(p), add_tx(w, m.tx, "BufferTx"), live[p] \ {ch[p].rb.con},
                      live[p], m, out)
    BY DEF on_renew_finalize
  <2> HIDE DEF w, out
  <2>7. add_tx(w, m.tx, "BufferTx") \in Monitor
    BY <1>f, <2>1, <2>4, Typed, MonitorTypes
  <2> QED BY <2>1, <2>3, <2>5, <2>6, <2>7, Typed, FinishPersistTypes
<1>8. on_renew_revoke(p, m) => TypeOK'
  <2> SUFFICES ASSUME on_renew_revoke(p, m) PROVE TypeOK'
    OBVIOUS
  <2>1. Others /\ renew_channel_on_revoke(p) \in Channel
    BY <1>b, <1>i, Typed DEF on_renew_revoke
  <2> QED BY <2>1, Typed, FinishTypes DEF on_renew_revoke
<1>9. on_reject(p, m) => TypeOK'
  <2> SUFFICES ASSUME on_reject(p, m) PROVE TypeOK'
    OBVIOUS
  <2>1. Others
    BY <1>b, Typed DEF on_reject
  <2>2. OfKind(p, "Cancelled") \in Channel
    BY Typed, ChannelTypes DEF OfKind, ChannelKind
  <2> QED BY <1>g, <2>1, <2>2, Typed, FinishTypes DEF on_reject
<1> QED BY <1>4, <1>5, <1>6, <1>7, <1>8, <1>9

LEMMA SpentTypes ==
  ASSUME Types, NEW p \in Party, NEW t \in Tx
  PROVE  Spent(p, t) \in Chain
  BY DEF Types, TypeOK, Chain, Spent

LEMMA CloseTxType ==
  ASSUME NEW p \in Party
  PROVE  CloseTx(p) \in Tx /\ CloseTx(p).kind = "close"
  BY ChannelAssumption DEF CloseTx, Tx, Kind, Idx

LEMMA ForceCloseTypes ==
  ASSUME NEW c \in Channel
  PROVE  initiate_unilateral_close(c) \in Channel
  BY DEF initiate_unilateral_close, Channel, State, SignedState

LEMMA CloseTypes ==
  ASSUME Types, MessageInv, scenario' = scenario, NEW p \in Party, StateInv(p)
  PROVE  /\ offer_collaborative_close(p) \/ accept_collaborative_close(p) => TypeOK'
         /\ force_close_channel_internal(p) /\ ch[p].kind = "Signed" => TypeOK'
         /\ \A m \in msgs : on_collaborative_close_offer(p, m) => TypeOK'
<1>b. Others <=> signed' \subseteq Party /\ chain' \in Chain
  BY DEF Others
<1>c. "CollaborativeCloseOffered" \in SignedState /\ "CollaborativeClose" \in TxType /\ FALSE \in BOOLEAN
  BY DEF SignedState, TxType
<1>d. \A k \in ChannelKind : OfKind(p, k) \in Channel
  BY Typed, ChannelTypes DEF OfKind
<1>e. "CollaborativelyClosed" \in ChannelKind /\ "Closed" \in ChannelKind
  BY DEF ChannelKind, ClosedKinds
<1>f. \A t \in Tx : close_offered(p, t) \in Channel
  BY <1>c, StateTypes, ChannelTypes, Typed DEF close_offered
<1>g. cleanup_channel(mon[p]) \in Monitor /\ \A t \in Tx : remove_tx(mon[p], t) \in Monitor
  BY <1>c, MonitorTypes, Typed, FirstBufferTx
<1>1. offer_collaborative_close(p) => TypeOK'
  <2> SUFFICES ASSUME offer_collaborative_close(p) PROVE TypeOK'
    OBVIOUS
  <2>1. CloseTx(p) \in Tx /\ Others
    BY <1>b, Typed, CloseTxType DEF offer_collaborative_close
  <2>2. add_tx(mon[p], CloseTx(p), "CollaborativeClose") \in Monitor
    BY <1>c, <2>1, Typed, MonitorTypes
  <2>3. Out("CollaborativeCloseOffer", p, CloseTx(p), 0) \in SUBSET Msg
    <3>1. "CollaborativeCloseOffer" \in MsgType
      BY DEF MsgType
    <3> QED BY <2>1, <3>1, Typed, OutTypes
  <2> QED BY <1>f, <2>1, <2>2, <2>3, Typed, FinishPersistTypes DEF offer_collaborative_close
<1>2. accept_collaborative_close(p) => TypeOK'
  <2> SUFFICES ASSUME accept_collaborative_close(p) PROVE TypeOK'
    OBVIOUS
  <2>1. ch[p].s.tx \in Tx
    BY DEF accept_collaborative_close, accept_collaborative_close_offer, In, StateInv, Fits
  <2>2. Others
    BY <1>b, <2>1, Typed, SpentTypes DEF accept_collaborative_close
  <2>3. ContractClosed(p) \in SUBSET Idx
    BY Typed DEF ContractClosed
  <2>4. CASE Finish(p, OfKind(p, "CollaborativelyClosed"), mon[p], ContractClosed(p), NoTx, {})
    BY <1>d, <1>e, <2>2, <2>3, <2>4, Typed, FinishTypes
  <2>5. CASE SendThenCrash(p, NoTx)
    BY <2>2, <2>5, SendThenCrashTypes
  <2> QED BY <2>4, <2>5 DEF accept_collaborative_close
<1>3. force_close_channel_internal(p) /\ ch[p].kind = "Signed" => TypeOK'
  <2> SUFFICES ASSUME force_close_channel_internal(p), ch[p].kind = "Signed" PROVE TypeOK'
    OBVIOUS
  <2> DEFINE c == Closable(p)
  <2>0. c \in Channel
    BY ClosableFields
  <2>1. c.s.st \in {"Established", "Settled", "RenewFinalized"} => c.s.tx \in Tx
    BY ClosableFits
  <2>2. CASE initiate_unilateral_close_established_channel(p, c) /\ UNCHANGED signed
    <3>1. c.s.tx \in Tx
      BY <2>1, <2>2 DEF initiate_unilateral_close_established_channel
    <3>2. Others
      BY <1>b, <2>2, <3>1, Typed, SpentTypes DEF initiate_unilateral_close_established_channel
    <3>3. remove_tx(mon[p], c.s.tx) \in Monitor /\ initiate_unilateral_close(c) \in Channel
      BY <1>g, <2>0, <3>1, ForceCloseTypes
    <3>4. \/ FinishPersist(p, initiate_unilateral_close(c), remove_tx(mon[p], c.s.tx), live[p], live[p], NoTx, {})
          \/ SendThenCrash(p, NoTx)
      BY <2>2 DEF initiate_unilateral_close_established_channel
    <3> HIDE DEF c
    <3> QED BY <3>2, <3>3, <3>4, Typed, FinishPersistTypes, SendThenCrashTypes
  <2>3. CASE close_settled_channel(p, c) /\ UNCHANGED signed
    <3>1. c.s.tx \in Tx
      BY <2>1, <2>3 DEF close_settled_channel
    <3>2. Others
      BY <1>b, <2>3, <3>1, Typed, SpentTypes DEF close_settled_channel
    <3>3. [c EXCEPT !.kind = "Closed"] \in Channel
      BY <1>e, <2>0, ChannelTypes
    <3>4. \/ Finish(p, [c EXCEPT !.kind = "Closed"], cleanup_channel(mon[p]), live[p], NoTx, {})
          \/ SendThenCrash(p, NoTx)
      BY <2>3 DEF close_settled_channel
    <3> HIDE DEF c
    <3> QED BY <1>g, <3>2, <3>3, <3>4, Typed, FinishTypes, SendThenCrashTypes
  <2>4. CASE Panic(p, "rollback state")
    BY <2>4, PanicTypes
  <2> QED BY <2>2, <2>3, <2>4 DEF force_close_channel_internal
<1>4. ASSUME NEW m \in msgs, on_collaborative_close_offer(p, m) PROVE TypeOK'
  <2>1. m.tx \in Tx /\ Others
    BY <1>4, <1>b, Typed DEF on_collaborative_close_offer, MessageInv
  <2> QED BY <1>4, <1>f, <2>1, Typed, FinishTypes DEF on_collaborative_close_offer
<1> QED BY <1>1, <1>2, <1>3, <1>4

\* What the chain monitor holds, and what becomes of it.
LEMMA WatchedTypes ==
  ASSUME Types, NEW p \in Party
  PROVE  /\ \A w \in mon[p].txs : w \in Watch /\ w.tx \in Tx
         /\ process_block(mon[p]) \in Monitor
         /\ \A t \in Tx : \A k \in Kind : [t EXCEPT !.kind = k] \in Tx
<1>1. mon[p].txs \subseteq Watch /\ mon[p].txos \subseteq WatchTxo
  BY Typed DEF Monitor
<1>2. /\ \A w \in Watch : \A h \in BOOLEAN : [w EXCEPT !.hit = h] \in Watch
      /\ \A w \in WatchTxo : \A h \in BOOLEAN : [w EXCEPT !.hit = h] \in WatchTxo
  BY DEF Watch, WatchTxo
<1>3. /\ \A w \in Watch : w.tx \in Tx /\ w.hit \in BOOLEAN
      /\ \A w \in WatchTxo : w.hit \in BOOLEAN
  BY DEF Watch, WatchTxo
<1>4. process_block(mon[p]) \in Monitor
  <2> DEFINE m == mon[p]
             X == {[w EXCEPT !.hit = @ \/ (m.done < 1 /\ Blocks >= 1 /\ w.tx = chain.tx)] : w \in m.txs}
             Y == {[w EXCEPT !.hit = @ \/ (m.done < 2 /\ Blocks = 2 /\ w.tx = chain.tx)] : w \in m.txos}
  <2>1. X \subseteq Watch
    <3>1. ASSUME NEW w \in m.txs
          PROVE  [w EXCEPT !.hit = @ \/ (m.done < 1 /\ Blocks >= 1 /\ w.tx = chain.tx)] \in Watch
      <4> DEFINE h == w.hit \/ (m.done < 1 /\ Blocks >= 1 /\ w.tx = chain.tx)
      <4>1. h \in BOOLEAN /\ w \in Watch
        BY <1>1, <1>3
      <4>2. [w EXCEPT !.hit = h] \in Watch
        <5> HIDE DEF h
        <5> QED BY <1>2, <4>1
      <4> QED BY <4>2
    <3> QED BY <3>1
  <2>2. Y \subseteq WatchTxo
    <3>1. ASSUME NEW w \in m.txos
          PROVE  [w EXCEPT !.hit = @ \/ (m.done < 2 /\ Blocks = 2 /\ w.tx = chain.tx)] \in WatchTxo
      <4> DEFINE h == w.hit \/ (m.done < 2 /\ Blocks = 2 /\ w.tx = chain.tx)
      <4>1. h \in BOOLEAN /\ w \in WatchTxo
        BY <1>1, <1>3
      <4>2. [w EXCEPT !.hit = h] \in WatchTxo
        <5> HIDE DEF h
        <5> QED BY <1>2, <4>1
      <4> QED BY <4>2
    <3> QED BY <3>1
  <2>3. Blocks \in 0..2
    BY DEF Blocks
  <2>4. process_block(m) = [txs |-> X, txos |-> Y, done |-> Blocks]
    BY DEF process_block
  <2> HIDE DEF X, Y, m
  <2>5. process_block(m) \in Monitor
    BY <2>1, <2>2, <2>3, <2>4 DEF Monitor
  <2> QED BY <2>5 DEF m
<1>5. \A t \in Tx : \A k \in Kind : [t EXCEPT !.kind = k] \in Tx
  BY DEF Tx
<1> QED BY <1>1, <1>3, <1>4, <1>5

LEMMA WatchedTxTypes ==
  ASSUME Types, scenario' = scenario, NEW p \in Party
  PROVE  process_watched_txs(p) => TypeOK'
<1>b. Others <=> signed' \subseteq Party /\ chain' \in Chain
  BY DEF Others
<1>c. \A k \in ClosedKinds : OfKind(p, k) \in Channel
  BY Typed, ChannelTypes DEF OfKind, ChannelKind
<1>d. cleanup_channel(mon[p]) \in Monitor
  BY MonitorTypes, Typed, FirstBufferTx DEF TxType
<1>e. "punish" \in Kind /\ "Closing" \in SignedState /\ FALSE \in BOOLEAN
  BY DEF Kind, SignedState
<1>f. live[p] \ {ch[p].s.con} \in SUBSET Idx /\ ContractClosed(p) \in SUBSET Idx
  BY Typed DEF ContractClosed
\* A channel of a closed kind, with the contracts l.
<1>g. ASSUME NEW k \in ClosedKinds, NEW l \in SUBSET Idx, Others,
             FinishPersist(p, OfKind(p, k), cleanup_channel(mon[p]), l, l, NoTx, {})
      PROVE  TypeOK'
  BY <1>c, <1>d, <1>g, Typed, FinishPersistTypes
<1>1. ASSUME NEW w \in mon[p].txs, OnBufferTx(p, w) PROVE TypeOK'
  <2>1. CASE Panic(p, "contract id")
    BY <2>1, PanicTypes
  <2> DEFINE s == [ch[p].s EXCEPT !.st = "Closing", !.tx = w.tx, !.offer = FALSE]
  <2>2. CASE FinishPersist(p, Swap(ch[p], s), mon[p], live[p], live[p], NoTx, {}) /\ UNCHANGED <<signed, chain>>
    <3>1. s \in State
      BY <1>e, Typed, WatchedTypes DEF State
    <3>2. Swap(ch[p], s) \in Channel
      <4> HIDE DEF s
      <4> QED BY <3>1, Typed, ChannelTypes
    <3>3. Others
      BY <1>b, <2>2, Typed
    <3> HIDE DEF s
    <3> QED BY <2>2, <3>2, <3>3, Typed, FinishPersistTypes
  <2> QED BY <1>1, <2>1, <2>2 DEF OnBufferTx
<1>2. ASSUME NEW w \in mon[p].txs, OnRevoked(p, w) PROVE TypeOK'
  <2>1. CASE Panic(p, "per update secret")
    BY <2>1, PanicTypes
  <2>2. CASE /\ chain' = [chain EXCEPT !.next = [w.tx EXCEPT !.kind = "punish"]]
             /\ \/ FinishPersist(p, OfKind(p, "ClosedPunished"), cleanup_channel(mon[p]), live[p],
                                 live[p], NoTx, {})
                \/ SendThenCrash(p, NoTx)
             /\ UNCHANGED signed
    <3>1. [w.tx EXCEPT !.kind = "punish"] \in Tx
      BY <1>e, WatchedTypes
    <3>2. chain' \in Chain
      BY <2>2, <3>1, Typed DEF Chain
    <3>3. Others
      BY <1>b, <2>2, <3>2, Typed
    <3>4. "ClosedPunished" \in ClosedKinds
      BY DEF ClosedKinds
    <3> QED BY <1>g, <2>2, <3>3, <3>4, Typed, SendThenCrashTypes
  <2> QED BY <1>2, <2>1, <2>2 DEF OnRevoked
<1>3. ASSUME NEW w \in mon[p].txs, OnCollaborativeClose(p, w) PROVE TypeOK'
  <2> DEFINE l == ContractClosed(p)
  <2>1. Others /\ l \in SUBSET Idx /\ "CollaborativelyClosed" \in ClosedKinds
    BY <1>3, <1>b, <1>f, Typed DEF OnCollaborativeClose, ClosedKinds
  <2>2. CASE FinishPersist(p, OfKind(p, "CollaborativelyClosed"), cleanup_channel(mon[p]), l, l, NoTx, {})
    <3> HIDE DEF l
    <3> QED BY <1>g, <2>1, <2>2
  <2>3. CASE Fault /\ Upsert(p, ch[p], disk[p], l) /\ UNCHANGED <<disk, msgs, revealed, attested, panics, dups>>
    <3>1. UNCHANGED <<signed, chain>>
      BY <1>3 DEF OnCollaborativeClose
    <3> HIDE DEF l
    <3> QED BY <2>1, <2>3, <3>1, CrashTypes
  <2> QED BY <1>3, <2>2, <2>3 DEF OnCollaborativeClose
<1>4. ASSUME NEW w \in mon[p].txs, OnSettleTx(p, w) PROVE TypeOK'
  <2>1. Others /\ "CounterClosed" \in ClosedKinds
    BY <1>4, <1>b, Typed DEF OnSettleTx, ClosedKinds
  <2> QED BY <1>4, <1>g, <2>1, Typed DEF OnSettleTx
<1>5. ASSUME OnCet(p) PROVE TypeOK'
  <2>1. Others /\ "CounterClosed" \in ClosedKinds /\ "Closed" \in ClosedKinds
    BY <1>5, <1>b, Typed DEF OnCet, ClosedKinds
  <2> DEFINE k == IF In(p, "Closing") /\ ~ch[p].s.offer THEN "CounterClosed" ELSE "Closed"
             l == live[p] \ {ch[p].s.con}
  <2>2. k \in ClosedKinds /\ l \in SUBSET Idx
    BY <1>f, <2>1
  <2>3. FinishPersist(p, OfKind(p, k), cleanup_channel(mon[p]), l, l, NoTx, {})
    BY <1>5 DEF OnCet
  <2> HIDE DEF k, l
  <2> QED BY <1>g, <2>1, <2>2, <2>3
<1> QED BY <1>1, <1>2, <1>3, <1>4, <1>5 DEF process_watched_txs

LEMMA PeriodicTypes ==
  ASSUME Types, MessageInv, scenario' = scenario, NEW p \in Party, StateInv(p)
  PROVE  Periodic(p) \/ Crash(p) => TypeOK'
<1>b. Others <=> signed' \subseteq Party /\ chain' \in Chain
  BY DEF Others
<1>1. periodic_chain_monitor(p) => TypeOK'
  <2> SUFFICES ASSUME periodic_chain_monitor(p) PROVE TypeOK'
    OBVIOUS
  <2>1. mon' = [mon EXCEPT ![p] = process_block(mon[p])] /\ process_block(mon[p]) \in Monitor
    BY WatchedTypes DEF periodic_chain_monitor
  <2>2. mon' \in [Party -> Monitor]
    BY <2>1 DEF Types, TypeOK
  <2> QED BY <2>2 DEF periodic_chain_monitor, Types, TypeOK
<1>2. check_signed_contract(p) => TypeOK'
  <2> SUFFICES ASSUME check_signed_contract(p) PROVE TypeOK'
    OBVIOUS
  <2>1. live[p] \union {0} \in SUBSET Idx
    BY Typed
  <2>2. Upsert(p, ch[p], mon[p], live[p] \union {0})
    BY DEF check_signed_contract
  <2>3. ch' \in [Party -> Channel] /\ mon' \in [Party -> Monitor] /\ live' \in [Party -> SUBSET Idx]
    BY <2>1, <2>2, Typed, UpsertTypes
  <2> QED BY <2>3 DEF check_signed_contract, Types, TypeOK
<1>3. process_watched_txs(p) => TypeOK'
  BY WatchedTxTypes
<1>4. check_for_watched_tx(p) => TypeOK'
  <2> SUFFICES ASSUME check_for_watched_tx(p) PROVE TypeOK'
    OBVIOUS
  <2>1. disk' \in [Party -> Monitor]
    BY Typed DEF check_for_watched_tx, Types, TypeOK
  <2> QED BY <2>1 DEF check_for_watched_tx, Types, TypeOK
<1>5. try_finalize_closing_established_channel(p) => TypeOK'
  <2> SUFFICES ASSUME try_finalize_closing_established_channel(p) PROVE TypeOK'
    OBVIOUS
  <2> DEFINE cet == [ch[p].s.tx EXCEPT !.kind = "cet"]
             k == IF ch[p].s.offer THEN "Closed" ELSE "CounterClosed"
             l == live[p] \ {ch[p].s.con}
  <2>1. ch[p].s.tx \in Tx /\ "cet" \in Kind
    BY DEF try_finalize_closing_established_channel, In, StateInv, Fits, Kind
  <2>2. cet \in Tx
    BY <2>1, WatchedTypes
  <2>3. chain' = [chain EXCEPT !.next = cet] /\ signed' = signed
    BY DEF try_finalize_closing_established_channel
  <2>4. Others
    <3> HIDE DEF cet
    <3>1. chain' \in Chain
      BY <2>2, <2>3, Typed DEF Chain
    <3> QED BY <1>b, <2>3, <3>1, Typed
  <2>5. k \in ChannelKind /\ l \in SUBSET Idx
    BY Typed DEF ChannelKind, ClosedKinds
  <2>6. Finish(p, OfKind(p, k), cleanup_channel(mon[p]), l, NoTx, {}) \/ SendThenCrash(p, NoTx)
    BY DEF try_finalize_closing_established_channel
  <2> HIDE DEF k, l
  <2>7. OfKind(p, k) \in Channel
    BY <2>5, Typed, ChannelTypes DEF OfKind
  <2>8. cleanup_channel(mon[p]) \in Monitor
    BY MonitorTypes, Typed, FirstBufferTx DEF TxType
  <2> QED BY <2>4, <2>5, <2>6, <2>7, <2>8, Typed, FinishTypes, SendThenCrashTypes
<1>6. check_for_timed_out_channels(p) => TypeOK'
  BY CloseTypes DEF check_for_timed_out_channels
<1>7. Crash(p) => TypeOK'
  BY Typed, CrashTypes DEF Crash
<1> QED BY <1>1, <1>2, <1>3, <1>4, <1>5, <1>6, <1>7 DEF Periodic

LEMMA NextTypes ==
  ASSUME Types, MessageInv, OpeningInv, \A p \in Party : StateInv(p), Next
  PROVE  Types'
<1>0. scenario' = scenario /\ scenario \in Scenarios
  BY DEF Next, Types
<1>1. offer_channel => TypeOK'
  BY <1>0, SetupTypes, Parties
<1>2. ASSUME NEW p \in Party, Call(p) \/ Periodic(p) \/ Crash(p) PROVE TypeOK'
  <2>1. StateInv(p)
    OBVIOUS
  <2>2. Call(p) => TypeOK'
    BY <1>0, <2>1, SetupTypes, SettleTypes, RenewTypes, CloseTypes DEF Call, force_close_channel
  <2> QED BY <1>0, <1>2, <2>1, <2>2, PeriodicTypes
<1>3. ASSUME NEW p \in Party, NEW m \in msgs, m.to = p, Receive(p, m) PROVE TypeOK'
  BY <1>0, <1>3, SetupTypes, SettleTypes, RenewTypes, CloseTypes DEF Receive
<1>4. Mine => TypeOK'
  <2> SUFFICES ASSUME Mine PROVE TypeOK'
    OBVIOUS
  <2>1. chain \in Chain
    BY DEF Types, TypeOK
  <2>2. chain' \in Chain
    BY <2>1 DEF Mine, FundConfirms, MineSpend, MineNext, Chain
  <2> QED BY <1>0, <2>2 DEF Mine, Types, TypeOK
<1>5. OracleAttests => TypeOK'
  BY <1>0 DEF OracleAttests, Attest, Types, TypeOK
<1>6. TypeOK'
  BY <1>1, <1>2, <1>3, <1>4, <1>5 DEF Next
<1> QED BY <1>0, <1>6 DEF Types

-----------------------------------------------------------------------------
(* The invariant.                                                          *)

ChannelsInv == Types /\ LocalInv /\ PublisherInv

LEMMA OthersKept ==
  ASSUME Types, scenario' = scenario, NEW p \in Party, Move(p), NEW q \in Party, q # p,
         StateInv(q), SecretInv(q), WatchInv(q), HiddenInv(q), OwnPointInv(q)
  PROVE  StateInv(q)' /\ SecretInv(q)' /\ WatchInv(q)' /\ HiddenInv(q)' /\ OwnPointInv(q)'
<1> DEFINE Kept == StateInv(q)' /\ SecretInv(q)' /\ WatchInv(q)' /\ HiddenInv(q)' /\ OwnPointInv(q)'
<1>1. ASSUME NEW d, NEW out, NEW new, Turn(p, d, out, new) PROVE Kept
  BY <1>1, OthersKeep
<1> HIDE DEF Kept
<1>2. Kept
  BY <1>1 DEF Move, Idle, Setup, Open, Propose, GetOffer, Withdraw, Accept, Confirm, Settle, Finalize,
              Renew, Revoke, OfferClose, ForceClose, SeeBuffer, Close
<1> QED BY <1>2 DEF Kept

LEMMA MoveKeeps ==
  ASSUME ChannelsInv, scenario' = scenario, NEW p \in Party, Move(p)
  PROVE  LocalInv' /\ PublisherInv'
<1>1. /\ Types /\ MessageInv /\ UseInv /\ OpeningInv /\ PublisherInv
      /\ \A q \in Party : StateInv(q) /\ SecretInv(q) /\ WatchInv(q) /\ HiddenInv(q) /\ OwnPointInv(q)
  BY DEF ChannelsInv, LocalInv
<1>2. MessageInv' /\ UseInv' /\ OpeningInv' /\ PublisherInv'
  BY <1>1, MessageKept, UseKept, OpeningKept, PublisherKept
<1>3. StateInv(p)' /\ SecretInv(p)' /\ WatchInv(p)' /\ HiddenInv(p)' /\ OwnPointInv(p)'
  BY <1>1, StateKept, SecretKept, WatchKept, HiddenKept, OwnPointKept
<1>4. ASSUME NEW q \in Party, q # p
      PROVE  StateInv(q)' /\ SecretInv(q)' /\ WatchInv(q)' /\ HiddenInv(q)' /\ OwnPointInv(q)'
  BY <1>1, <1>4, OthersKept
<1>5. ASSUME NEW q \in Party
      PROVE  (StateInv(q) /\ SecretInv(q) /\ WatchInv(q) /\ HiddenInv(q) /\ OwnPointInv(q))'
  BY <1>3, <1>4
<1> QED BY <1>2, <1>5 DEF LocalInv

\* A step that the channels do not take part in.
Apart ==
    /\ UNCHANGED <<ch, mon, disk, msgs, revealed, faults, scenario>>
    /\ chain'.tx = chain.tx /\ chain'.by = chain.by
    /\ chain'.fund # "none" => chain.fund # "none"

LEMMA ApartKeeps ==
  ASSUME ChannelsInv, Apart
  PROVE  LocalInv' /\ PublisherInv'
<1>1. /\ MessageInv /\ UseInv /\ OpeningInv /\ PublisherInv
      /\ \A q \in Party : StateInv(q) /\ SecretInv(q) /\ WatchInv(q) /\ HiddenInv(q) /\ OwnPointInv(q)
  BY DEF ChannelsInv, LocalInv
<1>2. MessageInv'
  BY <1>1 DEF MessageInv, Apart
<1>3. UseInv'
  BY <1>1 DEF UseInv, Apart, In
<1>4. OpeningInv'
  BY <1>1 DEF OpeningInv, Apart, Opened
<1>5. PublisherInv'
  <2>1. Gone(chain.by)' <=> Gone(chain.by)
    BY DEF Gone, Apart, In
  <2>2. NeverPublishRevoked' <=> NeverPublishRevoked
    BY DEF NeverPublishRevoked, Apart, Point
  <2> QED BY <1>1, <2>1, <2>2 DEF PublisherInv, Apart
<1>6. ASSUME NEW q \in Party
      PROVE  (StateInv(q) /\ SecretInv(q) /\ WatchInv(q) /\ HiddenInv(q) /\ OwnPointInv(q))'
  <2>1. Watched(q)' = Watched(q)
    BY DEF Watched, Apart
  <2>2. StateInv(q)'
    BY <1>1 DEF StateInv, Apart, Fits, Replaces, Offers, Accepts, Received, Point
  <2>3. SecretInv(q)'
    BY <1>1 DEF SecretInv, Apart, Exposing
  <2>4. WatchInv(q)'
    BY <1>1, <2>1 DEF WatchInv, Apart, Current, Point
  <2>5. HiddenInv(q)'
    BY <1>1, <2>1 DEF HiddenInv, Apart, Hidden, GivenAway, In, Point
  <2>6. OwnPointInv(q)'
    BY <1>1, <2>1 DEF OwnPointInv, Apart, Point
  <2> QED BY <2>2, <2>3, <2>4, <2>5, <2>6
<1> QED BY <1>2, <1>3, <1>4, <1>5, <1>6 DEF LocalInv

LEMMA InitChannels == Init => ChannelsInv
<1> SUFFICES ASSUME Init PROVE ChannelsInv
  OBVIOUS
<1>1. Types
  <2>1. scenario \in Scenarios
    BY DEF Init
  <2>2. scenario.duplicates \in Nat /\ scenario.faults \in Nat
    BY <2>1, ChannelAssumption DEF Bounds
  <2>3. NoState \in State /\ 0 \in Idx
    BY ChannelAssumption DEF NoState, State, SignedState, Idx
  <2>4. NoChannel \in Channel /\ NoMonitor \in Monitor
    BY <2>3 DEF NoChannel, Channel, ChannelKind, NoMonitor, Monitor
  <2>5. chain \in Chain
    BY Parties DEF Init, Chain
  <2>6. /\ ch \in [Party -> Channel] /\ mon \in [Party -> Monitor] /\ disk \in [Party -> Monitor]
        /\ live \in [Party -> SUBSET Idx] /\ revealed \in [Party -> SUBSET Msg]
    BY <2>4 DEF Init
  <2>7. dups \in 0..scenario.duplicates /\ faults \in 0..scenario.faults
    BY <2>2 DEF Init
  <2>8. signed \subseteq Party /\ msgs \subseteq Msg /\ attested \in BOOLEAN /\ panics = {}
    BY DEF Init
  <2> QED BY <2>1, <2>5, <2>6, <2>7, <2>8 DEF Types, TypeOK
<1>2. \A p \in Party : /\ ch[p].kind = "None" /\ ch[p].s.st = "NoState" /\ ch[p].rb.st = "NoState"
                       /\ revealed[p] = {} /\ Watched(p) = {}
  BY DEF Init, NoChannel, NoState, Watched, Buffers, NoMonitor
<1>3. msgs = {} /\ chain.fund = "none" /\ chain.tx = NoTx
  BY DEF Init
<1>4. MessageInv /\ UseInv /\ OpeningInv
  BY <1>2, <1>3, Parties DEF MessageInv, UseInv, OpeningInv, In, SettleStates
<1>5. ASSUME NEW p \in Party
      PROVE  StateInv(p) /\ SecretInv(p) /\ WatchInv(p) /\ HiddenInv(p) /\ OwnPointInv(p)
  BY <1>2 DEF StateInv, SecretInv, WatchInv, HiddenInv, OwnPointInv, In
<1>6. PublisherInv
  BY <1>3 DEF PublisherInv
<1> QED BY <1>1, <1>4, <1>5, <1>6 DEF ChannelsInv, LocalInv

LEMMA NextChannels == ChannelsInv /\ [Next]_<<vars, scenario>> => ChannelsInv'
<1> SUFFICES ASSUME ChannelsInv, [Next]_<<vars, scenario>> PROVE ChannelsInv'
  OBVIOUS
<1>0. Types /\ MessageInv /\ UseInv /\ OpeningInv /\ \A p \in Party : StateInv(p)
  BY DEF ChannelsInv, LocalInv
<1>1. CASE Next
  <2>1. Types' /\ scenario' = scenario
    BY <1>0, <1>1, NextTypes DEF Next
  <2>2. CASE Elsewhere
    BY <2>1, <2>2, ApartKeeps DEF Elsewhere, Apart, ChannelsInv
  <2>3. ASSUME NEW p \in Party, Move(p) PROVE ChannelsInv'
    BY <2>1, <2>3, MoveKeeps DEF ChannelsInv
  <2> QED BY <1>0, <1>1, <2>2, <2>3, NextMoves
<1>2. CASE UNCHANGED <<vars, scenario>>
  <2>1. Apart
    BY <1>2 DEF Apart, vars
  <2>2. Types'
    BY <1>0, <1>2 DEF Types, TypeOK, vars
  <2> QED BY <2>1, <2>2, ApartKeeps DEF ChannelsInv
<1> QED BY <1>1, <1>2

-----------------------------------------------------------------------------
(* What the invariant says of each party.                                  *)

LEMMA ChannelsInvariant == Spec => []ChannelsInv
  BY InitChannels, NextChannels, PTL DEF Spec

\* Whatever handlers, applications and crashes do, in whatever order messages
\* come, what is stored and sent stays what the handlers expect: the channel
\* and its roll back state, both monitors, the messages and the chain.
THEOREM ChannelIsWellTyped == Spec => []TypeOK
<1>1. ChannelsInv => TypeOK
  BY DEF ChannelsInv, Types
<1> QED BY <1>1, ChannelsInvariant, PTL

\* In no scenario, and after any crash between two writes, has a party a
\* transaction to close the channel with whose secret it gave away: the
\* handlers of channel_updater.rs that send a secret have replaced the state
\* by then, but for SettledConfirmed.
THEOREM StoredStateIsSafeToClose == Spec => []SafeToClose
<1>1. ChannelsInv => SafeToClose
  <2> SUFFICES ASSUME ChannelsInv, "settle" \notin scenario.ops \/ "collaborative" \notin scenario.ops,
                      NEW p \in Party, ch[p].kind = "Signed", ~In(p, "Closing"), ~In(p, "SettledConfirmed"),
                      Closable(p).s.st \in Direct, NEW x \in revealed[p]
               PROVE  x.sec # Point(p, Closable(p).s.tx)
    BY DEF SafeToClose, GivenAway
  <2>1. Types /\ UseInv /\ StateInv(p) /\ SecretInv(p) /\ HiddenInv(p)
    BY DEF ChannelsInv, LocalInv
  <2>2. CASE Closable(p).s.st # "Closing"
    <3>1. Closable(p).s.st \in {"Established", "Settled", "RenewFinalized"}
      BY <2>2 DEF Direct
    <3>2. ch[p].s.st # "SettledConfirmed"
      BY DEF In
    <3> QED BY <2>1, <3>1, <3>2, ClosableHidden
  <2>3. CASE Closable(p).s.st = "Closing"
    <3>1. ch[p].s.st # "Closing" /\ ch[p].s.st \notin Direct
      BY <2>1, <2>3, ClosableFields DEF In
    <3>2. Closable(p).s = ch[p].rb /\ ch[p].rb.st = "Closing"
      BY <2>1, <2>3, <3>1, ClosableFields
    <3>3. ch[p].s.st = "CollaborativeCloseOffered"
      <4>1. ch[p].s.st \in SignedState /\ ch[p].s.st # "NoState"
        BY <2>1, Typed DEF StateInv, Fits, State
      <4>2. ch[p].s.st \notin Updating
        BY <2>1, <3>2 DEF StateInv, Replaces, StableStates
      <4> QED BY <3>1, <4>1, <4>2 DEF SignedState, Updating, Direct
    <3>4. "collaborative" \in scenario.ops
      BY <2>1, <3>3 DEF UseInv, In
    <3>5. Hidden(p, ch[p].rb.tx)
      BY <2>1, <3>2, <3>3, <3>4 DEF HiddenInv, In
    <3> QED BY <3>2, <3>5, HiddenDef
  <2> QED BY <2>2, <2>3
<1> QED BY <1>1, ChannelsInvariant, PTL

\* A party that has not closed the channel can always do so on its own, from
\* its state or the one force_close_channel_internal rolls back to: whatever
\* step of an update it is in, it has a transaction made for its own point.
THEOREM ChannelCanAlwaysBeClosed == Spec => []CanAlwaysClose
<1>1. ChannelsInv => CanAlwaysClose
  <2> SUFFICES ASSUME ChannelsInv, chain.fund # "none", faults = 0, "collaborative" \notin scenario.ops,
                      NEW p \in Party
               PROVE  /\ ch[p].kind \in {"Signed"} \union ClosedKinds
                      /\ ch[p].kind = "Signed" => /\ Closable(p).s.st \in Direct
                                                 /\ Point(p, Closable(p).s.tx) = ch[p].own
    BY DEF CanAlwaysClose
  <2>1. Types /\ UseInv /\ OpeningInv /\ StateInv(p) /\ OwnPointInv(p)
    BY DEF ChannelsInv, LocalInv
  <2>2. Opened(p)
    <3>1. Opened("alice") /\ Opened("bob")
      BY <2>1 DEF OpeningInv
    <3> QED BY <3>1 DEF Party
  <2> SUFFICES ASSUME ch[p].kind = "Signed"
               PROVE  Closable(p).s.st \in Direct /\ Point(p, Closable(p).s.tx) = ch[p].own
    BY <2>2 DEF Opened
  <2>3. ch[p].s.st # "CollaborativeCloseOffered" /\ ch[p].s.st # "NoState" /\ ch[p].s.st \in SignedState
    BY <2>1, Typed DEF UseInv, In, StateInv, Fits, State
  <2>4. CASE ch[p].s.st = "Closing"
    BY <2>1, <2>4, ClosableFields DEF OwnPointInv, Direct
  <2>5. CASE ch[p].s.st # "Closing"
    <3>1. Closable(p).s.st \in {"Established", "Settled", "RenewFinalized"}
      <4>1. CASE ch[p].s.st \in Direct
        BY <2>1, <2>5, <4>1, ClosableFields DEF Direct
      <4>2. CASE ch[p].s.st \notin Direct
        <5>1. ch[p].s.st \in Updating
          BY <2>3, <4>2 DEF Direct, SignedState, Updating
        <5>2. ch[p].rb.st \in StableStates
          BY <2>1, <5>1 DEF StateInv, Replaces
        <5> QED BY <2>1, <4>2, <5>2, ClosableFields DEF StableStates
      <4> QED BY <4>1, <4>2
    <3> QED BY <2>1, <3>1, ClosableFits DEF Direct
  <2> QED BY <2>4, <2>5
<1> QED BY <1>1, ChannelsInvariant, PTL

\* A party that never crashed does not publish a transaction it had revoked,
\* and does not revoke what it published (the secret that on_settle_accept
\* sends of the current version excepted): what it has published ends its
\* updates, so that a forced close is never answered with a punishment.
THEOREM PublisherHasNotRevoked == Spec => []NeverPublishRevoked
<1>1. ChannelsInv => NeverPublishRevoked
  BY DEF ChannelsInv, PublisherInv, NeverPublishRevoked
<1> QED BY <1>1, ChannelsInvariant, PTL

-----------------------------------------------------------------------------
(***************************************************************************)
(* How far apart the two parties are.  Of a party's channel c and the      *)
(* other one's d: they are level, or one of them is a version ahead, while *)
(* the other one waits for the message that takes it there.                *)
(***************************************************************************)
HasAccepted == {"SettledAccepted", "RenewAccepted"}
HasConfirmed == {"SettledConfirmed", "RenewConfirmed"}
Waits == HasConfirmed \union {"RenewFinalized"}
Active(c) == c.kind = "Signed" /\ c.s.st \in StableStates \union Updating \union {"RenewFinalized"}

\* What c has confirmed is what d accepted.
Backed(c, d) == c.s.st \in HasConfirmed =>
                   d.s.st \in HasAccepted \union {"RenewFinalized"} /\ d.s.tx = c.s.tx
\* What c has finalized is what d confirmed.
Finished(c, d) == c.s.st = "RenewFinalized" => d.s.st \in HasConfirmed /\ d.s.tx = c.s.tx
Level(c, d) == /\ c.ver = d.ver /\ Current(c) = Current(d)
               /\ Backed(c, d) /\ Backed(d, c) /\ Finished(c, d) /\ Finished(d, c)
Ahead(c, d) == /\ c.ver = d.ver + 1 /\ c.s.st \notin Waits
               /\ d.s.st \in Waits /\ d.s.tx = Current(c)
Together(c, d) == Level(c, d) \/ Ahead(c, d) \/ Ahead(d, c)

\* What a message says to the party with channel c, when the other one has d.
Offering == {"SettleOffer", "RenewOffer"}
Accepting == {"SettleAccept", "RenewAccept"}
Confirming == {"SettleConfirm", "RenewConfirm"}
Updates == Offering \union Accepting \union Confirming
           \union {"SettleFinalize", "RenewFinalize", "RenewRevoke"}
AcceptFits(t, c, d) ==
    /\ t.o <= c.ver + 1
    /\ c.s.st \notin Waits /\ t.o = c.ver + 1 => d.s.st \in HasAccepted /\ d.s.tx = t
ConfirmFits(t, d) ==
    /\ t \in Tx /\ t.o = t.a
    /\ t.o <= d.ver \/ (d.s.st \in HasConfirmed /\ d.s.tx = t)
Says(m, c, d) ==
    /\ m.type \in Offering => m.tx.o <= d.ver + 1
    /\ Active(c) /\ Active(d) =>
          /\ m.type \in Accepting => AcceptFits(m.tx, c, d)
          /\ m.type \in Confirming => ConfirmFits(m.tx, d)

TogetherInv(p) == Active(ch[p]) /\ Active(ch[Other(p)]) => Together(ch[p], ch[Other(p)])
SaidInv(p) == \A m \in msgs : m.to = p => Says(m, ch[p], ch[Other(p)])
ReceivedInv(p) == Active(ch[p]) /\ Received(ch[p].s) => ch[p].s.tx.o <= ch[Other(p)].ver + 1

\* The secrets that end an update are those of versions that are over.
EndInv(p) ==
    \A x \in revealed[p] :
        /\ x.type \in {"SettleFinalize", "RenewRevoke"} => x.sec < ch[p].ver
        /\ x.type = "RenewFinalize" /\ Active(ch[p]) =>
              x.sec < ch[p].ver \/ (ch[p].s.st = "RenewFinalized" /\ ch[p].s.tx = x.tx)

\* Until a party has signed, the other one gets no further than an offer.
FirstSteps(c) == /\ c.ver = 0 /\ Current(c) = FirstBuffer /\ ~Received(c.s)
                 /\ c.s.st \in StableStates \union {"SettledOffered", "RenewOffered"}
SetupInv(p) ==
    ch[p].kind \in Opening =>
        /\ \A m \in msgs : m.type \in Updates => m.type \in Offering /\ m.to = p
        /\ Active(ch[Other(p)]) => FirstSteps(ch[Other(p)])
        /\ ch[Other(p)].ver = 0

\* A party is a version behind only while it waits, also behind one that has left.
LeadInv(p) == Active(ch[p]) => \/ ch[Other(p)].ver <= ch[p].ver
                               \/ ch[p].s.st \in Waits /\ ch[Other(p)].ver = ch[p].ver + 1

PairInv(p) == TogetherInv(p) /\ SaidInv(p) /\ ReceivedInv(p) /\ EndInv(p) /\ SetupInv(p) /\ LeadInv(p)

LEMMA Symmetric == \A c, d : Together(c, d) <=> Together(d, c)
  BY DEF Together, Level

\* The states of these sets.
LEMMA Stages ==
  /\ \A st \in HasAccepted : st \notin Waits /\ st \in Updating /\ st \notin StableStates
  /\ \A st \in HasConfirmed : st \in Waits /\ st \in Updating /\ st \notin StableStates
  /\ "RenewFinalized" \in Waits /\ "RenewFinalized" \notin HasConfirmed /\ "RenewFinalized" \notin HasAccepted
  /\ \A st \in Waits : st \in HasConfirmed \/ st = "RenewFinalized"
  /\ \A st \in StableStates : st \notin Waits /\ st \notin HasAccepted /\ st \notin Updating
  /\ \A st \in {"SettledOffered", "RenewOffered", "SettledReceived"} :
        st \notin Waits /\ st \notin HasAccepted /\ st \in Updating /\ st \notin StableStates
  BY DEF HasAccepted, HasConfirmed, Waits, StableStates, Updating, SettleStates, RenewStates

-----------------------------------------------------------------------------
(* The steps of a party with channel c to channel e, next to one with d.   *)

\* The version stays, and nothing was confirmed or accepted.
LEMMA SteadyTogether ==
  ASSUME NEW c, NEW d, NEW e, Together(c, d), e.ver = c.ver, Current(e) = Current(c),
         c.s.st \notin Waits, c.s.st \notin HasAccepted, e.s.st \notin Waits
  PROVE  Together(e, d)
<1>1. c.s.st \notin HasConfirmed /\ e.s.st \notin HasConfirmed /\ c.s.st # "RenewFinalized"
  BY Stages
<1>2. CASE Level(c, d)
  BY <1>1, <1>2, Stages DEF Level, Backed, Finished, Together
<1>3. CASE Ahead(c, d)
  BY <1>3 DEF Ahead, Together
<1>4. CASE Ahead(d, c)
  BY <1>4 DEF Ahead
<1> QED BY <1>2, <1>3, <1>4 DEF Together

\* c confirms what d accepted.
LEMMA ConfirmTogether ==
  ASSUME NEW c, NEW d, NEW e, NEW t, Together(c, d), c.ver \in Nat, d.ver \in Nat,
         c.s.st \notin Waits, AcceptFits(t, c, d), t.o = c.ver + 1,
         d.s.st \in HasAccepted => d.s.tx.a = d.ver + 1,
         e.ver = c.ver, Current(e) = Current(c), e.s.st \in HasConfirmed, e.s.tx = t
  PROVE  Together(e, d) /\ t.o = t.a
<1>1. d.s.st \in HasAccepted /\ d.s.tx = t /\ d.s.st \notin Waits
  BY Stages DEF AcceptFits
<1>2. Level(c, d)
  BY <1>1 DEF Together, Ahead
<1>3. Backed(e, d) /\ Backed(d, e) /\ Finished(e, d) /\ Finished(d, e)
  BY <1>1, Stages DEF Backed, Finished
<1> QED BY <1>1, <1>2, <1>3 DEF Together, Level

\* What c accepted is confirmed: d has it, in the same version.
LEMMA ConfirmedByOther ==
  ASSUME NEW c, NEW d, NEW t, Together(c, d), c.ver \in Nat, d.ver \in Nat,
         c.s.st \in HasAccepted, c.s.tx = t, t.a = c.ver + 1, ConfirmFits(t, d),
         d.s.st \in HasConfirmed => d.s.tx.o = d.ver + 1
  PROVE  Level(c, d) /\ d.s.st \in HasConfirmed /\ d.s.tx = t
<1>1. c.s.st \notin Waits
  BY Stages
<1>2. ~Ahead(d, c)
  BY <1>1 DEF Ahead
<1>3. t.o = c.ver + 1 /\ (t.o <= d.ver \/ (d.s.st \in HasConfirmed /\ d.s.tx = t))
  BY DEF ConfirmFits
<1>4. d.ver <= c.ver
  BY <1>2 DEF Together, Level, Ahead
<1>5. d.s.st \in HasConfirmed /\ d.s.tx = t /\ d.ver = c.ver
  BY <1>3, <1>4
<1>6. ~Ahead(c, d)
  BY <1>5 DEF Ahead
<1> QED BY <1>2, <1>5, <1>6 DEF Together

\* c ends the update first.
LEMMA FirstTogether ==
  ASSUME NEW c, NEW d, NEW e, NEW t, c.ver = d.ver, d.s.st \in Waits, d.s.tx = t,
         e.ver = c.ver + 1, e.s.st \in StableStates, e.s.tx = t
  PROVE  Together(e, d)
  BY Stages DEF Together, Ahead, Current

\* c ends the update after d has.
LEMMA LastTogether ==
  ASSUME NEW c, NEW d, NEW e, Ahead(d, c), c.ver \in Nat, d.ver \in Nat,
         e.ver = c.ver + 1, e.s.st \in StableStates, e.s.tx = c.s.tx
  PROVE  Together(e, d)
<1>1. e.s.st \notin HasConfirmed /\ d.s.st \notin HasConfirmed
  BY Stages DEF Ahead
<1>2. Current(e) = Current(d) /\ e.ver = d.ver
  BY DEF Current, Ahead
<1>3. e.s.st # "RenewFinalized" /\ d.s.st # "RenewFinalized"
  BY Stages DEF Ahead
<1> QED BY <1>1, <1>2, <1>3 DEF Together, Level, Backed, Finished

\* What messages say stays true when c goes on to e.
Goes(c, e, d) ==
    /\ Active(c) /\ c.ver \in Nat /\ e.ver \in Nat
    /\ (e.ver = c.ver /\ c.s.st \notin Waits) \/ e.ver = c.ver + 1
    /\ c.s.st \in HasAccepted /\ Active(d) => d.s.st \in Waits
    /\ c.s.st \in HasConfirmed => e.ver = c.ver + 1 /\ c.s.tx.o = c.ver + 1

LEMMA GoesAccept ==
  ASSUME NEW c, NEW d, NEW e, NEW t, t.o \in Nat, Goes(c, e, d), Active(d)
  PROVE  /\ AcceptFits(t, c, d) => AcceptFits(t, e, d)
         /\ AcceptFits(t, d, c) => AcceptFits(t, d, e)
<1>1. AcceptFits(t, c, d) => AcceptFits(t, e, d)
  BY DEF Goes, AcceptFits
<1>2. AcceptFits(t, d, c) => AcceptFits(t, d, e)
  BY DEF Goes, AcceptFits
<1> QED BY <1>1, <1>2

LEMMA GoesConfirm ==
  ASSUME NEW c, NEW d, NEW e, NEW t, Goes(c, e, d), ConfirmFits(t, c)
  PROVE  ConfirmFits(t, e)
<1>1. t.o \in Nat
  BY Indices DEF ConfirmFits, Tx
<1> QED BY <1>1 DEF Goes, ConfirmFits

LEMMA GoesSays ==
  ASSUME NEW c, NEW d, NEW e, NEW m, Goes(c, e, d),
         m.type \in Offering \union Accepting => m.tx.o \in Nat
  PROVE  /\ Says(m, c, d) => Says(m, e, d)
         /\ Says(m, d, c) => Says(m, d, e)
<1>1. Active(c) /\ c.ver \in Nat /\ e.ver \in Nat /\ c.ver <= e.ver
  BY DEF Goes
<1>2. ASSUME Says(m, c, d) PROVE Says(m, e, d)
  <2>1. ASSUME Active(d), m.type \in Accepting PROVE AcceptFits(m.tx, e, d)
    BY <1>1, <1>2, <2>1, GoesAccept DEF Says
  <2> QED BY <1>1, <1>2, <2>1 DEF Says
<1>3. ASSUME Says(m, d, c) PROVE Says(m, d, e)
  <2>1. ASSUME Active(d), m.type \in Accepting PROVE AcceptFits(m.tx, d, e)
    BY <1>1, <1>3, <2>1, GoesAccept DEF Says
  <2>2. ASSUME Active(d), m.type \in Confirming PROVE ConfirmFits(m.tx, e)
    BY <1>1, <1>3, <2>2, GoesConfirm DEF Says
  <2>3. m.type \in Offering => m.tx.o <= e.ver + 1
    BY <1>1, <1>3 DEF Says
  <2> QED BY <2>1, <2>2, <2>3 DEF Says
<1> QED BY <1>2, <1>3

-----------------------------------------------------------------------------
(* What the invariants of both parties need of a step of one of them.      *)

\* The numbers of a channel and in a message.
LEMMA Numbers ==
  ASSUME Types, MessageInv, NEW p \in Party, StateInv(p)
  PROVE  /\ ch[p].ver \in Nat
         /\ ch[p].kind = "Signed" => ch[p].s.tx \in Tx /\ ch[p].s.tx.o \in Nat /\ ch[p].s.tx.a \in Nat
         /\ \A m \in msgs : m.to \in Party /\ (m.type \in Offering \union Accepting => m.tx \in Tx /\ m.tx.o \in Nat)
<1>1. ch[p].ver \in Nat
  BY Typed
<1>2. \A t \in Tx : t.o \in Nat /\ t.a \in Nat
  BY Indices DEF Tx
<1>3. ch[p].kind = "Signed" => ch[p].s.tx \in Tx
  BY DEF StateInv, Fits
<1>4. \A m \in msgs : m.type \in Offering \union Accepting => m.tx \in Tx
  BY DEF MessageInv, Offering, Accepting
<1>5. \A m \in msgs : m.to \in Party
  BY DEF Types, TypeOK, Msg
<1> QED BY <1>1, <1>2, <1>3, <1>4, <1>5

\* The two parties, and what they see after a turn of p.
LEMMA TurnPair ==
  ASSUME Types, NEW p \in Party, NEW d, NEW out, NEW new, Turn(p, d, out, new)
  PROVE  /\ ch'[p] = d /\ ch'[Other(p)] = ch[Other(p)] /\ revealed'[Other(p)] = revealed[Other(p)]
         /\ \A x \in msgs' : x \in msgs \/ x \in out
         /\ Other(p) \in Party /\ Other(p) # p /\ Other(Other(p)) = p
         /\ \A q \in Party : q = p \/ q = Other(p)
<1>1. Other(p) \in Party \ {p} /\ Other(Other(p)) = p
  BY Parties
<1>2. \A q \in Party : q = p \/ q = Other(p)
  BY DEF Party, Other
<1> QED BY <1>1, <1>2, TurnFacts

\* An update goes on.
LEMMA GoOn ==
  ASSUME Types, MessageInv, NEW p \in Party, StateInv(p), StateInv(Other(p)), PairInv(p), PairInv(Other(p)),
         NEW out, NEW new, Turn(p, ch'[p], out, new),
         Goes(ch[p], ch'[p], ch[Other(p)]), Active(ch'[p]),
         Active(ch[Other(p)]) => Together(ch'[p], ch[Other(p)]),
         \A x \in out : x.type \in Updates => x.to = Other(p) /\ Says(x, ch[Other(p)], ch'[p]),
         Received(ch'[p].s) => ch'[p].s.tx.o <= ch[Other(p)].ver + 1,
         EndInv(p)',
         ch[Other(p)].kind \in Opening =>
             FirstSteps(ch'[p]) /\ \A x \in out : x.type \in Updates => x.type \in Offering
  PROVE  PairInv(p)' /\ PairInv(Other(p))'
<1> DEFINE q == Other(p)
           c == ch[p]
           d == ch[q]
           e == ch'[p]
<1>1. /\ ch'[q] = d /\ revealed'[q] = revealed[q] /\ \A x \in msgs' : x \in msgs \/ x \in out
      /\ q \in Party /\ q # p /\ Other(q) = p
  BY TurnPair
<1>2. /\ d.kind = "Signed" => d.s.tx.o \in Nat
      /\ \A m \in msgs : m.to \in Party /\ (m.type \in Offering \union Accepting => m.tx.o \in Nat)
  BY <1>1, Numbers
<1>3. c.ver \in Nat /\ e.ver \in Nat /\ c.ver <= e.ver
  BY DEF Goes
<1>4. TogetherInv(p)' /\ TogetherInv(q)'
  BY <1>1, Symmetric DEF TogetherInv
<1>a. \A x, u, v : x.type \notin Updates => Says(x, u, v)
  BY DEF Updates, Says
<1>5. SaidInv(p)'
  <2>1. ASSUME NEW m \in msgs', m.to = p, m.type \in Updates PROVE Says(m, e, d)
    <3>1. m \in msgs /\ Says(m, c, d)
      BY <1>1, <2>1 DEF PairInv, SaidInv
    <3> HIDE DEF c, d, e
    <3> QED BY <1>2, <3>1, GoesSays DEF c, d, e
  <2> QED BY <1>1, <1>a, <2>1 DEF SaidInv
<1>6. SaidInv(q)'
  <2>1. ASSUME NEW m \in msgs', m.to = q, m.type \in Updates PROVE Says(m, d, e)
    <3>1. CASE m \in msgs
      <4>1. Says(m, d, c)
        BY <1>1, <2>1, <3>1 DEF PairInv, SaidInv
      <4> QED BY <1>2, <3>1, <4>1, GoesSays
    <3>2. CASE m \in out
      BY <2>1, <3>2
    <3> QED BY <1>1, <3>1, <3>2
  <2> QED BY <1>1, <1>a, <2>1 DEF SaidInv
<1>7. ReceivedInv(p)'
  BY <1>1 DEF ReceivedInv
<1>8. ReceivedInv(q)'
  BY <1>1, <1>2, <1>3 DEF ReceivedInv, PairInv, Active
<1>9. EndInv(q)'
  BY <1>1 DEF PairInv, EndInv
<1>10. SetupInv(p)'
  BY <1>1, Ends DEF SetupInv, Active
<1>11. SetupInv(q)'
  BY <1>1 DEF SetupInv, PairInv, FirstSteps
<1>12. LeadInv(p)' /\ LeadInv(q)'
  <2>1. LeadInv(p) /\ d.ver \in Nat /\ Goes(c, e, d)
    BY <1>1, Numbers DEF PairInv
  <2>2. LeadInv(p)'
    BY <1>1, <1>3, <2>1 DEF LeadInv, Goes
  <2>3. LeadInv(q)'
    BY <1>1, <1>3, <2>1 DEF LeadInv, Together, Level, Ahead
  <2> QED BY <2>2, <2>3
<1> QED BY <1>4, <1>5, <1>6, <1>7, <1>8, <1>9, <1>10, <1>11, <1>12 DEF PairInv

\* The channel of p stays as it is, or takes no part in updates.
LEMMA TakesNoPart ==
  ASSUME Types, MessageInv, NEW p \in Party, StateInv(p), StateInv(Other(p)), PairInv(p), PairInv(Other(p)),
         NEW out, NEW new, Turn(p, ch'[p], out, new),
         \A x \in out : x.type \notin Updates, revealed'[p] = revealed[p],
         ch'[p] = ch[p] \/ ~Active(ch'[p]), ch'[p].ver = ch[p].ver,
         ch'[p].kind \in Opening => ch[p].kind \in Opening
  PROVE  PairInv(p)' /\ PairInv(Other(p))'
<1> DEFINE q == Other(p)
           c == ch[p]
           d == ch[q]
           e == ch'[p]
<1>1. /\ ch'[q] = d /\ revealed'[q] = revealed[q] /\ \A x \in msgs' : x \in msgs \/ x \in out
      /\ q \in Party /\ q # p /\ Other(q) = p
  BY TurnPair
<1>2. TogetherInv(p)' /\ TogetherInv(q)'
  BY <1>1 DEF TogetherInv, PairInv
<1>3. \A x : x.type \notin Updates => x.type \notin Offering \union Accepting \union Confirming
  BY DEF Updates
<1>4. SaidInv(p)' /\ SaidInv(q)'
  BY <1>1, <1>3 DEF SaidInv, PairInv, Says
<1>5. ReceivedInv(p)' /\ ReceivedInv(q)'
  BY <1>1 DEF ReceivedInv, PairInv
<1>6. EndInv(p)' /\ EndInv(q)'
  BY <1>1 DEF EndInv, PairInv
<1>7. SetupInv(p)' /\ SetupInv(q)'
  BY <1>1 DEF SetupInv, PairInv
<1>8. LeadInv(p)' /\ LeadInv(q)'
  BY <1>1 DEF LeadInv, PairInv
<1> QED BY <1>2, <1>4, <1>5, <1>6, <1>7, <1>8 DEF PairInv

\* The secrets that end an update, when none is sent, and when a version ends.
LEMMA EndStays ==
  ASSUME NEW p \in Party, EndInv(p), Active(ch[p]), ch'[p].ver = ch[p].ver, ch[p].s.st # "RenewFinalized",
         \A x \in revealed'[p] : x \in revealed[p] \/ x.type \in Confirming
  PROVE  EndInv(p)'
  BY DEF EndInv, Confirming

LEMMA EndPasses ==
  ASSUME Types, NEW p \in Party, SecretInv(p), ch'[p].ver = ch[p].ver + 1,
         \A x \in revealed'[p] : x \in revealed[p] \/ x.sec = ch[p].ver
  PROVE  EndInv(p)'
<1>1. ch[p].ver \in Nat /\ \A x \in revealed[p] : x.sec \in Nat /\ x.sec <= ch[p].ver
  BY SecretTypes DEF SecretInv
<1>2. \A x \in revealed'[p] : x.sec < ch'[p].ver
  BY <1>1
<1> QED BY <1>2 DEF EndInv

\* The points of the transaction of the current version.
LEMMA CurrentPoints ==
  ASSUME NEW p \in Party, StateInv(p), Active(ch[p])
  PROVE  /\ Point(p, Current(ch[p])) = ch[p].ver
         /\ Point(Other(p), Current(ch[p])) = IF ch[p].s.st = "RenewFinalized" THEN ch[p].prev ELSE ch[p].ctr
<1>1. CASE ch[p].s.st \in StableStates
  <2>1. Fits(p, ch[p], ch[p].s) /\ Current(ch[p]) = ch[p].s.tx /\ ch[p].s.st # "RenewFinalized"
    BY <1>1, Ends DEF StateInv, Active, Current
  <2> QED BY <1>1, <2>1 DEF Fits
<1>2. CASE ch[p].s.st \notin StableStates
  <2>1. Replaces(p, ch[p]) /\ Current(ch[p]) = ch[p].rb.tx
    BY <1>2 DEF StateInv, Active, Current
  <2> QED BY <2>1 DEF Replaces
<1> QED BY <1>1, <1>2

\* The points of what is proposed, accepted or confirmed.
LEMMA NextPoints ==
  ASSUME NEW p \in Party, StateInv(p), Active(ch[p])
  PROVE  /\ ch[p].s.st \in HasConfirmed => ch[p].s.tx.o = ch[p].ver + 1
         /\ ch[p].s.st \in HasAccepted \union {"RenewFinalized"} => ch[p].s.tx.a = ch[p].ver + 1
  BY DEF StateInv, Active, Fits, Offers, Accepts, HasConfirmed, HasAccepted

LEMMA IdlePair ==
  ASSUME Types, MessageInv, NEW p \in Party, StateInv(p), StateInv(Other(p)), PairInv(p), PairInv(Other(p)),
         NEW out, Idle(p, out)
  PROVE  PairInv(p)' /\ PairInv(Other(p))'
<1>1. Turn(p, ch'[p], out, {}) /\ ch'[p] = ch[p] /\ revealed'[p] = revealed[p]
  BY IdleFacts DEF Idle, Secretive
<1>2. \A x \in out : x.type \notin Updates
  BY DEF Idle, Updates, Offering, Accepting, Confirming
<1> QED BY <1>1, <1>2, TakesNoPart

LEMMA SetupPair ==
  ASSUME Types, MessageInv, NEW p \in Party, StateInv(p), StateInv(Other(p)), PairInv(p), PairInv(Other(p)),
         NEW k, NEW out, Setup(p, k, out)
  PROVE  PairInv(p)' /\ PairInv(Other(p))'
<1>1. /\ ch'[p].kind = k /\ k \in Opening /\ ch[p].kind \in Opening /\ revealed'[p] = revealed[p]
      /\ Turn(p, OfKind(p, k), out, {})
  BY SetupFacts DEF Setup, Secretive
<1>2. ch'[p] = OfKind(p, k)
  BY <1>1, TurnFacts
<1>3. ch'[p].ver = ch[p].ver
  BY <1>2, Stored DEF OfKind, Channel
<1>4. ~Active(ch'[p])
  BY <1>1, Ends DEF Active
<1>5. \A x \in out : x.type \notin Updates
  BY DEF Setup, Updates, Offering, Accepting, Confirming
<1> QED BY <1>1, <1>2, <1>3, <1>4, <1>5, TakesNoPart

LEMMA OpenPair ==
  ASSUME Types, MessageInv, NEW p \in Party, StateInv(p), StateInv(Other(p)), PairInv(p), PairInv(Other(p)),
         SecretInv(p), NEW k, NEW out, Open(p, k, out)
  PROVE  PairInv(p)' /\ PairInv(Other(p))'
<1> DEFINE q == Other(p)
           c == ch[p]
           d == ch[q]
           e == ch'[p]
<1>1. /\ e.kind = "Signed" /\ e.s.st = "Established" /\ e.s.tx = FirstBuffer /\ e.ver = 0
      /\ c.kind \in Opening /\ revealed'[p] = revealed[p]
  BY OpenFacts DEF Secretive
<1>2. /\ ch'[q] = d /\ revealed'[q] = revealed[q] /\ \A x \in msgs' : x \in msgs \/ x \in out
      /\ q \in Party /\ q # p /\ Other(q) = p
  BY TurnPair DEF Open
<1>3. \A x \in out : x.type \notin Updates
  BY DEF Open, Updates, Offering, Accepting, Confirming
<1>4. /\ \A m \in msgs' : m.type \in Updates => m.type \in Offering /\ m.to = p /\ m \in msgs
      /\ (Active(d) => FirstSteps(d)) /\ d.ver = 0
  BY <1>1, <1>2, <1>3 DEF PairInv, SetupInv
<1>5. FirstSteps(e) /\ ~Received(e.s)
  BY <1>1 DEF FirstSteps, Current, Received, StableStates
<1>6. Active(d) => Together(e, d)
  <2> SUFFICES ASSUME Active(d) PROVE Level(e, d)
    BY DEF Together
  <2>1. FirstSteps(d) /\ d.s.st \notin HasConfirmed /\ e.s.st \notin HasConfirmed
    BY <1>1, <1>4, Stages DEF FirstSteps, HasConfirmed
  <2>2. d.s.st # "RenewFinalized" /\ e.s.st # "RenewFinalized"
    BY <1>1, <1>4 DEF FirstSteps, StableStates
  <2> QED BY <1>5, <2>1, <2>2 DEF Level, Backed, Finished, FirstSteps
<1>7. TogetherInv(p)' /\ TogetherInv(q)'
  BY <1>2, <1>6, Symmetric DEF TogetherInv
<1>8. \A m : m.type \in Accepting \union Confirming => m.type \in Updates /\ m.type \notin Offering
  BY DEF Updates, Offering, Accepting, Confirming
<1>9. SaidInv(p)'
  BY <1>2, <1>4, <1>8 DEF SaidInv, PairInv, Says, Updates
<1>10. SaidInv(q)'
  BY <1>2, <1>4, <1>8 DEF SaidInv, Says, Updates
<1>11. ReceivedInv(p)' /\ ReceivedInv(q)'
  BY <1>2, <1>4, <1>5 DEF ReceivedInv, FirstSteps
<1>12. EndInv(p)' /\ EndInv(q)'
  BY <1>1, <1>2 DEF EndInv, PairInv, SecretInv
<1>13. SetupInv(p)' /\ SetupInv(q)'
  <2>1. SetupInv(p)'
    BY <1>1, Ends DEF SetupInv
  <2>2. d.kind \in Opening => \A m \in msgs' : m.type \notin Updates
    BY <1>2, <1>4 DEF SetupInv, PairInv
  <2> QED BY <1>1, <1>2, <1>5, <2>1, <2>2 DEF SetupInv
<1>14. LeadInv(p)' /\ LeadInv(q)'
  BY <1>1, <1>2, <1>4 DEF LeadInv
<1> QED BY <1>7, <1>9, <1>10, <1>11, <1>12, <1>13, <1>14 DEF PairInv

\* The moves that end the part of p in updates.
LEMMA LeavesPair ==
  ASSUME Types, MessageInv, NEW p \in Party, StateInv(p), StateInv(Other(p)), PairInv(p), PairInv(Other(p)),
         \/ \E t, out : OfferClose(p, t, out)
         \/ ForceClose(p) \/ (\E t : SeeBuffer(p, t)) \/ \E k : Close(p, k)
  PROVE  PairInv(p)' /\ PairInv(Other(p))'
<1>1. ASSUME NEW out, NEW new, Turn(p, ch'[p], out, new), \A x \in out : x.type \notin Updates,
             revealed'[p] = revealed[p], ~Active(ch'[p]), ch'[p].ver = ch[p].ver, ch'[p].kind \notin Opening
      PROVE  PairInv(p)' /\ PairInv(Other(p))'
  BY <1>1, TakesNoPart
<1>2. ASSUME NEW t, NEW out, OfferClose(p, t, out) PROVE PairInv(p)' /\ PairInv(Other(p))'
  <2>1. /\ Same(ch[p], ch'[p]) /\ ch[p].kind = "Signed" /\ ch'[p].s.st = "CollaborativeCloseOffered"
        /\ \A x \in out : x.type = "CollaborativeCloseOffer" /\ x.tx = t
        /\ revealed'[p] = revealed[p]
    BY <1>2, OfferCloseFacts DEF Secretive
  <2>2. \A x \in out : x.type \notin Updates
    BY <2>1 DEF Updates, Offering, Accepting, Confirming
  <2>3. ~Active(ch'[p]) /\ ch'[p].ver = ch[p].ver /\ ch'[p].kind \notin Opening
    BY <2>1, Ends DEF Active, Same
  <2>4. Turn(p, ch'[p], out, {})
    BY <1>2, TurnFacts DEF OfferClose
  <2> QED BY <1>1, <2>1, <2>2, <2>3, <2>4
<1>3. ASSUME Same(ch[p], ch'[p]), ch[p].kind = "Signed", ch'[p].s.st = "Closing", revealed'[p] = revealed[p],
             Turn(p, ch'[p], {}, {})
      PROVE  PairInv(p)' /\ PairInv(Other(p))'
  <2>1. ~Active(ch'[p]) /\ ch'[p].ver = ch[p].ver /\ ch'[p].kind \notin Opening
    BY <1>3, Ends DEF Active, Same
  <2> QED BY <1>1, <1>3, <2>1
<1>4. CASE ForceClose(p)
  <2>1. Turn(p, ch'[p], {}, {})
    BY <1>4, TurnFacts DEF ForceClose
  <2> QED BY <1>3, <1>4, <2>1, ForceCloseFacts
<1>5. ASSUME NEW t, SeeBuffer(p, t) PROVE PairInv(p)' /\ PairInv(Other(p))'
  <2>1. Turn(p, ch'[p], {}, {})
    BY <1>5, TurnFacts DEF SeeBuffer
  <2> QED BY <1>3, <1>5, <2>1, SeeBufferFacts
<1>6. ASSUME NEW k, Close(p, k) PROVE PairInv(p)' /\ PairInv(Other(p))'
  <2>1. Turn(p, ch'[p], {}, {})
    BY <1>6, TurnFacts DEF Close
  <2>2. ch'[p].kind \in ClosedKinds /\ ch'[p].ver = ch[p].ver /\ revealed'[p] = revealed[p]
    BY <1>6, CloseFacts
  <2>3. ~Active(ch'[p]) /\ ch'[p].kind \notin Opening
    BY <2>2, Ends DEF Active
  <2> QED BY <1>1, <2>1, <2>2, <2>3
<1> QED BY <1>2, <1>4, <1>5, <1>6

-----------------------------------------------------------------------------
(* The moves of an update, before anything is confirmed.                   *)

LEMMA SteadyPair ==
  ASSUME Types, MessageInv, NEW p \in Party, StateInv(p), StateInv(Other(p)), PairInv(p), PairInv(Other(p)),
         NEW out, Turn(p, ch'[p], out, {}), Same(ch[p], ch'[p]), Active(ch[p]),
         ch[p].s.st \notin Waits, ch[p].s.st \notin HasAccepted,
         ch'[p].s.st \in StableStates \union Updating, ch'[p].s.st \notin Waits,
         Current(ch'[p]) = Current(ch[p]), revealed'[p] = revealed[p],
         \A x \in out : x.type \in Updates => x.to = Other(p) /\ Says(x, ch[Other(p)], ch'[p]),
         Received(ch'[p].s) => ch'[p].s.tx.o <= ch[Other(p)].ver + 1,
         ch[Other(p)].kind \in Opening =>
             FirstSteps(ch'[p]) /\ \A x \in out : x.type \in Updates => x.type \in Offering
  PROVE  PairInv(p)' /\ PairInv(Other(p))'
<1> DEFINE q == Other(p)
           c == ch[p]
           d == ch[q]
           e == ch'[p]
<1>1. e.kind = "Signed" /\ e.ver = c.ver /\ c.ver \in Nat /\ Active(e)
  BY Numbers DEF Same, Active
<1>2. c.s.st \notin HasConfirmed /\ c.s.st # "RenewFinalized"
  BY Stages
<1>3. Goes(c, e, d)
  BY <1>1, <1>2 DEF Goes
<1>4. Active(d) => Together(e, d)
  BY <1>1, SteadyTogether DEF PairInv, TogetherInv
<1>5. EndInv(p)'
  BY <1>1, <1>2, EndStays DEF PairInv
<1> QED BY <1>1, <1>3, <1>4, <1>5, GoOn

LEMMA ProposePair ==
  ASSUME Types, MessageInv, NEW p \in Party, StateInv(p), StateInv(Other(p)), PairInv(p), PairInv(Other(p)),
         NEW s, NEW out, Propose(p, s, out)
  PROVE  PairInv(p)' /\ PairInv(Other(p))'
<1> DEFINE q == Other(p)
           c == ch[p]
           e == ch'[p]
<1>1. /\ Same(c, e) /\ e.s = s /\ e.rb = c.s /\ c.kind = "Signed"
      /\ c.s.st \in StableStates /\ s.st \in {"SettledOffered", "RenewOffered"}
      /\ (s.offer <=> s.st = "RenewOffered") /\ s.tx.o = c.ver + 1
      /\ \A x \in out : x.to = q /\ x.type = OfferOf(s.st) /\ x.tx = s.tx
      /\ revealed'[p] = revealed[p]
  BY ProposeFacts DEF Secretive
<1>2. Turn(p, e, out, {})
  BY TurnFacts DEF Propose
<1>3. Active(c) /\ e.ver = c.ver /\ Current(c) = c.s.tx
  BY <1>1 DEF Active, Same, Current
<1>4. e.s.st \notin Waits /\ e.s.st \in Updating /\ e.s.st \notin StableStates
  BY <1>1, Stages
<1>5. Current(e) = Current(c)
  BY <1>1, <1>3, <1>4 DEF Current
<1>6. ~Received(e.s)
  BY <1>1 DEF Received
<1>7. \A x \in out : x.type \in Offering /\ x.type \notin Accepting /\ x.type \notin Confirming
  BY <1>1 DEF OfferOf, Offering, Accepting, Confirming
<1>8. \A x \in out : Says(x, ch[q], e)
  <2>1. c.ver \in Nat
    BY Numbers
  <2>2. \A x \in out : x.tx.o <= e.ver + 1
    BY <1>1, <1>3, <2>1
  <2> QED BY <1>7, <2>2 DEF Says
<1>9. ch[q].kind \in Opening => FirstSteps(e)
  BY <1>1, <1>3, <1>5, <1>6, Parties DEF PairInv, SetupInv, FirstSteps
<1> QED BY <1>1, <1>2, <1>3, <1>4, <1>5, <1>6, <1>7, <1>8, <1>9, Stages, SteadyPair

\* Messages come from a party that has signed, if they are not its first offers.
LEMMA OtherHasSigned ==
  ASSUME NEW p \in Party, PairInv(Other(p)), NEW m \in msgs, m.to = p, m.type \in Updates
  PROVE  ch[Other(p)].kind \notin Opening
<1>1. Other(p) # p
  BY Parties
<1> QED BY <1>1 DEF PairInv, SetupInv

LEMMA GetOfferPair ==
  ASSUME Types, MessageInv, NEW p \in Party, StateInv(p), StateInv(Other(p)), PairInv(p), PairInv(Other(p)),
         NEW m, NEW s, GetOffer(p, m, s)
  PROVE  PairInv(p)' /\ PairInv(Other(p))'
<1> DEFINE q == Other(p)
           c == ch[p]
           e == ch'[p]
<1>1. /\ Same(c, e) /\ e.s = s /\ e.rb = c.s /\ c.kind = "Signed"
      /\ c.s.st \in StableStates /\ s.st \in {"SettledReceived", "RenewOffered"}
      /\ m \in msgs /\ m.to = p /\ s.tx = m.tx /\ m.type \in {"SettleOffer", "RenewOffer"}
      /\ revealed'[p] = revealed[p]
  BY GetOfferFacts DEF Secretive
<1>2. Turn(p, e, {}, {})
  BY TurnFacts DEF GetOffer
<1>3. Active(c) /\ e.ver = c.ver /\ Current(c) = c.s.tx
  BY <1>1 DEF Active, Same, Current
<1>4. e.s.st \notin Waits /\ e.s.st \in Updating /\ e.s.st \notin StableStates
  BY <1>1, Stages
<1>5. Current(e) = Current(c)
  BY <1>1, <1>3, <1>4 DEF Current
<1>6. m.type \in Offering /\ m.type \in Updates
  BY <1>1 DEF Offering, Updates
<1>7. e.s.tx.o <= ch[q].ver + 1
  BY <1>1, <1>6 DEF PairInv, SaidInv, Says
<1>8. ch[q].kind \notin Opening
  BY <1>1, <1>6, OtherHasSigned
<1> QED BY <1>1, <1>2, <1>3, <1>4, <1>5, <1>7, <1>8, Stages, SteadyPair

LEMMA WithdrawPair ==
  ASSUME Types, MessageInv, NEW p \in Party, StateInv(p), StateInv(Other(p)), PairInv(p), PairInv(Other(p)),
         NEW out, Withdraw(p, out)
  PROVE  PairInv(p)' /\ PairInv(Other(p))'
<1> DEFINE q == Other(p)
           c == ch[p]
           e == ch'[p]
<1>1. /\ Same(c, e) /\ e.s = c.rb /\ c.kind = "Signed"
      /\ c.s.st \in {"SettledOffered", "SettledReceived", "RenewOffered"} /\ c.s.st \in Updating
      /\ revealed'[p] = revealed[p]
  BY WithdrawFacts DEF Secretive
<1>2. Turn(p, e, out, {}) /\ \A x \in out : x.type = "Reject"
  BY TurnFacts DEF Withdraw
<1>3. Active(c) /\ e.ver = c.ver /\ c.s.st \notin StableStates /\ c.s.st \notin Waits /\ c.s.st \notin HasAccepted
  BY <1>1, Stages DEF Active, Same
<1>4. c.rb.st \in StableStates
  BY <1>1 DEF StateInv, Replaces
<1>5. Current(e) = Current(c) /\ e.s.st \in StableStates
  BY <1>1, <1>3, <1>4 DEF Current
<1>6. ~Received(e.s)
  BY <1>5 DEF Received, StableStates
<1>7. \A x \in out : x.type \notin Updates
  BY <1>2 DEF Updates, Offering, Accepting, Confirming
<1>8. ch[q].kind \in Opening => FirstSteps(e)
  BY <1>3, <1>5, <1>6, Parties DEF PairInv, SetupInv, FirstSteps
<1> QED BY <1>1, <1>2, <1>3, <1>5, <1>6, <1>7, <1>8, Stages, SteadyPair

LEMMA AcceptPair ==
  ASSUME Types, MessageInv, NEW p \in Party, StateInv(p), StateInv(Other(p)), PairInv(p), PairInv(Other(p)),
         NEW s, NEW out, Accept(p, s, out)
  PROVE  PairInv(p)' /\ PairInv(Other(p))'
<1> DEFINE q == Other(p)
           c == ch[p]
           e == ch'[p]
<1>1. /\ Same(c, e) /\ e.s = s /\ e.rb = c.rb /\ c.kind = "Signed" /\ Received(c.s) /\ c.s.st \in Updating
      /\ s.st = (IF c.s.st = "SettledReceived" THEN "SettledAccepted" ELSE "RenewAccepted")
      /\ s.tx.o = c.s.tx.o
      /\ \A x \in out : x.to = q /\ x.type = AcceptOf(s.st) /\ x.tx = s.tx
      /\ revealed'[p] = revealed[p]
  BY AcceptFacts DEF Secretive
<1>2. Turn(p, e, out, {})
  BY TurnFacts DEF Accept
<1>3. /\ Active(c) /\ e.ver = c.ver
      /\ c.s.st \notin StableStates /\ c.s.st \notin Waits /\ c.s.st \notin HasAccepted
  BY <1>1, Stages DEF Active, Same, Received
<1>4. e.s.st \in HasAccepted
  BY <1>1 DEF HasAccepted
<1>5. e.s.st \notin Waits /\ e.s.st \in Updating /\ e.s.st \notin StableStates
  BY <1>4, Stages
<1>6. Current(e) = Current(c)
  BY <1>1, <1>3, <1>5 DEF Current
<1>7. ~Received(e.s)
  BY <1>1 DEF Received
<1>8. \A x \in out : x.type \in Accepting /\ x.type \notin Offering /\ x.type \notin Confirming
  BY <1>1 DEF AcceptOf, Offering, Accepting, Confirming
<1>9. s.tx.o <= ch[q].ver + 1
  BY <1>1, <1>3 DEF PairInv, ReceivedInv
<1>10. \A x \in out : Says(x, ch[q], e)
  BY <1>1, <1>4, <1>8, <1>9 DEF Says, AcceptFits
<1>11. ch[q].kind \notin Opening
  BY <1>1, <1>3, Parties DEF PairInv, SetupInv, FirstSteps
<1> QED BY <1>1, <1>2, <1>3, <1>5, <1>6, <1>7, <1>10, <1>11, SteadyPair

-----------------------------------------------------------------------------
(* The moves of an update, from the confirmation on.                       *)

LEMMA ConfirmPair ==
  ASSUME Types, MessageInv, NEW p \in Party, StateInv(p), StateInv(Other(p)), PairInv(p), PairInv(Other(p)),
         NEW m, NEW s, NEW out, Confirm(p, m, s, out)
  PROVE  PairInv(p)' /\ PairInv(Other(p))'
<1> DEFINE q == Other(p)
           c == ch[p]
           d == ch[q]
           e == ch'[p]
<1>1. /\ Same(c, e) /\ e.s = s /\ e.rb = c.rb /\ c.kind = "Signed" /\ c.s.st \in Updating
      /\ c.s.st \in {"SettledOffered", "RenewOffered"} /\ s.st \in HasConfirmed
      /\ m \in msgs /\ s.tx = m.tx /\ s.tx \in Tx /\ s.tx.o = c.s.tx.o
      /\ m.type \in {"SettleAccept", "RenewAccept"}
      /\ \A x \in revealed'[p] : x \in revealed[p] \/ x \in out
  BY ConfirmFacts DEF HasConfirmed
<1>2. Turn(p, e, out, {}) /\ m.to = p /\ Offers(c.s)
  BY TurnFacts DEF Confirm
<1>3. \A x \in out : x.type \in Confirming /\ x.to = q /\ x.tx = m.tx
  <2>1. out = Out("SettleConfirm", p, m.tx, c.ver) \/ out = Out("RenewConfirm", p, m.tx, 0)
    BY ConfirmFacts
  <2> QED BY <2>1, Answers DEF Confirming
<1>4. c.ver \in Nat /\ d.ver \in Nat
  BY Numbers, Parties
<1>5. c.s.tx.o = c.ver + 1
  BY <1>1, <1>2 DEF StateInv, Fits
<1>6. /\ Active(c) /\ e.ver = c.ver /\ e.kind = "Signed" /\ c.s.st \notin StableStates
      /\ c.s.st \notin Waits /\ c.s.st \notin HasAccepted /\ c.s.st \notin HasConfirmed
      /\ c.s.st # "RenewFinalized"
  BY <1>1, Stages DEF Active, Same
<1>7. e.s.st \in Updating /\ e.s.st \notin StableStates
  BY <1>1, Stages
<1>8. Active(e) /\ Current(e) = Current(c)
  BY <1>1, <1>6, <1>7 DEF Active, Current
<1>9. m.type \in Accepting /\ m.type \in Updates
  BY <1>1 DEF Accepting, Updates
<1>10. Active(d) => Together(e, d) /\ m.tx.o = m.tx.a
  <2> SUFFICES ASSUME Active(d) PROVE Together(e, d) /\ m.tx.o = m.tx.a
    OBVIOUS
  <2>1. AcceptFits(m.tx, c, d)
    BY <1>1, <1>2, <1>6, <1>9 DEF PairInv, SaidInv, Says
  <2>2. Together(c, d)
    BY <1>6 DEF PairInv, TogetherInv
  <2>3. d.s.st \in HasAccepted => d.s.tx.a = d.ver + 1
    BY NextPoints, Parties
  <2>4. m.tx.o = c.ver + 1 /\ e.s.tx = m.tx /\ e.s.st \in HasConfirmed
    BY <1>1, <1>5
  <2> HIDE DEF c, d, e
  <2> QED BY <1>4, <1>6, <1>8, <2>1, <2>2, <2>3, <2>4, ConfirmTogether
<1>11. Goes(c, e, d)
  BY <1>4, <1>6 DEF Goes
<1>12. \A x \in out : Says(x, d, e)
  <2>1. \A x \in out : x.type \notin Offering /\ x.type \notin Accepting
    BY <1>3 DEF Offering, Accepting, Confirming
  <2>2. Active(d) => ConfirmFits(m.tx, e)
    BY <1>1, <1>10 DEF ConfirmFits
  <2> QED BY <1>3, <2>1, <2>2 DEF Says
<1>13. ~Received(e.s)
  BY <1>1 DEF Received, HasConfirmed
<1>14. EndInv(p)'
  BY <1>1, <1>3, <1>6, EndStays DEF PairInv
<1>15. d.kind \notin Opening
  BY <1>1, <1>2, <1>9, OtherHasSigned
<1> QED BY <1>2, <1>3, <1>8, <1>10, <1>11, <1>12, <1>13, <1>14, <1>15, GoOn

\* A version ends for p.
LEMMA PassPair ==
  ASSUME Types, MessageInv, NEW p \in Party, StateInv(p), StateInv(Other(p)), PairInv(p), PairInv(Other(p)),
         SecretInv(p), NEW out, NEW new, Turn(p, ch'[p], out, new), Active(ch[p]),
         ch'[p].kind = "Signed", ch'[p].ver = ch[p].ver + 1, ch'[p].s.st \in StableStates,
         Active(ch[Other(p)]) => Together(ch'[p], ch[Other(p)]),
         ch[p].s.st \in HasAccepted /\ Active(ch[Other(p)]) => ch[Other(p)].s.st \in Waits,
         \A x \in out : x.to = Other(p) /\ x.type \in {"SettleFinalize", "RenewRevoke"},
         \A x \in revealed'[p] : x \in revealed[p] \/ x.sec = ch[p].ver,
         NEW m \in msgs, m.to = p, m.type \in Updates
  PROVE  PairInv(p)' /\ PairInv(Other(p))'
<1>1. ch[p].ver \in Nat /\ ch'[p].ver \in Nat
  BY Numbers
<1>2. Goes(ch[p], ch'[p], ch[Other(p)])
  BY <1>1, NextPoints DEF Goes
<1>3. Active(ch'[p]) /\ ~Received(ch'[p].s)
  BY DEF Active, Received, StableStates
<1>4. EndInv(p)'
  BY EndPasses
<1>5. ch[Other(p)].kind \notin Opening
  BY OtherHasSigned
<1>6. \A x \in out : Says(x, ch[Other(p)], ch'[p])
  BY DEF Says, Offering, Accepting, Confirming
<1> QED BY <1>2, <1>3, <1>4, <1>5, <1>6, GoOn

\* The other party is ahead when it gave the current secret away.
LEMMA OtherIsAhead ==
  ASSUME Types, NEW p \in Party, StateInv(p), StateInv(Other(p)), TogetherInv(p),
         Active(ch[p]), Active(ch[Other(p)]), ch[p].s.st \in Waits,
         NEW k \in Nat, k < ch[Other(p)].ver,
         k = IF ch[p].s.st = "RenewFinalized" THEN ch[p].prev ELSE ch[p].ctr
  PROVE  Ahead(ch[Other(p)], ch[p])
<1> DEFINE q == Other(p)
<1>1. q \in Party /\ ch[q].ver \in Nat
  BY Parties, SecretTypes
<1>2. Point(q, Current(ch[p])) = k /\ Point(q, Current(ch[q])) = ch[q].ver
  BY <1>1, CurrentPoints
<1>3. ~Level(ch[p], ch[q])
  BY <1>1, <1>2 DEF Level
<1>4. ~Ahead(ch[p], ch[q])
  BY DEF Ahead
<1> QED BY <1>3, <1>4 DEF TogetherInv, Together

\* A secret that ends an update comes from what the other party gave away.
LEMMA FromOther ==
  ASSUME Types, MessageInv, NEW p \in Party, PairInv(Other(p)), NEW m \in msgs, m.to = p
  PROVE  /\ m.sec \in Nat
         /\ m.type \in {"SettleFinalize", "RenewRevoke"} => m.sec < ch[Other(p)].ver
         /\ m.type = "RenewFinalize" /\ Active(ch[Other(p)]) =>
               \/ m.sec < ch[Other(p)].ver
               \/ ch[Other(p)].s.st = "RenewFinalized" /\ ch[Other(p)].s.tx = m.tx
<1>1. m.sec \in Nat
  BY Indices DEF Types, TypeOK, Msg
<1>2. m.type \in {"SettleFinalize", "RenewRevoke", "RenewFinalize"} => m \in revealed[Other(p)]
  BY DEF MessageInv, Reveals
<1> QED BY <1>1, <1>2 DEF PairInv, EndInv

LEMMA SettlePair ==
  ASSUME Types, MessageInv, NEW p \in Party, StateInv(p), StateInv(Other(p)), PairInv(p), PairInv(Other(p)),
         SecretInv(p), NEW m, NEW out, Settle(p, m, out)
  PROVE  PairInv(p)' /\ PairInv(Other(p))'
<1> DEFINE q == Other(p)
           c == ch[p]
           d == ch[q]
           e == ch'[p]
<1>1. /\ e.kind = "Signed" /\ c.kind = "Signed" /\ e.ver = c.ver + 1 /\ e.s.st = "Settled"
      /\ e.s.tx = c.s.tx /\ c.s.st \in {"SettledAccepted", "SettledConfirmed"}
      /\ m \in msgs /\ m.to = p /\ m.sec = c.ctr
      /\ \/ c.s.st = "SettledAccepted" /\ m.type = "SettleConfirm" /\ m.tx = c.s.tx
         \/ c.s.st = "SettledConfirmed" /\ m.type = "SettleFinalize"
      /\ out \in {{}, Out("SettleFinalize", p, NoTx, c.ver)}
      /\ \A x \in revealed'[p] : x \in revealed[p] \/ x \in out
  BY SettleFacts
<1>2. Turn(p, e, out, {})
  BY TurnFacts DEF Settle
<1>3. \A x \in out : x.to = q /\ x.type = "SettleFinalize" /\ x.sec = c.ver
  BY <1>1, Sent
<1>4. c.ver \in Nat /\ d.ver \in Nat
  BY Numbers, Parties
<1>5. Active(c)
  BY <1>1 DEF Active, Updating, SettleStates, RenewStates
<1>6. m.type \in Updates
  BY <1>1 DEF Updates, Confirming
<1>7. e.s.st \in StableStates
  BY <1>1 DEF StableStates
<1>8. ASSUME Active(d), c.s.st = "SettledAccepted" PROVE Together(e, d) /\ d.s.st \in Waits
  <2>1. m.type \in Confirming /\ m.tx = c.s.tx /\ c.s.st \in HasAccepted
    BY <1>1, <1>8 DEF Confirming, HasAccepted
  <2>2. ConfirmFits(m.tx, d)
    BY <1>1, <1>5, <1>8, <2>1 DEF PairInv, SaidInv, Says
  <2>3. Together(c, d)
    BY <1>5, <1>8 DEF PairInv, TogetherInv
  <2>4. c.s.tx.a = c.ver + 1 /\ (d.s.st \in HasConfirmed => d.s.tx.o = d.ver + 1)
    BY <1>5, <1>8, <2>1, NextPoints, Parties
  <2>5. Level(c, d) /\ d.s.st \in HasConfirmed /\ d.s.tx = c.s.tx
    BY <1>4, <2>1, <2>2, <2>3, <2>4, ConfirmedByOther
  <2> QED BY <1>1, <1>7, <2>5, Stages, FirstTogether DEF Level
<1>9. ASSUME Active(d), c.s.st = "SettledConfirmed" PROVE Together(e, d) /\ c.s.st \notin HasAccepted
  <2>1. m.type = "SettleFinalize" /\ m.sec = c.ctr /\ c.s.st \in Waits /\ c.s.st # "RenewFinalized"
    BY <1>1, <1>9 DEF Waits, HasConfirmed
  <2>2. m.sec \in Nat /\ m.sec < d.ver
    BY <1>1, <2>1, FromOther
  <2>3. Ahead(d, c)
    BY <1>5, <1>9, <2>1, <2>2, OtherIsAhead DEF PairInv
  <2> QED BY <1>1, <1>4, <1>7, <1>9, <2>3, LastTogether DEF HasAccepted
<1> QED BY <1>1, <1>2, <1>3, <1>5, <1>6, <1>7, <1>8, <1>9, PassPair

LEMMA FinalizePair ==
  ASSUME Types, MessageInv, NEW p \in Party, StateInv(p), StateInv(Other(p)), PairInv(p), PairInv(Other(p)),
         NEW m, NEW out, Finalize(p, m, out)
  PROVE  PairInv(p)' /\ PairInv(Other(p))'
<1> DEFINE q == Other(p)
           c == ch[p]
           d == ch[q]
           e == ch'[p]
           t == c.s.tx
<1>1. /\ e.kind = "Signed" /\ c.kind = "Signed" /\ e.ver = c.ver /\ e.s.st = "RenewFinalized"
      /\ e.s.tx = t /\ e.rb = c.rb /\ c.s.st = "RenewAccepted"
      /\ m \in msgs /\ m.to = p /\ m.type = "RenewConfirm" /\ m.tx = t
      /\ out \in {{}, Out("RenewFinalize", p, t, c.ver)}
      /\ \A x \in revealed'[p] : x \in revealed[p] \/ x \in out
  BY FinalizeFacts
<1>2. Turn(p, e, out, {t})
  BY TurnFacts DEF Finalize
<1>3. \A x \in out : x.to = q /\ x.type = "RenewFinalize" /\ x.sec = c.ver /\ x.tx = t
  BY <1>1, Sent
<1>4. c.ver \in Nat /\ d.ver \in Nat
  BY Numbers, Parties
<1>5. /\ c.s.st \in HasAccepted /\ c.s.st \notin Waits /\ c.s.st \notin HasConfirmed /\ c.s.st \in Updating
      /\ c.s.st \notin StableStates
  BY <1>1, Stages DEF HasAccepted
<1>6. Active(c) /\ Active(e) /\ e.s.st \notin StableStates /\ e.s.st \notin HasConfirmed
  BY <1>1, <1>5, Stages DEF Active, StableStates
<1>7. Current(e) = Current(c)
  BY <1>1, <1>5, <1>6 DEF Current
<1>8. m.type \in Confirming /\ m.type \in Updates
  BY <1>1 DEF Confirming, Updates
<1>9. ASSUME Active(d) PROVE Together(e, d) /\ d.s.st \in Waits
  <2>1. ConfirmFits(t, d)
    BY <1>1, <1>6, <1>8, <1>9 DEF PairInv, SaidInv, Says
  <2>2. Together(c, d)
    BY <1>6, <1>9 DEF PairInv, TogetherInv
  <2>3. t.a = c.ver + 1 /\ (d.s.st \in HasConfirmed => d.s.tx.o = d.ver + 1)
    BY <1>5, <1>6, <1>9, NextPoints, Parties
  <2> HIDE DEF c, d, e
  <2>4. Level(c, d) /\ d.s.st \in HasConfirmed /\ d.s.tx = t
    BY <1>4, <1>5, <2>1, <2>2, <2>3, ConfirmedByOther
  <2>5. Level(e, d)
    BY <1>1, <1>6, <1>7, <2>4, Stages DEF Level, Backed, Finished
  <2> QED BY <2>4, <2>5, Stages DEF Together
<1>10. Goes(c, e, d)
  BY <1>1, <1>4, <1>5, <1>6, <1>9 DEF Goes
<1>11. \A x \in out : Says(x, d, e)
  BY <1>3 DEF Says, Offering, Accepting, Confirming
<1>12. ~Received(e.s)
  BY <1>1 DEF Received
<1>13. EndInv(p)'
  BY <1>1, <1>3, <1>6 DEF PairInv, EndInv
<1>14. d.kind \notin Opening
  BY <1>1, <1>8, OtherHasSigned
<1> QED BY <1>2, <1>3, <1>6, <1>9, <1>10, <1>11, <1>12, <1>13, <1>14, GoOn

LEMMA RenewPair ==
  ASSUME Types, MessageInv, NEW p \in Party, StateInv(p), StateInv(Other(p)), PairInv(p), PairInv(Other(p)),
         SecretInv(p), NEW m, NEW out, Renew(p, m, out)
  PROVE  PairInv(p)' /\ PairInv(Other(p))'
<1> DEFINE q == Other(p)
           c == ch[p]
           d == ch[q]
           e == ch'[p]
<1>1. /\ e.kind = "Signed" /\ c.kind = "Signed" /\ e.ver = c.ver + 1 /\ e.s.st = "Established"
      /\ e.s.tx = c.s.tx /\ c.s.st = "RenewConfirmed"
      /\ m \in msgs /\ m.to = p /\ m.type = "RenewFinalize" /\ m.tx = c.s.tx /\ m.sec = c.ctr
      /\ out \in {{}, Out("RenewRevoke", p, NoTx, c.ver)}
      /\ \A x \in revealed'[p] : x \in revealed[p] \/ x \in out
  BY RenewFacts
<1>2. Turn(p, e, out, {c.s.tx})
  BY TurnFacts DEF Renew
<1>3. \A x \in out : x.to = q /\ x.type = "RenewRevoke" /\ x.sec = c.ver
  BY <1>1, Sent
<1>4. c.ver \in Nat /\ d.ver \in Nat
  BY Numbers, Parties
<1>5. c.s.st \in HasConfirmed /\ c.s.st \in Waits /\ c.s.st \notin HasAccepted /\ c.s.st # "RenewFinalized"
  BY <1>1 DEF HasConfirmed, Waits, HasAccepted
<1>6. Active(c) /\ m.type \in Updates /\ e.s.st \in StableStates
  BY <1>1, <1>5, Stages DEF Active, Updates, StableStates
<1>7. ASSUME Active(d) PROVE Together(e, d)
  <2>1. m.sec \in Nat /\ (m.sec < d.ver \/ (d.s.st = "RenewFinalized" /\ d.s.tx = m.tx))
    BY <1>1, <1>7, FromOther
  <2>2. CASE m.sec < d.ver
    <3>1. Ahead(d, c)
      BY <1>1, <1>5, <1>6, <1>7, <2>1, <2>2, OtherIsAhead DEF PairInv
    <3> QED BY <1>1, <1>4, <1>6, <3>1, LastTogether
  <2>3. CASE d.s.st = "RenewFinalized" /\ d.s.tx = m.tx
    <3>1. ~Ahead(c, d) /\ ~Ahead(d, c)
      BY <1>5, <2>3, Stages DEF Ahead
    <3>2. c.ver = d.ver
      BY <1>6, <1>7, <3>1 DEF PairInv, TogetherInv, Together, Level
    <3> QED BY <1>1, <1>6, <2>3, <3>2, FirstTogether, Stages
  <2> QED BY <2>1, <2>2, <2>3
<1> QED BY <1>1, <1>2, <1>3, <1>5, <1>6, <1>7, PassPair

LEMMA RevokePair ==
  ASSUME Types, MessageInv, NEW p \in Party, StateInv(p), StateInv(Other(p)), PairInv(p), PairInv(Other(p)),
         SecretInv(p), NEW m, Revoke(p, m)
  PROVE  PairInv(p)' /\ PairInv(Other(p))'
<1> DEFINE q == Other(p)
           c == ch[p]
           d == ch[q]
           e == ch'[p]
<1>1. /\ e.kind = "Signed" /\ c.kind = "Signed" /\ e.ver = c.ver + 1 /\ e.s.st = "Established"
      /\ e.s.tx = c.s.tx /\ c.s.st = "RenewFinalized"
      /\ m \in msgs /\ m.to = p /\ m.type = "RenewRevoke" /\ m.sec = c.prev
      /\ revealed'[p] = revealed[p]
  BY RevokeFacts
<1>2. Turn(p, e, {}, {})
  BY TurnFacts DEF Revoke
<1>3. c.ver \in Nat /\ d.ver \in Nat
  BY Numbers, Parties
<1>4. c.s.st \in Waits /\ c.s.st \notin HasAccepted
  BY <1>1, Stages
<1>5. Active(c) /\ m.type \in Updates /\ e.s.st \in StableStates
  BY <1>1 DEF Active, Updates, StableStates
<1>6. ASSUME Active(d) PROVE Together(e, d)
  <2>1. m.sec \in Nat /\ m.sec < d.ver
    BY <1>1, FromOther
  <2>2. Ahead(d, c)
    BY <1>1, <1>4, <1>5, <1>6, <2>1, OtherIsAhead DEF PairInv
  <2> QED BY <1>1, <1>3, <1>5, <2>2, LastTogether
<1>7. PICK out : out = {}
  OBVIOUS
<1>8. /\ Turn(p, e, out, out)
      /\ \A x \in out : x.to = q /\ x.type \in {"SettleFinalize", "RenewRevoke"}
  BY <1>2, <1>7
<1> QED BY <1>1, <1>4, <1>5, <1>6, <1>8, PassPair

-----------------------------------------------------------------------------
(* The two parties agree.                                                  *)

AgreementInv == ChannelsInv /\ \A p \in Party : PairInv(p)

LEMMA MovePair ==
  ASSUME ChannelsInv, NEW p \in Party, PairInv(p), PairInv(Other(p)), Move(p)
  PROVE  PairInv(p)' /\ PairInv(Other(p))'
<1>1. Types /\ MessageInv /\ StateInv(p) /\ StateInv(Other(p)) /\ SecretInv(p)
  BY Parties DEF ChannelsInv, LocalInv
<1> QED BY <1>1, IdlePair, SetupPair, OpenPair, LeavesPair, ProposePair, GetOfferPair, WithdrawPair,
           AcceptPair, ConfirmPair, SettlePair, FinalizePair, RenewPair, RevokePair DEF Move

LEMMA InitPair == Init => \A p \in Party : PairInv(p)
<1> SUFFICES ASSUME Init, NEW p \in Party PROVE PairInv(p)
  OBVIOUS
<1>1. /\ \A q \in Party : ch[q].kind = "None" /\ revealed[q] = {}
      /\ msgs = {} /\ Other(p) \in Party
  BY Parties DEF Init, NoChannel
<1>2. \A q \in Party : ~Active(ch[q])
  BY <1>1 DEF Active
<1> QED BY <1>1, <1>2 DEF PairInv, TogetherInv, SaidInv, ReceivedInv, EndInv, SetupInv, LeadInv, Init, NoChannel

LEMMA StillPair ==
  ASSUME NEW p \in Party, PairInv(p), UNCHANGED <<ch, msgs, revealed>>
  PROVE  PairInv(p)'
  BY DEF PairInv, TogetherInv, SaidInv, ReceivedInv, EndInv, SetupInv, LeadInv

LEMMA NextPair == AgreementInv /\ [Next]_<<vars, scenario>> => AgreementInv'
<1> SUFFICES ASSUME AgreementInv, [Next]_<<vars, scenario>> PROVE AgreementInv'
  OBVIOUS
<1>1. ChannelsInv' /\ ChannelsInv /\ \A p \in Party : PairInv(p)
  BY NextChannels DEF AgreementInv
<1>2. Types /\ MessageInv /\ UseInv /\ OpeningInv /\ \A p \in Party : StateInv(p)
  BY <1>1 DEF ChannelsInv, LocalInv
<1>3. ASSUME UNCHANGED <<ch, msgs, revealed>> PROVE \A p \in Party : PairInv(p)'
  BY <1>1, <1>3, StillPair
<1>4. ASSUME NEW p \in Party, Move(p) PROVE \A q \in Party : PairInv(q)'
  <2>1. PairInv(p)' /\ PairInv(Other(p))'
    BY <1>1, <1>4, MovePair, Parties
  <2>2. \A q \in Party : q = p \/ q = Other(p)
    BY DEF Party, Other
  <2> QED BY <2>1, <2>2
<1>5. CASE Next
  BY <1>2, <1>3, <1>4, <1>5, NextMoves, <1>1 DEF Elsewhere, AgreementInv
<1>6. CASE UNCHANGED <<vars, scenario>>
  BY <1>1, <1>3, <1>6 DEF vars, AgreementInv
<1> QED BY <1>5, <1>6

\* Two parties whose updates are over have the same version and the same
\* transaction to close the channel with, in every scenario: whatever offers cross,
\* are rejected or come again, and whatever a crash drops.  The checks of the
\* states, points and secrets in channel_updater.rs suffice for that.
THEOREM PartiesAgreeWhenStable == Spec => []AgreeWhenStable
<1>1. Init => AgreementInv
  BY InitChannels, InitPair DEF AgreementInv
<1>2. AgreementInv => AgreeWhenStable
  <2> SUFFICES ASSUME AgreementInv, Stable("alice"), Stable("bob")
               PROVE  ch["alice"].ver = ch["bob"].ver /\ ch["alice"].s.tx = ch["bob"].s.tx
    BY DEF AgreeWhenStable
  <2> DEFINE c == ch["alice"]
             d == ch["bob"]
  <2>1. c.kind = "Signed" /\ d.kind = "Signed" /\ c.s.st \in StableStates /\ d.s.st \in StableStates
    BY DEF Stable, In, StableStates
  <2>2. Active(c) /\ Active(d) /\ Other("alice") = "bob"
    BY <2>1 DEF Active, Other
  <2>3. Together(c, d)
    BY <2>2, Parties DEF AgreementInv, PairInv, TogetherInv
  <2>4. Level(c, d)
    BY <2>1, <2>3, Stages DEF Together, Ahead
  <2> QED BY <2>1, <2>4 DEF Level, Current
<1> QED BY <1>1, <1>2, NextPair, PTL DEF Spec

=============================================================================
