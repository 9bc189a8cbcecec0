-------------------------- MODULE MCPostgresStore --------------------------
(***************************************************************************)
(* A small instance of PostgresStore: two tasks of the manager work on one *)
(* contract under its temporary and its final identifier, and offer one of *)
(* their own, while the actor of the wallet persists its change sets.      *)
(***************************************************************************)
EXTENDS PostgresStore

CONSTANTS temp, final, own, ext, t1, b1

MCIds == {temp, final, own}
MCOwnOffers == {own}
MCKeychains == {ext}
MCTxs == {t1}
MCHashes == {b1}
MCHeights == {1}

Update(id, state) == [kind |-> "update", id |-> id, temp |-> temp, state |-> state]

MCContractOps ==
    {[kind |-> "create", id |-> temp], [kind |-> "create", id |-> own],
     [kind |-> "delete", id |-> final],
     Update(temp, "Rejected"), Update(final, "Accepted")}

NoChange ==
    [descriptors |-> {}, revealed |-> [k \in Keychains |-> 0], spks |-> {}, heights |-> {},
     blocks |-> [h \in Heights |-> None], txs |-> {}, last_seen |-> [t \in Txs |-> 0],
     first_seen |-> [t \in Txs |-> 0], last_evicted |-> [t \in Txs |-> 0], anchors |-> {}]

(* The wallet is created and reveals addresses; a transaction is seen,     *)
(* confirmed, and loses its block to a reorganisation; an older change set *)
(* arrives late.                                                           *)
Created == [NoChange EXCEPT !.descriptors = {ext}, !.spks = {ext}, !.revealed[ext] = 2]
Late == [NoChange EXCEPT !.revealed[ext] = 1, !.last_seen[t1] = 1, !.first_seen[t1] = 1]
Seen == [NoChange EXCEPT !.txs = {t1}, !.last_seen[t1] = 2, !.first_seen[t1] = 2]
Mined == [NoChange EXCEPT !.heights = {1}, !.blocks = [h \in Heights |-> b1],
                          !.anchors = {<<t1, b1>>}]
Reorganised == [NoChange EXCEPT !.heights = {1}, !.last_evicted[t1] = 2]

MCWalletOps == {[kind |-> "write", changes |-> cs] : cs \in {Created, Late, Seen, Mined, Reorganised}}
=============================================================================
