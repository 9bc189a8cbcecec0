----------------------------- MODULE SerialOrder -----------------------------
(***************************************************************************)
(* The order of inputs and outputs by their serial ids                     *)
(* (util::order_by_serial_ids of dlc/src/util.rs).                         *)
(***************************************************************************)
EXTENDS Integers, FiniteSets

\* A stable sort.  The place of an element is after those that come before it.
Place(ids, i) ==
  1 + Cardinality({j \in DOMAIN ids : ids[j] < ids[i] \/ (ids[j] = ids[i] /\ j < i)})
OrderBySerialIds(s, ids) ==
  [k \in DOMAIN s |-> s[CHOOSE i \in DOMAIN s : Place(ids, i) = k]]

=============================================================================
