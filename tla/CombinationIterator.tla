------------------------ MODULE CombinationIterator ------------------------
(***************************************************************************)
(* The iterator over the combinations of nb_selected out of nb_elements    *)
(* oracles (dlc-trie/src/combination_iterator.rs).  Elements are numbered  *)
(* from 0 as in the code, positions of a sequence from 1.                  *)
(*                                                                         *)
(* The place of a combination in this order is the place of its adaptor    *)
(* signature in the messages of the protocol: both parties must draw the   *)
(* same order, and the closing party must find the place again from the    *)
(* oracles that attested.                                                  *)
(***************************************************************************)
EXTENDS Integers, Sequences, FiniteSets, FiniteSetsExt, SequencesExt

FirstSelector(k) == [i \in 1..k |-> i - 1]

(* CombinationIterator::next on a selector: the last position that can     *)
(* still move moves, the ones after it follow on its heels.                *)
NextSelector(n, sel) ==
    LET k == Len(sel)
        movable == {i \in 1..k : sel[i] # n - 1 - (k - i)} \cup {1}
        cur == Max(movable)
    IN  [i \in 1..k |-> IF i < cur THEN sel[i] ELSE sel[cur] + 1 + (i - cur)]

(* The combinations in the order in which the iterator yields them.        *)
Combinations(n, k) ==
    LET extend(acc) ==
            LET next == NextSelector(n, Last(acc))
            IN  IF next[1] = n - k + 1 THEN acc ELSE Append(acc, next)
        yielded[i \in Nat] == IF i = 0 THEN <<FirstSelector(k)>> ELSE extend(yielded[i - 1])
    IN  yielded[Cardinality(kSubset(k, 1..n))]

(* Mutant: the first combination that starts with the same element.        *)
IndexForCombinationByFirst(n, k, combination) ==
    LET all == Combinations(n, k)
        fits == {i \in DOMAIN all : all[i][1] = combination[1]}
    IN  IF fits = {} THEN 0 ELSE Min(fits)

(* get_index_for_combination: the place of a selector, 0 when it is not    *)
(* one the iterator yields, as when its elements are not in order.         *)
IndexForCombination(n, k, combination) ==
    LET all == Combinations(n, k)
    IN  IF combination \in ToSet(all)
        THEN CHOOSE i \in DOMAIN all : all[i] = combination
        ELSE 0

=============================================================================
