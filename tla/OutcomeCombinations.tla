------------------------- MODULE OutcomeCombinations -------------------------
(***************************************************************************)
(* Which outcomes of several oracles settle a contract as one outcome of   *)
(* the first of them does (dlc-trie/src/multi_oracle.rs): those within     *)
(* 2^min_support_exp of it must, those 2^max_error_exp away must not.      *)
(*                                                                         *)
(* Digits are binary, prefixes are sequences of digits; the first element  *)
(* of oracle_digits_infos is the smallest number of digits.                *)
(***************************************************************************)
EXTENDS DigitDecomposition

(* pre_pad_vec                                                             *)
PrePad(input, size) == [i \in 1..(size - Len(input)) |-> 0] \o input

(* adjust_prefix_size succeeds when only zeros would be cut off.           *)
SizeAdjusts(prefix, size) ==
    \A i \in 1..(Len(prefix) - size) : prefix[i] = 0

AdjustPrefixSize(prefix, size) ==
    IF Len(prefix) <= size THEN PrePad(prefix, size)
    ELSE SubSeq(prefix, Len(prefix) - size + 1, Len(prefix))

(* compute_interval_from_prefix: its first and its last number.            *)
IntervalStart(prefix, nb_digits) ==
    ComposeValue(prefix, 2) * 2^(nb_digits - Len(prefix))

IntervalEnd(prefix, nb_digits) ==
    IntervalStart(prefix, nb_digits) + 2^(nb_digits - Len(prefix)) - 1

(* num_to_vec                                                              *)
NumToVec(input, nb_digits, ignored) ==
    SubSeq(DecomposeValue(input, 2, nb_digits), 1, nb_digits - ignored)

(* compute_min_support_covering_prefix                                     *)
MinSupportCoveringPrefix(start, end, min_support, nb_digits) ==
    CommonPrefix(DecomposeValue(start - min_support, 2, nb_digits),
                 DecomposeValue(end + min_support, 2, nb_digits))

(* compute_left_covering_prefix (digit 1, start - min_support) and         *)
(* compute_right_covering_prefix (digit 0, end + min_support): the bound's *)
(* digits above max_error_exp, and those below as long as they are digit.  *)
CoveringPrefix(bound, digit, max_error_exp, nb_digits) ==
    LET digits == DecomposeValue(bound, 2, nb_digits)
        other == {i \in (nb_digits - max_error_exp + 1)..nb_digits : digits[i] # digit}
    IN  SubSeq(digits, 1, Min(other \cup {nb_digits + 1}) - 1)

(* Each prefix as long as its oracle's digits ask for, all of them cut at  *)
(* the same place below.                                                   *)
Fits(prefixes, infos, length) ==
    \A k \in DOMAIN infos : SizeAdjusts(prefixes[k], infos[k] + Len(prefixes[k]) - length)

Adjusted(prefixes, infos, length) ==
    [k \in DOMAIN infos |-> AdjustPrefixSize(prefixes[k], infos[k] + Len(prefixes[k]) - length)]

(* single_covering_prefix_combinations; length is the main digit count.    *)
SingleCovering(main, secondary, infos, length) ==
    << Adjusted([k \in DOMAIN infos |-> IF k = 1 THEN main ELSE secondary], infos, length) >>

(* Vec's order: at the first difference, or the shorter one first.         *)
LexLeq(a, b) ==
    LET n == Len(CommonPrefix(a, b))
    IN  \/ n = Len(a)
        \/ n < Len(b) /\ a[n + 1] < b[n + 1]

Bit(i, j) == (i \div 2^j) % 2

(* double_covering_prefix_combinations: the main prefix with the lower or  *)
(* the higher of the two others for each other oracle, in that order; the  *)
(* combinations an oracle has too few digits for are left out.             *)
DoubleCovering(main, left, right, infos, length) ==
    LET first == IF LexLeq(left, right) THEN left ELSE right
        second == IF LexLeq(left, right) THEN right ELSE left
        all == [i \in 1..2^(Len(infos) - 1) |->
                  [k \in DOMAIN infos |->
                     IF k = 1 THEN main
                     ELSE IF Bit(i - 1, Len(infos) - k) = 0 THEN first ELSE second]]
        fitting == SelectSeq(all, LAMBDA c : Fits(c, infos, length))
    IN  [i \in DOMAIN fitting |-> Adjusted(fitting[i], infos, length)]

(* double_covering_restricted_prefix_combinations: without the one that    *)
(* has the main prefix everywhere.                                         *)
DoubleCoveringRestricted(main, other, infos, length) ==
    LET all == DoubleCovering(main, main, other, infos, length)
    IN  IF LexLeq(main, other) THEN Tail(all) ELSE Front(all)

-----------------------------------------------------------------------------
(* An interval shorter than the maximum error lies in one block of that    *)
(* length; how near it is to the ends of the block decides which prefixes  *)
(* the other oracles may report.  p: max_error_exp, min_support_exp,       *)
(* maximize_coverage.                                                      *)
WithinBlock(main, infos, n, p) ==
    LET start == IntervalStart(main, n)
        end == IntervalEnd(main, n)
        max_error == 2^p.max_error_exp
        min_support == 2^p.min_support_exp
        left_bound == (start \div max_error) * max_error
        right_bound == left_bound + max_error - 1
        error_prefix == NumToVec(left_bound, n, p.max_error_exp)
        wide(number) == NumToVec(number, n, p.max_error_exp - 1)
        rightwards == CoveringPrefix(end + min_support, 0, p.max_error_exp, n)
        leftwards == CoveringPrefix(start - min_support, 1, p.max_error_exp, n)
    IN  IF start - left_bound >= min_support /\ end <= right_bound - min_support
        THEN SingleCovering(main,
                IF p.maximize_coverage THEN error_prefix
                ELSE MinSupportCoveringPrefix(start, end, min_support, n), infos, n)
        ELSE IF start - left_bound < min_support
        THEN LET right == IF p.maximize_coverage THEN error_prefix ELSE rightwards
                 left == IF p.maximize_coverage
                         THEN wide(left_bound - max_error \div 2) ELSE leftwards
             IN  IF left_bound = 0 THEN SingleCovering(main, right, infos, n)
                 ELSE DoubleCovering(main, right, left, infos, n)
        ELSE LET left == IF p.maximize_coverage THEN error_prefix ELSE leftwards
                 right == IF p.maximize_coverage THEN wide(right_bound + 1) ELSE rightwards
             IN  IF right_bound = 2^n - 1 THEN SingleCovering(main, left, infos, n)
                 ELSE DoubleCovering(main, left, right, infos, n)

(* Across the end of a longer interval: inside is the first or the last    *)
(* number of it, outside its neighbour.                                    *)
AcrossTheEnd(inside, outside, infos, n, p) ==
    LET ignored == IF p.maximize_coverage THEN p.max_error_exp - 1 ELSE p.min_support_exp
    IN  DoubleCoveringRestricted(NumToVec(inside, n, ignored),
                                 NumToVec(outside, n, ignored), infos, n)

(* Mutant: the outcomes above a long interval are forgotten.               *)
AroundWithoutEnd(main, infos, n, p) ==
    LET start == IntervalStart(main, n)
    IN  (IF start = 0 THEN <<>> ELSE AcrossTheEnd(start, start - 1, infos, n, p))
        \o SingleCovering(main, main, infos, n)

(* A longer interval: all the oracles in it, or some of them just outside. *)
Around(main, infos, n, p) ==
    LET start == IntervalStart(main, n)
        end == IntervalEnd(main, n)
    IN  (IF start = 0 THEN <<>> ELSE AcrossTheEnd(start, start - 1, infos, n, p))
        \o SingleCovering(main, main, infos, n)
        \o (IF end = 2^n - 1 THEN <<>> ELSE AcrossTheEnd(end, end + 1, infos, n, p))

(* compute_outcome_combinations.  With oracles of different numbers of     *)
(* digits all counts are in one digit more than the smallest has.          *)
ComputeOutcomeCombinations(infos, main_outcome_prefix, p) ==
    LET same == ToSet(infos) = {infos[1]}
        n == IF same THEN infos[1] ELSE infos[1] + 1
        main == IF same THEN main_outcome_prefix ELSE <<0>> \o main_outcome_prefix
    IN  IF n - Len(main) < p.max_error_exp
        THEN WithinBlock(main, infos, n, p)
        ELSE Around(main, infos, n, p)

=============================================================================
