------------------------- MODULE DigitDecomposition -------------------------
(***************************************************************************)
(* Numbers as the digits an oracle signs, and the prefixes of digits that  *)
(* cover a range of numbers (dlc-trie/src/digit_decomposition.rs).         *)
(*                                                                         *)
(* One adaptor signature is made for a prefix and not for each number: a   *)
(* number that two prefixes cover could settle the contract in two ways,   *)
(* one that no prefix covers could not settle it at all.                   *)
(***************************************************************************)
EXTENDS Integers, Sequences, FiniteSets, FiniteSetsExt, SequencesExt

(* decompose_value; its assertion fails on a value of more digits.         *)
DecomposeValue(value, base, nb_digits) ==
    [i \in 1..nb_digits |-> (value \div base^(nb_digits - i)) % base]

ComposeValue(values, base) ==
    FoldLeft(LAMBDA composed, digit : composed * base + digit, 0, values)

CommonPrefix(a, b) == LongestCommonPrefix({a, b})

(* remove_tail: the digits to_remove at the end go, one digit stays.       *)
RemoveTail(v, to_remove) ==
    SubSeq(v, 1, Max({1} \cup {i \in DOMAIN v : v[i] # to_remove}))

Incremented(stack) == [stack EXCEPT ![Len(stack)] = @ + 1]

(* The three loops of group_by_ignoring_digits, each on the stack and the  *)
(* list of prefixes.  From start to the end of the numbers that share its  *)
(* first digit:                                                            *)
RECURSIVE UpFromStart(_, _, _)
UpFromStart(stack, list, base) ==
    IF Len(stack) = 1 THEN [stack |-> stack, list |-> list]
    ELSE IF Last(stack) = base - 1
    THEN UpFromStart(Incremented(RemoveTail(Front(stack), base - 1)),
                     Append(list, stack), base)
    ELSE IF Last(stack) = 0
    THEN UpFromStart(RemoveTail(stack, 0), list, base)
    ELSE UpFromStart(Incremented(stack), Append(list, stack), base)

(* ... the first digits between those of start and end ...                 *)
Between(s, digit) ==
    [stack |-> <<digit>>,
     list |-> s.list \o [i \in 1..(digit - s.stack[1]) |-> <<s.stack[1] + i - 1>>]]

(* ... and down to end, digit by digit.                                    *)
RECURSIVE DownToEnd(_, _, _)
DownToEnd(stack, list, de) ==
    IF stack = de THEN Append(list, de)
    ELSE IF Last(stack) = de[Len(stack)]
    THEN DownToEnd(Append(stack, 0), list, de)
    ELSE DownToEnd(Incremented(stack), Append(list, stack), de)

(* Mutant: the trailing digits of end are cut as those of start are.       *)
GroupByIgnoringDigitsCutEnd(start, end, base, nb_digits) ==
    LET first == DecomposeValue(start, base, nb_digits)
        last == DecomposeValue(end, base, nb_digits)
        prefix == CommonPrefix(first, last)
        ds == SubSeq(first, Len(prefix) + 1, nb_digits)
        de == SubSeq(last, Len(prefix) + 1, nb_digits)
        end_digits == RemoveTail(de, 0)
        s == Between(UpFromStart(RemoveTail(ds, 0), <<>>, base), end_digits[1])
        list == DownToEnd(s.stack, s.list, end_digits)
    IN  IF ToSet(ds) \subseteq {0} /\ ToSet(de) \subseteq {base - 1}
        THEN <<prefix>>
        ELSE [i \in DOMAIN list |-> prefix \o list[i]]

(* group_by_ignoring_digits: the prefixes that cover [start, end].         *)
GroupByIgnoringDigits(start, end, base, nb_digits) ==
    LET first == DecomposeValue(start, base, nb_digits)
        last == DecomposeValue(end, base, nb_digits)
        prefix == CommonPrefix(first, last)
        ds == SubSeq(first, Len(prefix) + 1, nb_digits)
        de == SubSeq(last, Len(prefix) + 1, nb_digits)
        end_digits == RemoveTail(de, base - 1)
        s == Between(UpFromStart(RemoveTail(ds, 0), <<>>, base), end_digits[1])
        list == DownToEnd(s.stack, s.list, end_digits)
    IN  IF ToSet(ds) \subseteq {0} /\ ToSet(de) \subseteq {base - 1}
        THEN <<prefix>>
        ELSE [i \in DOMAIN list |-> prefix \o list[i]]

=============================================================================
