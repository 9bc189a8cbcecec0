----------------------------- MODULE OracleTries -----------------------------
(***************************************************************************)
(* The adaptor signatures of a numerical contract and how attested digits  *)
(* find theirs (dlc-trie/src/multi_oracle_trie.rs, multi_trie.rs,          *)
(* multi_oracle_trie_with_diff.rs, utils.rs, lib.rs).                      *)
(*                                                                         *)
(* A contract takes threshold of several oracles, which may use different  *)
(* numbers of digits, and may or may not allow them to differ.  From the   *)
(* ranges of numbers with one payout (and one CET) the trie is generated,  *)
(* prefix after prefix, each entry being given the next place in the list  *)
(* of adaptor signatures.  Later the oracles attest numbers, and the trie  *)
(* says which entry settles the contract, if any.                          *)
(*                                                                         *)
(* Digits are binary.  Oracles count from 0 as in the code, CETs, adaptor  *)
(* signatures and places of the store from 1.                              *)
(***************************************************************************)
EXTENDS CombinationIterator, DigitTrie, OutcomeCombinations, PayoutCurve

CONSTANTS
    Configs,    \* [nb_digits, threshold, diff]: diff is None or difference params
                \* (MultiOracleTrieWithDiff::new always maximizes the coverage)
    Curves      \* payout functions a contract may be offered with

VARIABLES
    config,     \* the contract's oracles and threshold
    curve,      \* its payout function
    outcomes,   \* range payouts: [start, count, offer], the i-th has the i-th CET
    pending,    \* groups generate still has to insert: [cet, prefix]
    covered,    \* the paths beyond the smallest oracle are inserted
    digit_trie, \* MultiOracleTrie's digit trie
    store,      \* MultiTrie's store: [leaf, trie] nodes
    infos,      \* trie_infos: [indexes, paths, value]
    reports,    \* what the oracles attested: sequence of [oracle, value]
    found       \* what the look-up of it returned, or None

vars == <<config, curve, outcomes, pending, covered, digit_trie, store, infos, reports, found>>

NbOracles == Len(config.nb_digits)
DigitsOf(o) == config.nb_digits[o + 1]
MinNbDigits == Min(ToSet(config.nb_digits))
HasDiffNbDigits == Cardinality(ToSet(config.nb_digits)) > 1
WithDiff == config.diff # None

-----------------------------------------------------------------------------
(* MultiTrie: a trie per oracle, whose leaves lead to tries of the next.   *)

(* new: one root for each oracle that can be the first of a combination.   *)
NewStore(c) ==
    [i \in 1..(Len(c.nb_digits) - c.threshold + 1) |-> NewTrie(2)]

(* find_store_index: the child trie of an oracle, or 0.                    *)
FindStoreIndex(children, trie_index) ==
    LET fits == {i \in DOMAIN children : children[i].trie_index = trie_index}
    IN  IF fits = {} THEN 0 ELSE children[Min(fits)].store_index

(* insert_internal: paths and indexes are those still to go down.          *)
RECURSIVE InsertPaths(_, _, _, _, _)
InsertPaths(tries, cur, paths, indexes, value) ==
    LET there == DataAt(tries[cur], paths[1])
        children == IF there = None THEN <<>> ELSE there
        known == FindStoreIndex(children, indexes[2])
        child == [trie_index |-> indexes[2], store_index |-> Len(tries) + 1]
        grown == Append([tries EXCEPT ![cur] = Insert(@, paths[1], Append(children, child))],
                        NewTrie(2))
    IN  IF Len(paths) = 1
        THEN [tries EXCEPT ![cur] = Insert(@, paths[1], value)]
        ELSE IF known # 0
        THEN InsertPaths(tries, known, Tail(paths), Tail(indexes), value)
        ELSE InsertPaths(grown, Len(grown), Tail(paths), Tail(indexes), value)

(* look_up_internal: all the prefixes of an oracle's digits are tried, the *)
(* shortest first.  At the last oracle the shortest one is taken.          *)
RECURSIVE LookUpPaths(_, _)
LookUpPaths(cur, paths) ==
    LET results == LookUp(store[cur], paths[1].digits)
        step(r) == [oracle |-> paths[1].oracle, digits |-> r.path]
        child(r) == FindStoreIndex(r.value, paths[2].oracle)
        below(r) == IF child(r) = 0 THEN None ELSE LookUpPaths(child(r), Tail(paths))
        good == {i \in DOMAIN results : below(results[i]) # None}
    IN  IF results = <<>> THEN None
        ELSE IF Len(paths) = 1
        THEN [value |-> results[1].value, path |-> <<step(results[1])>>]
        ELSE IF good = {} THEN None
        ELSE LET r == results[Min(good)]
             IN  [below(r) EXCEPT !.path = <<step(r)>> \o @]

(* look_up: the first combination of the reports, in the order in which    *)
(* they are given, that has an entry.                                      *)
MultiLookUp(paths) ==
    LET nb_roots == NbOracles - config.threshold + 1
        tries == IF Len(paths) < config.threshold THEN <<>>
                 ELSE Combinations(Len(paths), config.threshold)
        picked(s) == [i \in DOMAIN s |-> paths[s[i] + 1]]
        result(s) == IF picked(s)[1].oracle >= nb_roots THEN None
                     ELSE LookUpPaths(picked(s)[1].oracle + 1, picked(s))
        good == {i \in DOMAIN tries : result(tries[i]) # None}
    IN  IF good = {} THEN None ELSE result(tries[Min(good)])

(* MultiTrieIterator: the entries under a trie, with the oracles and paths *)
(* above them; index is the oracle the trie is of.                         *)
RECURSIVE EntriesUnder(_, _, _)
EntriesUnder(cur, index, depth) ==
    LET entry(r, e) == [indexes |-> <<index>> \o e.indexes,
                        paths |-> <<r.path>> \o e.paths, value |-> e.value]
        of(r) == IF depth = 1
                 THEN <<[indexes |-> <<index>>, paths |-> <<r.path>>, value |-> r.value]>>
                 ELSE LET children == FlattenSeq([i \in DOMAIN r.value |->
                                EntriesUnder(r.value[i].store_index, r.value[i].trie_index, depth - 1)])
                      IN  [i \in DOMAIN children |-> entry(r, children[i])]
        nodes == Iterate(store[cur])
    IN  FlattenSeq([i \in DOMAIN nodes |-> of(nodes[i])])

MultiIterate ==
    FlattenSeq([i \in 1..(NbOracles - config.threshold + 1) |->
                  EntriesUnder(i, i - 1, config.threshold)])

-----------------------------------------------------------------------------
(* The paths of a group.                                                   *)

Chosen(selector) == [i \in DOMAIN selector |-> DigitsOf(selector[i])]

(* MultiOracleTrie::generate: all the oracles of the combination at the    *)
(* same prefix, padded to their number of digits.                          *)
SamePaths(selector, group) ==
    [i \in DOMAIN selector |->
        PrePad(group, Len(group) + DigitsOf(selector[i]) - MinNbDigits)]

(* MultiTrie::insert, reorder_to_min_first: the combinations of outcomes   *)
(* around the group, seen from the oracle with the fewest digits.  A       *)
(* single oracle is given the group as it is.                              *)
DiffPaths(selector, group) ==
    LET digits == Chosen(selector)
        min_index == Min({i \in DOMAIN digits : digits[i] = Min(ToSet(digits))})
        first == [i \in DOMAIN digits |->
                    digits[IF i = 1 THEN min_index
                           ELSE IF i <= min_index THEN i - 1 ELSE i]]
        padded == PrePad(group, Len(group) + first[1] - MinNbDigits)
        combinations == ComputeOutcomeCombinations(first, padded, config.diff)
        reordered(c) == [i \in DOMAIN c |->
                            c[IF i = min_index THEN 1
                              ELSE IF i < min_index THEN i + 1 ELSE i]]
    IN  IF Len(selector) = 1 THEN <<<<group>>>>
        ELSE [k \in DOMAIN combinations |-> reordered(combinations[k])]

(* get_max_covering_paths of a combination with a larger oracle: those     *)
(* with the fewest digits at their largest number, each of the others at   *)
(* any number beyond it, told by the place of its first one.               *)
MaxCoveringPaths(selector) ==
    LET max(i) == DigitsOf(selector[i]) - MinNbDigits
        lengths(i) == IF max(i) = 0 THEN {0} ELSE 1..max(i)
        counters == {c \in [DOMAIN selector -> 0..Max(ToSet(config.nb_digits))] :
                        \A i \in DOMAIN selector : c[i] \in lengths(i)}
        earlier(a, b) == \E i \in DOMAIN a : a[i] < b[i] /\ \A j \in (i + 1)..Len(a) : a[j] = b[j]
        path(c) == [i \in DOMAIN selector |->
                      IF c[i] = 0 THEN [d \in 1..MinNbDigits |-> 1]
                      ELSE [d \in 1..c[i] |-> IF d = c[i] THEN 1 ELSE 0]]
        ordered == SetToSortSeq(counters, earlier)
    IN  IF \A i \in DOMAIN selector : max(i) = 0 THEN <<>>
        ELSE [k \in DOMAIN ordered |-> path(ordered[k])]

(* What is inserted for a group, or for the numbers beyond: [indexes,      *)
(* paths] in order, one for each adaptor signature.                        *)
EntriesOf(paths(_)) ==
    LET all == Combinations(NbOracles, config.threshold)
    IN  FlattenSeq([k \in DOMAIN all |->
            [i \in DOMAIN paths(all[k]) |-> [indexes |-> all[k], paths |-> paths(all[k])[i]]]])

(* get_value_callback: the next adaptor signature is of this CET.          *)
WithValues(entries, cet) ==
    [i \in DOMAIN entries |->
        [indexes |-> entries[i].indexes, paths |-> entries[i].paths,
         value |-> [cet |-> cet, adaptor |-> Len(infos) + i]]]

(* insert of the digit trie panics on an empty path, which is what a range *)
(* of all the numbers is grouped to.                                       *)
Insertable(entries) == \A e \in ToSet(entries) : \A p \in ToSet(e.paths) : p # <<>>

Inserted(entries) ==
    FoldLeft(LAMBDA tries, e : InsertPaths(tries, e.indexes[1] + 1, e.paths, e.indexes, e.value),
             store, entries)

-----------------------------------------------------------------------------
(* generate.                                                               *)

GroupsOf(ranges, nb_digits) ==
    FlattenSeq([i \in DOMAIN ranges |->
        LET groups == GroupByIgnoringDigits(ranges[i].start,
                            ranges[i].start + ranges[i].count - 1, 2, nb_digits)
        IN  [g \in DOMAIN groups |-> [cet |-> i, prefix |-> groups[g]]]])

(* The contract has been validated: its function covers the numbers of the *)
(* smallest oracle and has a payout for each.                              *)
Init ==
    /\ config \in Configs
    /\ curve \in Curves /\ CurveIsValid(curve, 2^MinNbDigits - 1)
    /\ ToRangePayouts(curve) # <<>>
    /\ outcomes = ToRangePayouts(curve)
    /\ pending = GroupsOf(outcomes, MinNbDigits)
    /\ covered = FALSE
    /\ digit_trie = NewTrie(2)
    /\ store = NewStore(config)
    /\ infos = <<>>
    /\ reports = <<>>
    /\ found = None

(* A group of MultiOracleTrie: one entry of the digit trie holds the CET   *)
(* and the places of the signatures of all the combinations.               *)
InsertGroup ==
    /\ pending # <<>> /\ ~WithDiff
    /\ LET new == WithValues(EntriesOf(LAMBDA s : <<SamePaths(s, pending[1].prefix)>>),
                             pending[1].cet)
       IN  /\ pending[1].prefix # <<>>
           /\ infos' = infos \o new
           /\ digit_trie' = Insert(digit_trie, pending[1].prefix,
                                   [i \in DOMAIN new |-> new[i].value])
    /\ pending' = Tail(pending)
    /\ UNCHANGED <<config, curve, outcomes, covered, store, reports, found>>

(* A group of MultiOracleTrieWithDiff.                                     *)
InsertGroupWithDiff ==
    /\ pending # <<>> /\ WithDiff
    /\ LET new == WithValues(EntriesOf(LAMBDA s : DiffPaths(s, pending[1].prefix)),
                             pending[1].cet)
       IN  /\ Insertable(new)
           /\ infos' = infos \o new /\ store' = Inserted(new)
    /\ pending' = Tail(pending)
    /\ UNCHANGED <<config, curve, outcomes, covered, digit_trie, reports, found>>

(* insert_max_paths: beyond the smallest oracle's numbers the last CET.    *)
InsertMaxPaths ==
    /\ pending = <<>> /\ ~covered
    /\ LET new == IF HasDiffNbDigits
                  THEN WithValues(EntriesOf(MaxCoveringPaths), Len(outcomes))
                  ELSE <<>>
       IN  infos' = infos \o new /\ store' = Inserted(new)
    /\ covered' = TRUE
    /\ UNCHANGED <<config, curve, outcomes, pending, digit_trie, reports, found>>

-----------------------------------------------------------------------------
(* Settlement.                                                             *)

Digits(r) == DecomposeValue(r.value, 2, DigitsOf(r.oracle))

(* MultiOracleTrie::look_up: the reports that fit the smallest oracle's    *)
(* digits, cut to them; the numbers that threshold of them agree on, the   *)
(* one with the fewest reports first (of two with as many, either).        *)
AgreedLookUp(given) ==
    LET stripped == SelectSeq(given, LAMBDA r : SizeAdjusts(Digits(r), MinNbDigits))
        saying(v) == SelectSeq(stripped, LAMBDA r : r.value = v)
        agreed == {v \in {stripped[i].value : i \in DOMAIN stripped} :
                      Len(saying(v)) >= config.threshold}
        combination(v) == [i \in 1..config.threshold |-> saying(v)[i].oracle]
        position(v) == IndexForCombination(NbOracles, config.threshold, combination(v))
        entry(v) == LookUp(digit_trie, DecomposeValue(v, 2, MinNbDigits))
        good == {v \in agreed : entry(v) # <<>> /\ position(v) # 0}
        fewest == {v \in good : \A w \in good : Len(saying(v)) <= Len(saying(w))}
        result(v) ==
            [value |-> entry(v)[1].value[position(v)],
             path |-> [i \in 1..config.threshold |->
                         [oracle |-> combination(v)[i],
                          digits |-> PrePad(entry(v)[1].path, Len(entry(v)[1].path)
                                       + DigitsOf(combination(v)[i]) - MinNbDigits)]]]
        beyond == MultiLookUp([i \in DOMAIN given |->
                                 [oracle |-> given[i].oracle, digits |-> Digits(given[i])]])
    IN  IF fewest # {} THEN {result(v) : v \in fewest} ELSE {beyond}

(* get_range_info_for_outcome: with or without difference.                 *)
RangeInfoForOutcome(given) ==
    IF WithDiff
    THEN {MultiLookUp([i \in DOMAIN given |->
                         [oracle |-> given[i].oracle, digits |-> Digits(given[i])]])}
    ELSE AgreedLookUp(given)

(* Any oracles, in any order, attest any numbers; the party that closes    *)
(* looks them up.                                                          *)
Attest ==
    /\ covered /\ reports = <<>>
    /\ \E oracles \in UNION {SetToSeqs(S) : S \in SUBSET (0..(NbOracles - 1)) \ {{}}} :
       \E values \in [DOMAIN oracles -> 0..(2^Max(ToSet(config.nb_digits)) - 1)] :
          /\ \A i \in DOMAIN oracles : values[i] < 2^DigitsOf(oracles[i])
          /\ reports' = [i \in DOMAIN oracles |-> [oracle |-> oracles[i], value |-> values[i]]]
          /\ found' \in RangeInfoForOutcome(reports')
    /\ UNCHANGED <<config, curve, outcomes, pending, covered, digit_trie, store, infos>>

Next == InsertGroup \/ InsertGroupWithDiff \/ InsertMaxPaths \/ Attest

Spec == Init /\ [][Next]_vars

-----------------------------------------------------------------------------
(* Properties.                                                             *)

Generated == pending = <<>> /\ covered

(* Type invariant of the state of dlc-trie's tries while and after they    *)
(* are generated.                                                          *)
TypeOK ==
    /\ config \in Configs
    /\ \A i \in DOMAIN outcomes : outcomes[i].count > 0
    /\ \A g \in ToSet(pending) : g.cet \in DOMAIN outcomes /\ Len(g.prefix) <= MinNbDigits
    /\ \A e \in ToSet(infos) :
          /\ e.value.cet \in DOMAIN outcomes /\ e.value.adaptor \in DOMAIN infos
          /\ Len(e.indexes) = config.threshold /\ Len(e.paths) = config.threshold
          /\ \A i \in DOMAIN e.paths : Len(e.paths[i]) \in 0..DigitsOf(e.indexes[i])
    /\ found # None => found.value.adaptor \in DOMAIN infos

PieceOf(v) ==
    CHOOSE piece \in ToSet(curve.pieces) : v \in FirstOutcome(piece)..LastOutcome(piece)

(* to_range_payouts: every number the smallest oracle can attest is in one *)
(* range, whose payout neither takes more than the total collateral nor is *)
(* further from the function than the rounding at that number allows (of a *)
(* constant piece, at the number where the range begins).                  *)
PayoutsFollowCurve ==
    infos = <<>> =>
        \A v \in 0..(2^MinNbDigits - 1) :
            LET ranges == {r \in ToSet(outcomes) : v \in r.start..(r.start + r.count - 1)}
            IN  /\ Cardinality(ranges) = 1
                /\ \A r \in ranges :
                      LET at == IF IsConstant(PieceOf(v)) THEN r.start ELSE v
                          value == Evaluate(PieceOf(at), at)
                          mod == RoundingMod(curve.rounding, at)
                          error == Plus(value, Frac(-r.offer, 1))
                      IN  /\ r.offer \in 0..curve.total
                          /\ 2 * error.num <= mod * error.den
                          /\ -2 * error.num <= mod * error.den

(* The groups of all the ranges (group_by_ignoring_digits) cover every     *)
(* number once, with the CET of the range it is in.                        *)
EachNumberInOneGroup ==
    infos = <<>> =>
        \A v \in 0..(2^MinNbDigits - 1) :
            LET groups == {g \in ToSet(pending) :
                              IsPrefix(g.prefix, DecomposeValue(v, 2, MinNbDigits))}
            IN  /\ Cardinality(groups) = 1
                /\ \A g \in groups : v >= outcomes[g.cet].start
                                    /\ v < outcomes[g.cet].start + outcomes[g.cet].count

(* MultiOracleTrieIter and MultiOracleTrieWithDiffIter: the entries of the *)
(* generated trie.                                                         *)
IterateAll ==
    LET nodes == Iterate(digit_trie)
        all == Combinations(NbOracles, config.threshold)
        agreed == FlattenSeq([i \in DOMAIN nodes |->
                    [k \in DOMAIN all |->
                       [indexes |-> all[k], paths |-> SamePaths(all[k], nodes[i].path),
                        value |-> nodes[i].value[k]]]])
    IN  agreed \o MultiIterate

(* One party signs from the entries generate returns, the other from the   *)
(* iterator of its trie (DlcTrie::sign): both must see the same entries,   *)
(* or the lists of signatures do not match.                                *)
IterYieldsGenerated ==
    Generated => /\ ToSet(IterateAll) = ToSet(infos)
                 /\ Len(IterateAll) = Len(infos)

(* What look_up returns is an entry of the list of signatures: its oracles *)
(* and the length of its prefixes (from which the attestations are summed) *)
(* are those for which the signature at that place was made.               *)
FoundIsSigned ==
    found # None =>
        LET e == infos[found.value.adaptor]
        IN  /\ e.value = found.value
            /\ e.indexes = [i \in DOMAIN found.path |-> found.path[i].oracle]
            /\ e.paths = [i \in DOMAIN found.path |-> found.path[i].digits]

Reported(o) == reports[CHOOSE i \in DOMAIN reports : reports[i].oracle = o].value
Clamped(v) == Min({v, 2^MinNbDigits - 1})
Pays(cet, v) == /\ Clamped(v) >= outcomes[cet].start
                /\ Clamped(v) < outcomes[cet].start + outcomes[cet].count
MainOf(S) == CHOOSE o \in S : \A p \in S : \/ DigitsOf(o) < DigitsOf(p)
                                           \/ DigitsOf(o) = DigitsOf(p) /\ o <= p
Distance(a, b) == IF a < b THEN b - a ELSE a - b

(* A contract settles only with a CET that one of the oracles used has     *)
(* attested; the others attested the same or, where the contract allows a  *)
(* difference, a number less than 2^max_error_exp away.                    *)
SettlesWithinError ==
    found # None =>
        LET used == {found.path[i].oracle : i \in DOMAIN found.path}
            cet == found.value.cet
        IN  \E main \in used :
               /\ Pays(cet, Reported(main))
               /\ \A o \in used :
                     \/ Pays(cet, Reported(o))
                     \/ WithDiff /\ Distance(Reported(o), Reported(main))
                                        < 2^config.diff.max_error_exp

(* Reports in the order of the oracles, as the manager collects them, of   *)
(* which threshold agree on one number (an oracle with too few digits      *)
(* attests its largest), or differ by no more than the support, settle.    *)
(* The latter holds only as long as the oracle with the fewest digits of   *)
(* them, the first if several, reports a number all oracles can.           *)
QuorumSettles ==
    LET oracles == {reports[i].oracle : i \in DOMAIN reports}
        tolerance == IF WithDiff THEN 2^config.diff.min_support_exp ELSE 0
        truths == 0..(2^Max(ToSet(config.nb_digits)) - 1)
        agree(S) ==
            \/ \E truth \in truths : \A o \in S : Reported(o) = Min({truth, 2^DigitsOf(o) - 1})
            \/ /\ \A o, p \in S : Distance(Reported(o), Reported(p)) <= tolerance
               /\ Reported(MainOf(S)) < 2^MinNbDigits
    IN  (/\ reports # <<>>
         /\ \A i, j \in DOMAIN reports : i < j => reports[i].oracle < reports[j].oracle
         /\ \E S \in kSubset(config.threshold, oracles) : agree(S))
        => found # None

=============================================================================
