----------------------------- MODULE DigitTrie -----------------------------
(***************************************************************************)
(* The trie that maps prefixes of digits to data                           *)
(* (dlc-trie/src/digit_trie.rs): an arena of nodes that point to each      *)
(* other by place, 0 for none here.  A leaf has no children; a node has    *)
(* data only when a path ends at it.                                       *)
(***************************************************************************)
EXTENDS Integers, Sequences, FiniteSets, FiniteSetsExt, SequencesExt

CONSTANT None

NewTrie(base) == [base |-> base, root |-> 0, store |-> <<>>]

Leaf(trie, path, data) ==
    [prefix |-> path, data |-> data, leaf |-> TRUE,
     children |-> [d \in 0..(trie.base - 1) |-> 0]]

Pushed(trie, node) == [trie EXCEPT !.store = Append(@, node)]

LOCAL Suffix(path, prefix) == SubSeq(path, Len(prefix) + 1, Len(path))

(* insert_internal where the path leaves the node's prefix half way, or    *)
(* ends there: a new node takes the common part, the old one the rest.     *)
Split(trie, cur, path, data) ==
    LET node == trie.store[cur]
        common == LongestCommonPrefix({node.prefix, path})
        branch == [Leaf(trie, common, IF path = common THEN data ELSE None)
                      EXCEPT !.leaf = FALSE, !.children[node.prefix[Len(common) + 1]] = cur]
        with == IF path = common THEN trie
                ELSE Pushed(trie, Leaf(trie, Suffix(path, common), data))
        linked == IF path = common THEN branch
                  ELSE [branch EXCEPT !.children[path[Len(common) + 1]] = Len(with.store)]
    IN  Pushed([with EXCEPT !.store[cur].prefix = Suffix(@, common)], linked)

(* insert_internal: the trie and the place of what now stands where cur    *)
(* did.                                                                    *)
RECURSIVE InsertInternal(_, _, _, _)
InsertInternal(trie, cur, path, data) ==
    LET node == trie.store[cur]
        suffix == Suffix(path, node.prefix)
        below == InsertInternal(trie, node.children[suffix[1]], suffix, data)
    IN  IF cur = 0
        THEN [trie |-> Pushed(trie, Leaf(trie, path, data)), index |-> Len(trie.store) + 1]
        ELSE IF node.prefix = path
        THEN [trie |-> [trie EXCEPT !.store[cur].data = data], index |-> cur]
        ELSE IF IsStrictPrefix(node.prefix, path)
        THEN [trie |-> [below.trie EXCEPT !.store[cur].children[suffix[1]] = below.index,
                                          !.store[cur].leaf = FALSE],
              index |-> cur]
        ELSE [trie |-> Split(trie, cur, path, data),
              index |-> Len(Split(trie, cur, path, data).store)]

Insert(trie, path, data) ==
    LET inserted == InsertInternal(trie, trie.root, path, data)
    IN  [inserted.trie EXCEPT !.root = inserted.index]

(* look_up_internal: the data of every prefix of path, the shortest first; *)
(* digits are those of path above the node.                                *)
RECURSIVE LookUpInternal(_, _, _, _)
LookUpInternal(trie, cur, digits, path) ==
    LET node == trie.store[cur]
        here == digits \o node.prefix
        suffix == Suffix(path, node.prefix)
        found == IF node.data = None THEN <<>> ELSE <<[path |-> here, value |-> node.data]>>
    IN  IF cur = 0 \/ ~IsPrefix(node.prefix, path) THEN <<>>
        ELSE IF node.leaf \/ node.prefix = path THEN found
        ELSE found \o LookUpInternal(trie, node.children[suffix[1]], here, suffix)

LookUp(trie, path) == LookUpInternal(trie, trie.root, <<>>, path)

(* DigitTrieIter: each node before its children, these in order.           *)
RECURSIVE IterateFrom(_, _, _)
IterateFrom(trie, cur, digits) ==
    LET node == trie.store[cur]
        here == digits \o node.prefix
        found == IF node.data = None THEN <<>> ELSE <<[path |-> here, value |-> node.data]>>
    IN  IF cur = 0 THEN <<>>
        ELSE found \o FlattenSeq([d \in 1..trie.base |->
                                    IterateFrom(trie, node.children[d - 1], here)])

Iterate(trie) == IterateFrom(trie, trie.root, <<>>)

(* The data the callback of insert is given: what is already at path.      *)
DataAt(trie, path) ==
    LET there == SelectSeq(LookUp(trie, path), LAMBDA r : r.path = path)
    IN  IF there = <<>> THEN None ELSE Last(there).value

=============================================================================
