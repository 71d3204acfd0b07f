-------------------------------- MODULE Trie --------------------------------
(***************************************************************************)
(* AK/Trie.h: a node per path of letters, children in a hash map, and an   *)
(* iterative walk in tree order with a stack of iterators.  A node is its  *)
(* path; the hash map's order of the children is some order of the         *)
(* letters.  An allocation that fails in the middle of insert leaves the   *)
(* nodes made so far.                                                      *)
(***************************************************************************)
EXTENDS Integers, Sequences, TLC, SequencesExt

CONSTANTS Order,     \* the letters, as the hash maps are iterated
          Metadata, Missing, NoMetadata,
          MaxDepth   \* bound: length of a path

Paths == BoundedSeq(ToSet(Order), MaxDepth)

VARIABLE trie \* the metadata of every node, and the paths inserted with theirs

Init == trie = [meta |-> (<<>> :> NoMetadata), inserted |-> (<<>> :> NoMetadata)]

Child(t, n, c) == Append(n, c) \in DOMAIN t.meta

\* traverse_until_last_accessible_node: the longest prefix that is a node
RECURSIVE LastAccessible(_, _, _)
LastAccessible(t, n, rest) ==
    IF rest = <<>> \/ ~Child(t, n, Head(rest)) THEN n
    ELSE LastAccessible(t, Append(n, Head(rest)), Tail(rest))

\* ensure_child of a child that is missing, given what provide_missing_metadata answers
\* Mutant: a node that is made gets the metadata of the path.
MetadataOfPath(metadata) == metadata
MetadataOfMade(metadata) == Missing
\* Nodes are made along the path from the last accessible one, `made` of them at most.
WithNodes(t, path, metadata, made) ==
    LET from == Len(LastAccessible(t, <<>>, path))
        new == {SubSeq(path, 1, i) : i \in from + 1 .. from + made}
    IN  [t EXCEPT !.meta = [n \in DOMAIN @ \union new |->
                               IF n \in new THEN MetadataOfMade(metadata) ELSE @[n]]]

Insert(path, metadata) ==
    LET grown == WithNodes(trie, path, metadata, Len(path) - Len(LastAccessible(trie, <<>>, path)))
    IN  trie' = [grown EXCEPT !.meta[path] = metadata,
                              !.inserted = (path :> metadata) @@ @]
InsertFails(path, metadata) ==
    \E made \in 0 .. Len(path) - Len(LastAccessible(trie, <<>>, path)) - 1 :
        trie' = WithNodes(trie, path, metadata, made)
\* ensure_child and set_metadata of a node one holds
EnsureChild(n, c, metadata) ==
    /\ Len(n) < MaxDepth
    /\ trie' = [trie EXCEPT !.meta = (Append(n, c) :> IF metadata = NoMetadata /\ Child(trie, n, c)
                                                      THEN @[Append(n, c)] ELSE metadata) @@ @,
                            !.inserted = IF metadata = NoMetadata THEN @
                                         ELSE (Append(n, c) :> metadata) @@ @]
SubtreeOf(n) == {p \in DOMAIN trie.meta : IsStrictPrefix(n, p)}
Clear(n) ==
    trie' = [meta |-> [p \in DOMAIN trie.meta \ SubtreeOf(n) |-> trie.meta[p]],
             inserted |-> [p \in DOMAIN trie.inserted \ SubtreeOf(n) |-> trie.inserted[p]]]

Next ==
    \/ \E path \in Paths \ {<<>>}, metadata \in Metadata : Insert(path, metadata) \/ InsertFails(path, metadata)
    \/ \E n \in DOMAIN trie.meta, c \in ToSet(Order), metadata \in Metadata \union {NoMetadata} :
          EnsureChild(n, c, metadata)
    \/ \E n \in DOMAIN trie.meta : Clear(n)
Spec == Init /\ [][Next]_trie

-----------------------------------------------------------------------------
(* for_each_node_in_tree_order                                             *)

Children(t, n) == SelectSeq([i \in DOMAIN Order |-> Append(n, Order[i])], LAMBDA p : p \in DOMAIN t.meta)

\* A State: the node, did_generate_root, and where its iterator is.
State(n) == [node |-> n, generated |-> FALSE, it |-> 1]

\* Mutant: the iterator moves on although its first child was not visited.
AlwaysForward(s) == [s EXCEPT !.generated = TRUE, !.it = @ + 1]
Forwarded(s) == IF s.generated THEN [s EXCEPT !.it = @ + 1] ELSE [s EXCEPT !.generated = TRUE]

\* skip_to_next_iterator with pop_and_get_next_iterator: the stack and the node it is at
RECURSIVE Skip(_, _)
Skip(t, states) ==
    LET s == Forwarded(Last(states))
        children == Children(t, s.node)
    IN  IF s.it <= Len(children)
        THEN [states |-> Front(states) \o <<s, State(children[s.it])>>, node |-> children[s.it]]
        ELSE IF Len(states) = 1 THEN [states |-> <<>>, node |-> <<>>]
        ELSE Skip(t, Front(states))

RECURSIVE WalkOf(_, _, _), TreeOrder(_, _)
WalkOf(t, states, node) ==
    IF states = <<>> THEN <<>>
    ELSE LET r == Skip(t, states) IN <<node>> \o WalkOf(t, r.states, r.node)
TreeOrder(t, n) == <<n>> \o FlattenSeq([i \in DOMAIN Children(t, n) |-> TreeOrder(t, Children(t, n)[i])])

-----------------------------------------------------------------------------
(* Properties                                                              *)

\* The walk with the stack is the recursive one: each node once, after its parent.
WalksInTreeOrder == WalkOf(trie, <<State(<<>>)>>, <<>>) = TreeOrder(trie, <<>>)

\* Every path inserted since it was cleared is found, with the metadata it was given last,
\* also when it was a node another insertion made; and every node is reached from the root.
FindsInserted ==
    /\ \A p \in DOMAIN trie.inserted :
          LastAccessible(trie, <<>>, p) = p /\ trie.meta[p] = trie.inserted[p]
    /\ \A n \in DOMAIN trie.meta \ {<<>>} :
          /\ Front(n) \in DOMAIN trie.meta
          /\ n \notin DOMAIN trie.inserted => trie.meta[n] \in {Missing, NoMetadata}
=============================================================================
