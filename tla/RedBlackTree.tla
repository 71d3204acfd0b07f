---------------------------- MODULE RedBlackTree ----------------------------
(***************************************************************************)
(* AK/RedBlackTree.h: the links, colours and fixups of BaseRedBlackTree,   *)
(* under RedBlackTree, which allocates a node per key, and under           *)
(* IntrusiveRedBlackTree, whose nodes are members of the values and keep   *)
(* their parent and colour when they are taken out.  Keys need not differ. *)
(*                                                                         *)
(* The code that mirrors left and right is one definition with a side,     *)
(* except where the two sides differ: the left branch of remove_fixups     *)
(* does not go up, and reads the parent of a node that may be null.        *)
(***************************************************************************)
EXTENDS Integers, Sequences, FiniteSets

CONSTANTS MaxNodes,  \* bound: nodes, allocated or members of values
          MaxKey,    \* bound: keys 1 .. MaxKey
          Intrusive  \* an IntrusiveRedBlackTree

Null == 0
Node == 1 .. MaxNodes
Key == 1 .. MaxKey
Side == {"left", "right"}
Other == [left |-> "right", right |-> "left"]

VARIABLE tree \* m_root, m_size, m_minimum and the fields of the nodes

Links == [n \in Node |-> Null]
EmptyTree ==
    [root |-> Null, size |-> 0, minimum |-> Null,
     child |-> [s \in Side |-> Links], parent |-> Links,
     color |-> [n \in Node |-> "Red"], key |-> [n \in Node |-> 1],
     used |-> {},                           \* allocated, or m_in_tree
     fault |-> "none",                      \* "null" was followed, or a "verify" failed
     did |-> [op |-> "new", key |-> 0]]

IsRed(t, n) == n # Null /\ t.color[n] = "Red"
Faulted(t, fault) == [t EXCEPT !.fault = fault]
Running(t) == t.fault = "none"

-----------------------------------------------------------------------------
(* Moving about                                                            *)

SideOf(t, p, n) == IF t.child.left[p] = n THEN "left" ELSE "right"

\* What pointed at old from p, or m_root, points at new.
Relinked(t, p, old, new) ==
    IF p = Null THEN [t EXCEPT !.root = new] ELSE [t EXCEPT !.child[SideOf(t, p, old)][p] = new]

\* rotate_left for s = "left", rotate_right for the other side
Rotated(t, s, n) ==
    LET pivot == t.child[Other[s]][n]
        p == t.parent[n]
        inner == t.child[s][pivot]
        turned == [t EXCEPT !.child[Other[s]][n] = inner, !.child[s][pivot] = n,
                            !.parent = [m \in Node |-> IF m = pivot THEN p
                                                       ELSE IF m = n THEN pivot
                                                       ELSE IF m = inner THEN n ELSE @[m]]]
    IN  Relinked(turned, p, n, pivot)

RECURSIVE Extreme(_, _, _), Climbed(_, _, _)
Extreme(t, s, n) == IF t.child[s][n] = Null THEN n ELSE Extreme(t, s, t.child[s][n])
Climbed(t, s, n) ==
    LET p == t.parent[n] IN IF p # Null /\ t.child[s][p] = n THEN Climbed(t, s, p) ELSE p

\* successor for s = "right", predecessor for the other side
Neighbour(t, s, n) ==
    IF t.child[s][n] # Null THEN Extreme(t, Other[s], t.child[s][n]) ELSE Climbed(t, s, n)

\* begin() and operator++: from m_minimum by successors (m_size of them at most).
Iteration(t) ==
    LET along[i \in 0 .. MaxNodes, n \in 0 .. MaxNodes] ==
            IF n = Null \/ i = 0 THEN <<>> ELSE <<n>> \o along[i - 1, Neighbour(t, "right", n)]
    IN  along[MaxNodes, t.minimum]

-----------------------------------------------------------------------------
(* Looking up                                                              *)

RECURSIVE FindFrom(_, _, _), BoundFrom(_, _, _, _, _)
FindFrom(t, n, k) ==
    IF n = Null \/ t.key[n] = k THEN n
    ELSE FindFrom(t, t.child[IF k < t.key[n] THEN "left" ELSE "right"][n], k)
Find(t, k) == FindFrom(t, t.root, k)

\* The last node from which the search went away from side s is the candidate.
BoundFrom(t, s, n, k, candidate) ==
    IF n = Null THEN candidate
    ELSE IF t.key[n] = k THEN n
    ELSE LET turn == IF k < t.key[n] THEN "left" ELSE "right"
         IN  BoundFrom(t, s, t.child[turn][n], k, IF turn = s THEN n ELSE candidate)
FindLargestNotAbove(t, k) == BoundFrom(t, "right", t.root, k, Null)
FindSmallestNotBelow(t, k) == BoundFrom(t, "left", t.root, k, Null)

-----------------------------------------------------------------------------
(* Insertion                                                               *)

RECURSIVE InsertFixups(_, _), LeafFor(_, _, _)

\* Mutant: the uncle is left as it was when the grandparent is reddened.
UncleForgotten(t, p, g, u) == [t EXCEPT !.color[p] = "Black", !.color[g] = "Red"]
Recolored(t, p, g, u) ==
    [t EXCEPT !.color[p] = "Black", !.color[u] = "Black", !.color[g] = "Red"]

InsertFixups(t, n) ==
    IF ~IsRed(t, t.parent[n]) THEN [t EXCEPT !.color[t.root] = "Black"]
    ELSE LET p == t.parent[n]
             g == t.parent[p]
             s == IF t.child.right[g] = p THEN "left" ELSE "right"
             u == t.child[s][g]
             turned == IF t.child[s][p] = n THEN Rotated(t, Other[s], p) ELSE t
             m == IF t.child[s][p] = n THEN p ELSE n
         IN  IF IsRed(t, u) THEN InsertFixups(Recolored(t, p, g, u), g)
             ELSE InsertFixups(Rotated([turned EXCEPT !.color[turned.parent[m]] = "Black",
                                                      !.color[g] = "Red"], s, g), m)

LeafFor(t, n, k) ==
    LET below == t.child[IF k < t.key[n] THEN "left" ELSE "right"][n]
    IN  IF below = Null THEN n ELSE LeafFor(t, below, k)

\* BaseRedBlackTree::insert.  A node that is not red fails the VERIFY of insert_fixups.
\* Mutant: m_minimum is compared with the inserted key only when the tree was empty.
MinimumKept(t, n) == t.minimum
NewMinimum(t, n) == IF t.child.left[t.minimum] = n THEN n ELSE t.minimum

BaseInsert(t, n) ==
    IF t.root = Null
    THEN [t EXCEPT !.color[n] = "Black", !.root = n, !.size = 1, !.minimum = n]
    ELSE LET p == LeafFor(t, t.root, t.key[n])
             s == IF t.key[n] < t.key[p] THEN "left" ELSE "right"
             linked == [t EXCEPT !.child[s][p] = n, !.parent[n] = p]
             fixed == IF t.parent[p] # Null THEN InsertFixups(linked, n) ELSE linked
         IN  IF t.parent[p] # Null /\ ~IsRed(t, n) THEN Faulted(t, "verify")
             ELSE [fixed EXCEPT !.size = @ + 1, !.minimum = NewMinimum(fixed, n)]

\* try_insert makes a new node; the intrusive tree sets the key of the value's.
Insert(n, k) ==
    LET t == [tree EXCEPT !.key[n] = k, !.used = @ \union {n},
                          !.parent[n] = IF Intrusive THEN @ ELSE Null,
                          !.color[n] = IF Intrusive THEN @ ELSE "Red"]
    IN  /\ Running(tree) /\ n \notin tree.used
        /\ Intrusive \/ \A m \in Node \ tree.used : n <= m \* which is free does not matter
        /\ tree' = [BaseInsert(t, n) EXCEPT !.did = [op |-> "insert", key |-> k]]

-----------------------------------------------------------------------------
(* Removal                                                                 *)

\* A node with two children changes places, and colours, with its successor.
\* Mutant: the colours stay where they were.
ColorsKept(t, n, s) == t.color
ColorsSwapped(t, n, s) == [t.color EXCEPT ![n] = t.color[s], ![s] = t.color[n]]

PlacesSwapped(t, n) ==
    LET s == Neighbour(t, "right", n)
        adjacent == t.parent[s] = n
        below == [t EXCEPT !.parent = [m \in Node |->
                     IF m = s THEN t.parent[n]
                     ELSE IF m = n THEN IF adjacent THEN s ELSE t.parent[s]
                     ELSE IF m \in {t.child.left[n], t.child.right[n]} THEN s
                     ELSE IF m = t.child.right[s] THEN n ELSE @[m]]]
        above == Relinked(below, t.parent[n], n, s)
        both == IF adjacent THEN above ELSE Relinked(above, t.parent[s], s, n)
    IN  [both EXCEPT !.child.left[n] = t.child.left[s], !.child.left[s] = t.child.left[n],
                     !.child.right[n] = t.child.right[s],
                     !.child.right[s] = IF adjacent THEN n ELSE t.child.right[n],
                     !.color = ColorsSwapped(t, n, s)]

RECURSIVE RemoveFixups(_, _, _)
RemoveFixups(t, n, p) ==
    IF n = t.root \/ IsRed(t, n) THEN [t EXCEPT !.color[n] = "Black"]
    ELSE IF t.child[Other[SideOf(t, p, n)]][p] = Null THEN Faulted(t, "null")
    ELSE LET s == SideOf(t, p, n)
             o == Other[s]
             w == t.child[o][p]
             t1 == IF IsRed(t, w)
                   THEN Rotated([t EXCEPT !.color[w] = "Black", !.color[p] = "Red"], s, p) ELSE t
             w1 == t1.child[o][p]
             near == t1.child[s][w1]
             far == t1.child[o][w1]
             t2 == IF IsRed(t1, far) THEN t1
                   ELSE Rotated([t1 EXCEPT !.color[near] = "Black", !.color[w1] = "Red"], o, w1)
             w2 == t2.child[o][p]
             t3 == Rotated([t2 EXCEPT !.color[w2] = t2.color[p], !.color[p] = "Black",
                                      !.color[t2.child[o][w2]] = "Black"], s, p)
         IN  IF w1 = Null THEN Faulted(t1, "null")
             ELSE IF IsRed(t1, near) \/ IsRed(t1, far)
             THEN [t3 EXCEPT !.color[t3.root] = "Black"]
             ELSE LET reddened == [t1 EXCEPT !.color[w1] = "Red"]
                      \* the left branch says "node -> parent;"
                      next == IF s = "left" THEN n ELSE p
                  IN  IF next = Null THEN Faulted(reddened, "null")
                      ELSE RemoveFixups(reddened, next, reddened.parent[next])

\* The node with at most one child is taken out.
Spliced(t, n) ==
    LET c == IF t.child.left[n] # Null THEN t.child.left[n] ELSE t.child.right[n]
        p == t.parent[n]
        cut == Relinked(IF c = Null THEN t ELSE [t EXCEPT !.parent[c] = p], p, n, c)
        fixed == IF IsRed(t, n) THEN cut ELSE RemoveFixups(cut, c, p)
    IN  [fixed EXCEPT !.size = @ - 1]

BaseRemove(t, n) ==
    IF t.size = 1 THEN [t EXCEPT !.root = Null, !.minimum = Null, !.size = 0]
    ELSE LET m == [t EXCEPT !.minimum = IF @ = n THEN Neighbour(t, "right", n) ELSE @]
         IN  Spliced(IF t.child.left[n] # Null /\ t.child.right[n] # Null
                     THEN PlacesSwapped(m, n) ELSE m, n)

\* remove and unsafe_remove: the node found is cut off, and deleted unless it is the value's.
Released(t, N) ==
    LET cut(s) == [n \in Node |-> IF n \in N THEN Null ELSE t.child[s][n]]
    IN  [t EXCEPT !.used = @ \ N, !.child = [s \in Side |-> cut(s)],
                  !.parent = [n \in Node |-> IF n \in N /\ ~Intrusive THEN Null ELSE @[n]],
                  !.color = [n \in Node |-> IF n \in N /\ ~Intrusive THEN "Red" ELSE @[n]],
                  !.key = [n \in Node |-> IF n \in N THEN 1 ELSE @[n]]]

Remove(k) ==
    LET n == Find(tree, k)
        t == BaseRemove(tree, n)
        did == [op |-> "remove", key |-> k]
    IN  /\ Running(tree)
        /\ tree' = IF n = Null THEN [tree EXCEPT !.did = did]
                   ELSE IF ~Running(t) THEN [Faulted(EmptyTree, t.fault) EXCEPT !.did = did]
                   ELSE [Released(t, {n}) EXCEPT !.did = did]

\* clear: every node under the root is deleted, or cut off.
Clear ==
    /\ Running(tree)
    /\ tree' = [Released(tree, tree.used) EXCEPT !.root = Null, !.minimum = Null, !.size = 0,
                                                 !.did = [op |-> "clear", key |-> 0]]

Init == tree = EmptyTree

Next ==
    \/ \E n \in Node, k \in Key : Insert(n, k)
    \/ \E k \in Key : Remove(k)
    \/ Clear

Spec == Init /\ [][Next]_tree

-----------------------------------------------------------------------------
(* Properties                                                              *)

Count(t, k) == Cardinality({n \in t.used : t.key[n] = k})

\* Iterating, which is what depends on every link and on m_minimum, visits each node that
\* was inserted, once, in the order of the keys, and backwards comes the same way.
IterationVisitsAll ==
    LET visited == Iteration(tree)
    IN  Running(tree) =>
        /\ {visited[i] : i \in DOMAIN visited} = tree.used
        /\ Len(visited) = tree.size
        /\ \A i \in 1 .. Len(visited) - 1 :
              /\ tree.key[visited[i]] <= tree.key[visited[i + 1]]
              /\ Neighbour(tree, "left", visited[i + 1]) = visited[i]

\* The three searches agree with the set of keys.
SearchesAgree ==
    LET keys == {tree.key[n] : n \in tree.used}
        Is(n, K, best(_)) == IF K = {} THEN n = Null ELSE n # Null /\ best(tree.key[n])
    IN  Running(tree) => \A k \in Key :
        /\ Is(Find(tree, k), keys \intersect {k}, LAMBDA x : x = k)
        /\ LET K == {x \in keys : x <= k}
           IN  Is(FindLargestNotAbove(tree, k), K, LAMBDA x : x \in K /\ \A y \in K : y <= x)
        /\ LET K == {x \in keys : x >= k}
           IN  Is(FindSmallestNotBelow(tree, k), K, LAMBDA x : x \in K /\ \A y \in K : x <= y)

\* No red node has a red child and every way down passes as many black nodes.
RECURSIVE BlackHeights(_, _)
BlackHeights(t, n) ==
    IF n = Null THEN {1}
    ELSE {h + (IF IsRed(t, n) THEN 0 ELSE 1) :
             h \in BlackHeights(t, t.child.left[n]) \union BlackHeights(t, t.child.right[n])}
Balanced(t) ==
    /\ \A n \in t.used : IsRed(t, n) => ~IsRed(t, t.child.left[n]) /\ ~IsRed(t, t.child.right[n])
    /\ Cardinality(BlackHeights(t, t.root)) = 1
\* Insertion keeps a balanced tree balanced.
InsertionBalancesStep == Balanced(tree) /\ tree'.did.op = "insert" /\ Running(tree') => Balanced(tree')
InsertionBalances == [][InsertionBalancesStep]_tree

\* insert adds one node with its key, remove takes one away or crashes, and nothing else moves.
ChangesOneKeyStep ==
    Running(tree') => \A k \in Key : Count(tree', k) =
        CASE tree'.did.op = "clear" -> 0
          [] tree'.did.key # k -> Count(tree, k)
          [] tree'.did.op = "insert" -> Count(tree, k) + 1
          [] OTHER -> IF Count(tree, k) = 0 THEN 0 ELSE Count(tree, k) - 1
ChangesOneKey == [][ChangesOneKeyStep]_tree

\* remove_fixups takes the parent as an argument "since node might be null", and never
\* follows a null node.
NeverFollowsNull == tree.fault # "null"

\* insert_fixups VERIFYs that the node it is given is red.
InsertsRed == tree.fault # "verify"
=============================================================================
