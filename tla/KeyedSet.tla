------------------------------ MODULE KeyedSet ------------------------------
(***************************************************************************)
(* What AK's HashTable promises its users: elements told apart by a key,   *)
(* with no buckets, hashes or capacities.  HashTable implements it.        *)
(***************************************************************************)
CONSTANTS Key, Value

VARIABLE contents

vars == contents

Element == [key : Key, value : Value]
Keys == {e.key : e \in contents}

Init == contents = {}

\* set with Replace, or with Keep, which leaves an element that is there alone.
Replace(e) == contents' = {f \in contents : f.key # e.key} \union {e}
Keep(e) == contents' = IF e.key \in Keys THEN contents ELSE contents \union {e}

\* remove takes one key, remove_all_matching and clear any set of them.
RemoveAll(K) == contents' = {f \in contents : f.key \notin K}

Next ==
    \/ \E e \in Element : Replace(e) \/ Keep(e)
    \/ \E K \in SUBSET Key : RemoveAll(K)

Spec == Init /\ [][Next]_vars
=============================================================================
