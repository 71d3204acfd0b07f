--------------------------- MODULE MC_hashtable ---------------------------
(* Hashes, double hashes and sizes of allocations for HashTable. *)
EXTENDS HashTable

CONSTANTS k1, k2, k3, k4

\* In 4 and in 8 buckets k1 and k3 have one home, k2 and k4 the next, and the ways of k1
\* and k2 lead to each other's home; of k3 and k4 to the others in 4 buckets.
MCHashOf == (k1 :> 16) @@ (k2 :> 17) @@ (k3 :> 8) @@ (k4 :> 9)

\* One cycle through all the hashes, as double_hash's xorshift is.
MCDoubleHash == [h \in 0 .. 17 |-> (7 * h + 5) % 18]

\* Allocations are rounded up to a multiple of four buckets.
MCGoodSize == [n \in 0 .. 2 * MaxCapacity |-> 4 * ((n + 3) \div 4)]
=============================================================================
