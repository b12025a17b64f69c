----------------------------- MODULE StorageMap -----------------------------
(***************************************************************************)
(* FRAME's StorageMap as the pallets use it: a partial function from keys  *)
(* to values.  A key outside the domain is a key for which `get` gives     *)
(* None; `insert` overwrites, `remove` of an absent key does nothing.      *)
(***************************************************************************)

\* StorageMap::contains_key / get(k).is_some()
Has(m, k) == k \in DOMAIN m

\* StorageMap::insert
MapInsert(m, k, v) ==
  [x \in DOMAIN m \cup {k} |-> IF x = k THEN v ELSE m[x]]

\* StorageMap::remove
MapRemove(m, k) == [x \in DOMAIN m \ {k} |-> m[x]]

\* One insert per element of DOMAIN n, whose keys are distinct.
MapInsertAll(m, n) ==
  [x \in DOMAIN m \cup DOMAIN n |-> IF x \in DOMAIN n THEN n[x] ELSE m[x]]

\* The storage before the first insert.
EmptyMap == [x \in {} |-> x]

\* All partial functions from K to V.
PartialMaps(K, V) == UNION {[D -> V] : D \in SUBSET K}
=============================================================================
