------------------------------ MODULE Skiplist ------------------------------
(***************************************************************************)
(* common/cf_skiplist.c: an ordered map, as a function on its keys.  The   *)
(* levels only say how fast a key is found and are left out.               *)
(***************************************************************************)
EXTENDS Integers, FiniteSets

EmptyList == << >>

\* skiplist_insert: a key that is there keeps its value.
SkipInsert(l, key, val) ==
    [k \in DOMAIN l \union {key} |-> IF k \in DOMAIN l THEN l[k] ELSE val]

\* skiplist_remove of each of the keys
SkipRemove(l, keys) == [k \in DOMAIN l \ keys |-> l[k]]

\* skiplist_first
SkipFirst(l) == CHOOSE k \in DOMAIN l : \A j \in DOMAIN l : k <= j

\* The first n of the keys, in the order a walk meets them.
Earliest(keys, n) == {k \in keys : Cardinality({j \in keys : j < k}) < n}
=============================================================================
