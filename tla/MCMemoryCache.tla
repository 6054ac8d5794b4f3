------------------------------ MODULE MCMemoryCache ----------------------------
(* Three keys in a cache of two entries, lifetimes of one and two seconds.    *)
EXTENDS MemoryCache, TLC
CONSTANTS k1, k2, k3, v1, v2
MCKey == {k1, k2, k3}
MCValue == {v1, v2}
MCSymmetry == Permutations(MCKey) \cup Permutations(MCValue)
================================================================================
