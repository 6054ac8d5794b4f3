--------------------------- MODULE MCMemoryRateLimit ---------------------------
(* Two clients, two requests in flight, two windows of two seconds.           *)
EXTENDS MemoryRateLimit, TLC
CONSTANTS alice, bob, t1, t2
MCClient == {alice, bob}
MCTask == {t1, t2}
MCSymmetry == Permutations(MCClient) \cup Permutations(MCTask)
================================================================================
