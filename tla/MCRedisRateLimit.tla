---------------------------- MODULE MCRedisRateLimit ---------------------------
(* One client (clients share no key), two requests in flight, late by as much  *)
(* as the clock allows, and time for a third life of the first counter.        *)
EXTENDS RedisRateLimit, TLC
CONSTANTS c1, t1, t2
MCClient == {c1}
MCTask == {t1, t2}
MCSymmetry == Permutations(MCTask)
================================================================================
