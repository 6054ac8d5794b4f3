------------------------------ MODULE MCJwksCache ------------------------------
(***************************************************************************)
(* Two keys and three key sets: key a alone, both while the provider       *)
(* rotates, and b alone once a is revoked.  Tokens signed with each, a     *)
(* forgery of b's kid, and a token that names no key.                      *)
(***************************************************************************)
EXTENDS JwksCache, TLC

CONSTANTS t1, t2, t3, a, b, signedA, signedB, forged, bare

MCKid == {a, b}
MCKidOf == [w \in Token |-> CASE w = signedA -> a
                              [] w = signedB -> b
                              [] w = forged -> b
                              [] w = bare -> NoKid]
MCGenuine == Token \ {forged}
MCKeysOf == SubSeq(<<{a}, {a, b}, {b}>>, 1, LastVersion)
MCTask2 == {t1, t2}
MCTask3 == {t1, t2, t3}
MCSymmetry2 == Permutations(MCTask2)
MCSymmetry3 == Permutations(MCTask3)
================================================================================
