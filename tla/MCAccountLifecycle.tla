------------------------- MODULE MCAccountLifecycle -------------------------
(* AccountLifecycle with two proxied requests at a time and two            *)
(* credentials.                                                            *)
EXTENDS AccountLifecycle, TLC
CONSTANTS r1, r2, c1, c2

MCRequests == {r1, r2}
MCCookies == {c1, c2}
Alike == Permutations(MCRequests) \cup Permutations(MCCookies)
=============================================================================
