----------------------------- MODULE MCAccounts -----------------------------
(* What several writers keep of an account, on small instances: its row     *)
(* (AccountLifecycle) and its referral rewards (ReferralCache).  They share *)
(* no state, so one run explores them side by side: `part` names the one    *)
(* that moves.                                                              *)
EXTENDS AccountLifecycle, ReferralCache, TLC
CONSTANTS r1, r2, c1, c2, i1, i2, reward

VARIABLE part

\* Two proxied requests at a time and two credentials.
MCRequests == {r1, r2}
MCCookies == {c1, c2}

Alike == Permutations(MCRequests) \cup Permutations(MCCookies)

\* One reward known to two instances.
MCServers == {i1, i2}
MCRewards == {reward}

MCInit ==
    /\ part \in {"row", "rewards"}
    /\ Init /\ CacheInit

MCNext ==
    \/ part = "row" /\ Next /\ UNCHANGED <<part, cacheVars>>
    \/ part = "rewards" /\ CacheNext /\ UNCHANGED <<part, vars>>

MCSpec == MCInit /\ [][MCNext]_<<part, vars, cacheVars>>

=============================================================================
