--------------------------- MODULE MCAccountSlots ---------------------------
(* AccountSlots on a small instance: two requests of two instances that     *)
(* rank two accounts of one slot each differently.                          *)
EXTENDS AccountSlots
CONSTANTS r1, r2, i1, i2, a1, a2

TwoRequests == {r1, r2}
TwoAccounts == {a1, a2}
TwoInstances == {i1, i2}
MCInstanceOf == [r \in Requests |-> IF r = r2 THEN i2 ELSE i1]
\* Affinity makes r2 prefer the account that r1 tries last.
MCRank == [r \in Requests |-> [a \in Accounts |-> IF (a = a1) = (r = r2) THEN 2 ELSE 1]]
=============================================================================
