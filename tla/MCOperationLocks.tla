-------------------------- MODULE MCOperationLocks --------------------------
(* OperationLocks on a small instance: two instances, two accounts, a task  *)
(* and the two refreshes it asks for, and a deletion of both accounts.      *)
EXTENDS OperationLocks
CONSTANTS i1, i2, refresh1, refresh2, deletion, task

TwoInstances == {i1, i2}
TwoAccounts == {2, 3}
OneTask == {1}
Assignment == 4

LiveOps == {refresh1, refresh2, deletion, task}

JustRefresh1 == {refresh1}

MCInstanceOf == [o \in Ops |-> IF o = deletion THEN i2 ELSE i1]
MCKindOf ==
    [o \in Ops |-> CASE o \in {refresh1, refresh2} -> "refresh"
                     [] o = task -> "task"
                     [] OTHER -> "deletion"]
MCKeysOf ==
    [o \in Ops |-> CASE o = refresh1 -> {2}
                     [] o = refresh2 -> {3}
                     [] o = task -> {1}
                     [] OTHER -> {2, 3}]
=============================================================================
