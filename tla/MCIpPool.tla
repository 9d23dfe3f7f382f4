------------------------------ MODULE MCIpPool ------------------------------
(* IpPool on a small instance: two accounts, of which the tasks come back   *)
(* to the first, and two nodes, all of which work at first and the second   *)
(* of which may have to be added.  Node 1 comes from a region, node 2 does  *)
(* not say.  The variables of IpPlan stand still: MCInterleavings checks    *)
(* the plan by itself.                                                      *)
EXTENDS IpPool

MCHomeRegion == <<1, NoRegion>>

MCInit == PoolInit /\ node[1] = Fresh /\ works = Nodes /\ input = <<>> /\ output = <<>>
MCNext == PoolNext /\ UNCHANGED planVars
MCSpec == MCInit /\ [][MCNext]_<<planVars, poolVars>> /\ PoolFairness
=============================================================================
