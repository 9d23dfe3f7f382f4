------------------------------- MODULE IpPlan -------------------------------
(***************************************************************************)
(* planStableIpAssignments (src/server/utils/ip-pool.ts): which account     *)
(* gets which outbound node.  Accounts and nodes are their numeric ids;     *)
(* `bound' is the binding of every account before the plan, `available'     *)
(* the nodes that are enabled and not down, `region' the region of every    *)
(* node of the pool, NoNode and NoRegion the SQL NULL.                      *)
(*                                                                         *)
(* The behaviours of this module are calls of the function: an input is     *)
(* chosen, then planned.                                                    *)
(***************************************************************************)
EXTENDS Naturals, FiniteSets

CONSTANTS PlanAccounts,  \* ids of the accounts, positive
          PlanNodes,     \* ids of the nodes, positive
          Regions,       \* numbers standing for region codes, in their order
          BlockSizes     \* settings of the block size

ASSUME PlanAssumption ==
  /\ PlanAccounts \subseteq Nat \ {0} /\ IsFiniteSet(PlanAccounts)
  /\ PlanNodes \subseteq Nat \ {0}
  /\ Regions \subseteq Nat \ {0} /\ IsFiniteSet(Regions)
  /\ BlockSizes \subseteq Nat \ {0}

NoNode == 0
NoRegion == 0

-----------------------------------------------------------------------------
(* What a plan does. *)

(* Accounts without an available node: the ones to be placed. *)
Pending(bound, available) == {a \in DOMAIN bound : bound[a] \notin available}

(* Faulty variant: the accounts that stay are not counted. *)
LoadForgotten(bound, available) == [n \in available |-> 0]

(* The accounts that stay where they are are counted first. *)
Load(bound, available) ==
  [n \in available |-> Cardinality({a \in DOMAIN bound : bound[a] = n})]

LeastLoaded(count, candidates) ==
  CHOOSE n \in candidates : \A m \in candidates :
    \/ count[n] < count[m]
    \/ count[n] = count[m] /\ n <= m

(* One account of assignChunked: it goes to the node whose block is being   *)
(* filled, or begins the block of the candidate with the least accounts.    *)
Place(p, account, candidates, block) ==
  LET n    == IF p.left = 0 THEN LeastLoaded(p.count, candidates) ELSE p.target
      left == IF p.left = 0 THEN block - (p.count[n] % block) ELSE p.left
  IN [plan   |-> [p.plan EXCEPT ![account] = n],
      count  |-> [p.count EXCEPT ![n] = @ + 1],
      target |-> n,
      left   |-> left - 1]

Highest(ids) == CHOOSE i \in ids \cup {0} : \A j \in ids : j <= i

(* assignChunked: accounts, in the order of their ids, over candidates. *)
AssignChunked(p, accounts, candidates, block) ==
  LET placed[i \in 0..Highest(accounts)] ==
        IF i = 0 THEN [p EXCEPT !.left = 0]
        ELSE IF i \in accounts THEN Place(placed[i - 1], i, candidates, block)
        ELSE placed[i - 1]
  IN  placed[Highest(accounts)]

(* The region an account comes from, when a node of it is available. *)
RegionToKeep(bound, available, region, a) ==
  IF bound[a] # NoNode /\ \E n \in available : region[n] = region[bound[a]]
  THEN region[bound[a]]
  ELSE NoRegion

(* The accounts that come from region r. *)
From(r, bound, available, region) ==
  {a \in Pending(bound, available) : RegionToKeep(bound, available, region, a) = r}

(* One region after the other, over its own nodes. *)
AssignNear(p, bound, available, region, block) ==
  LET near[r \in 0..Highest(Regions)] ==
        IF r = 0 THEN p
        ELSE IF r \in Regions
             THEN AssignChunked(near[r - 1], From(r, bound, available, region),
                                {n \in available : region[n] = r}, block)
        ELSE near[r - 1]
  IN  near[Highest(Regions)]

Plan(bound, available, region, block) ==
  LET start == [plan |-> bound, count |-> Load(bound, available),
                target |-> NoNode, left |-> 0]
  IN IF available = {}
     THEN [a \in DOMAIN bound |-> IF bound[a] \in available THEN bound[a] ELSE NoNode]
     ELSE AssignChunked(AssignNear(start, bound, available, region, block),
                        From(NoRegion, bound, available, region), available, block).plan

-----------------------------------------------------------------------------
(* Calls of the function. *)

VARIABLES input, output
planVars == <<input, output>>

Inputs ==
  [bound     : [PlanAccounts -> PlanNodes \cup {NoNode}],
   available : SUBSET PlanNodes,
   region    : [PlanNodes -> Regions \cup {NoRegion}],
   block     : BlockSizes]

NotPlanned == <<>>

PlanInit == input \in Inputs /\ output = NotPlanned

Compute ==
  /\ output = NotPlanned
  /\ output' = Plan(input.bound, input.available, input.region, input.block)
  /\ UNCHANGED input

(* The next call begins with the bindings that this one left. *)
CallAgain ==
  /\ output # NotPlanned
  /\ \E open \in SUBSET PlanNodes :
       input' = [input EXCEPT !.bound = output, !.available = open]
  /\ output' = NotPlanned

PlanNext == Compute \/ CallAgain

-----------------------------------------------------------------------------
(* What a plan promises (the comments of ip-pool.ts and README.md, "IP 池"). *)

Newcomers(n) == {a \in PlanAccounts : output[a] = n /\ input.bound[a] # n}
Total(n) == Cardinality({a \in PlanAccounts : output[a] = n})

(* An account whose node is available keeps it; every other one gets an     *)
(* available node, or none if there is none.                                *)
Settled ==
  \A a \in PlanAccounts :
    IF input.bound[a] \in input.available THEN output[a] = input.bound[a]
    ELSE IF input.available = {} THEN output[a] = NoNode
    ELSE output[a] \in input.available

(* An account that must move stays in its region if it can. *)
StaysNear ==
  \A a \in Pending(input.bound, input.available) :
    LET r == RegionToKeep(input.bound, input.available, input.region, a)
    IN r # NoRegion => input.region[output[a]] = r

(* A node that receives accounts ends at most one block above any other     *)
(* available node of its region.                                            *)
Balanced ==
  \A n, m \in input.available :
    (Newcomers(n) # {} /\ input.region[n] = input.region[m])
      => Total(n) <= Total(m) + input.block

(* Planning again changes nothing. *)
Stable ==
  Plan(output, input.available, input.region, input.block) = output

(* Every plan is settled, near, balanced and stable, whatever the bindings, *)
(* the available nodes, their regions and the block size                    *)
(* (ip-pool.ts, planStableIpAssignments).                                   *)
PlanIsSound ==
  output # NotPlanned => Settled /\ StaysNear /\ Balanced /\ Stable
=============================================================================
