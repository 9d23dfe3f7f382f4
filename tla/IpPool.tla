------------------------------- MODULE IpPool -------------------------------
(***************************************************************************)
(* The pool of outbound nodes beside its writers (src/server/utils/         *)
(* ip-pool.ts, proxy-health.ts and src/server/api/ip-pool): an operator who *)
(* adds, edits, closes, deletes and tests nodes, the scheduled health       *)
(* check, and account operations that ask for a usable node.  All of them   *)
(* end in ensureStableIpAssignments, which plans under one advisory lock    *)
(* from two reads of the database.                                         *)
(*                                                                         *)
(* A node's URL is a version number, 1 as created and 2 once edited; its    *)
(* latency, its last IP and its error text are left out, and so is the      *)
(* streak: checkEntry returns either no late ping or MaxPings of them.      *)
(***************************************************************************)
EXTENDS IpPlan

CONSTANTS Accounts,    \* ids of the accounts
          Scheduled,   \* those that scheduled tasks come back to
          Nodes,       \* ids of the nodes, positive
          HomeRegion,  \* region of each node as imported
          MaxPings,    \* MAX_PINGS_PER_RUN
          MaxEvents    \* bound: edits, tests, crashes and changes of a network

ASSUME PoolAssumption ==
  /\ Accounts \subseteq Nat \ {0} /\ IsFiniteSet(Accounts)
  /\ Scheduled \subseteq Accounts
  /\ Nodes \subseteq Nat \ {0}
  /\ HomeRegion \in [Nodes -> Regions \cup {NoRegion}]

Actors == {"operator", "checker", "refresher"}

VARIABLES
  node,     \* rows of ip_pool, those not yet created and those deleted
  works,    \* the nodes whose current URL answers in time
  binding,  \* accounts.ip_pool_id
  block,    \* the block size setting
  wants,    \* actors about to plan, or planning
  planning, \* the one among them that has the lock
  seen,     \* what each has read
  round,    \* rows the health check has still to store
  switched, \* results of this round that turned a node down
  probe,    \* the row that a manual test is about
  events

poolVars == <<node, works, binding, block, wants, planning, seen, round,
              switched, probe, events>>
plannersVars == <<wants, planning, seen>>

Event == events < MaxEvents /\ events' = events + 1

NotRead == [read |-> {}, bound |-> <<>>, open |-> {}, region |-> <<>>, size |-> 0]
NoProbe == [id |-> NoNode]

Fresh == [is |-> "live", url |-> 1, enabled |-> TRUE, health |-> "unknown"]
NoRow(why) == [is |-> why, url |-> 1, enabled |-> FALSE, health |-> "unknown"]

Exists(n) == node[n].is = "live"
RegionOf(n) == IF Exists(n) /\ node[n].url = 1 THEN HomeRegion[n] ELSE NoRegion
Available(n) ==
  n # NoNode /\ Exists(n) /\ node[n].enabled /\ node[n].health # "down"

PoolInit ==
  /\ node \in [Nodes -> {Fresh, NoRow("unborn")}]
  /\ works \in SUBSET Nodes
  /\ binding = [a \in Accounts |-> NoNode]
  /\ block \in BlockSizes
  /\ wants = {} /\ planning = {} /\ seen = [x \in Actors |-> NotRead]
  /\ round = <<>> /\ switched = {}
  /\ probe = NoProbe
  /\ events = 0

Idle(x) == x \notin wants

(* The handlers below end with ensureStableIpAssignments, whatever they did. *)
ThenEnsure(x) == wants' = wants \cup {x}

-----------------------------------------------------------------------------
(* The operator: api/ip-pool. *)

(* index.post.ts and subscriptions/[id]/import.post.ts: the URLs that are   *)
(* not there yet become rows in one statement, which may be none.           *)
Create ==
  /\ Event
  /\ Idle("operator")
  /\ \E new \in SUBSET {n \in Nodes : node[n].is = "unborn"} :
       node' = [n \in Nodes |-> IF n \in new THEN Fresh ELSE node[n]]
  /\ ThenEnsure("operator")
  /\ UNCHANGED <<works, binding, block, planning, seen, round, switched, probe>>

(* [id].patch.ts: a new URL forgets the region and the health. *)
EditUrl(n) == [node EXCEPT ![n].url = 2, ![n].health = "unknown"]
Toggle(n) == [node EXCEPT ![n].enabled = ~@]

Patch ==
  /\ Event
  /\ Idle("operator")
  /\ \E n \in Nodes :
       /\ Exists(n)
       /\ \/ node' = Toggle(n) /\ works' = works
          \/ /\ node[n].url = 1
             /\ node' = EditUrl(n)
             /\ works' \in {works \cup {n}, works \ {n}}
  /\ ThenEnsure("operator")
  /\ UNCHANGED <<binding, block, planning, seen, round, switched, probe>>

(* [id].delete.ts: the foreign key is ON DELETE SET NULL. *)
Delete ==
  /\ Event
  /\ Idle("operator")
  /\ \E n \in Nodes :
       /\ Exists(n)
       /\ node' = [node EXCEPT ![n] = NoRow("deleted")]
       /\ binding' = [a \in Accounts |-> IF binding[a] = n THEN NoNode ELSE binding[a]]
  /\ ThenEnsure("operator")
  /\ UNCHANGED <<works, block, planning, seen, round, switched, probe>>

(* settings.patch.ts and assign.post.ts. *)
SaveSettings ==
  /\ Event
  /\ Idle("operator")
  /\ block' \in BlockSizes
  /\ ThenEnsure("operator")
  /\ UNCHANGED <<node, works, binding, planning, seen, round, switched, probe>>

(* [id]/test.post.ts reads the row, pings, and records the outcome by id:   *)
(* recordIpPoolCheck.  It plans nothing.                                    *)
Probe ==
  /\ Event
  /\ probe = NoProbe
  /\ \E n \in Nodes : Exists(n) /\ probe' = [id |-> n, url |-> node[n].url]
  /\ UNCHANGED <<node, works, binding, block, wants, planning, seen, round, switched>>

(* Whether a URL that was read earlier answers: that of the node's present  *)
(* URL is known, that of a former one is anything.                          *)
MayAnswer(n, url) ==
  IF Exists(n) /\ node[n].url = url THEN {n \in works} ELSE BOOLEAN

Record ==
  /\ probe # NoProbe
  /\ \E ok \in MayAnswer(probe.id, probe.url) :
       node' = IF ok /\ Exists(probe.id)
               THEN [node EXCEPT ![probe.id].health = "healthy"]
               ELSE node
  /\ probe' = NoProbe
  /\ UNCHANGED <<works, binding, block, wants, planning, seen, round, switched, events>>

-----------------------------------------------------------------------------
(* The health check: proxy-health.ts. *)

(* runProxyHealthCheckOnce reads the enabled rows and probes from them. *)
RoundStarts ==
  /\ Idle("checker") /\ round = <<>>
  /\ LET open == {n \in Nodes : Exists(n) /\ node[n].enabled}
     IN /\ open # {}
        /\ round' = [n \in open |-> [url |-> node[n].url, health |-> node[n].health]]
  /\ switched' = {}
  /\ UNCHANGED <<node, works, binding, block, wants, planning, seen, probe, events>>

(* checkEntry: it stops at the first ping in time. *)
LatePings(answers) == IF answers THEN 0 ELSE MaxPings

(* Faulty variant: a node that has been down is not taken back. *)
HealthStaysDown(previous, late) ==
  IF late >= MaxPings \/ previous = "down" THEN "down" ELSE "healthy"

(* calculateProxyHealthState. *)
HealthState(previous, late) ==
  IF late = 0 THEN "healthy" ELSE IF late >= MaxPings THEN "down" ELSE previous

(* persistHealthResult: computed from the row that was read, written by id, *)
(* whatever has become of the node.                                         *)
Persist ==
  \E n \in DOMAIN round : \E ok \in MayAnswer(n, round[n].url) :
    LET health == HealthState(round[n].health, LatePings(ok))
        rest   == [m \in DOMAIN round \ {n} |-> round[m]]
        turned == IF round[n].health # "down" /\ health = "down"
                  THEN switched \cup {n} ELSE switched
    IN /\ node' = IF Exists(n) THEN [node EXCEPT ![n].health = health] ELSE node
       /\ round' = rest
       /\ switched' = IF rest = <<>> THEN {} ELSE turned
       /\ wants' = IF rest = <<>> /\ turned # {} THEN wants \cup {"checker"} ELSE wants
       /\ UNCHANGED <<works, binding, block, planning, seen, probe, events>>

-----------------------------------------------------------------------------
(* ensureAccountIpAssignment, at the head of every account operation. *)

(* Faulty variant: the health of the node is not looked at. *)
AsksIfClosed(a) ==
  binding[a] \notin {n \in Nodes : Exists(n) /\ node[n].enabled}

Asks(a) == ~Available(binding[a])

RefreshAsks(a) ==
  /\ Idle("refresher")
  /\ Asks(a)
  /\ ThenEnsure("refresher")
  /\ UNCHANGED <<node, works, binding, block, planning, seen, round, switched, probe, events>>

-----------------------------------------------------------------------------
(* ensureStableIpAssignments. *)

(* Faulty variant: a plan begins beside another. *)
MayLockBeside(x) == x \in wants \ planning

MayLock(x) == x \in wants /\ planning = {}

Lock(x) ==
  /\ MayLock(x)
  /\ planning' = planning \cup {x}
  /\ UNCHANGED <<node, works, binding, block, wants, seen, round, switched, probe, events>>

(* The queries of Promise.all: the accounts, and the nodes with the block   *)
(* size, in either order.                                                   *)
ReadAccounts(x) ==
  /\ x \in planning /\ "accounts" \notin seen[x].read
  /\ seen' = [seen EXCEPT ![x].read = @ \cup {"accounts"}, ![x].bound = binding]
  /\ UNCHANGED <<node, works, binding, block, wants, planning, round, switched, probe, events>>

ReadNodes(x) ==
  /\ x \in planning /\ "nodes" \notin seen[x].read
  /\ seen' = [seen EXCEPT ![x].read = @ \cup {"nodes"},
                          ![x].open = {n \in Nodes : Available(n)},
                          ![x].region = [n \in Nodes |-> RegionOf(n)],
                          ![x].size = block]
  /\ UNCHANGED <<node, works, binding, block, wants, planning, round, switched, probe, events>>

Planned(x) == Plan(seen[x].bound, seen[x].open, seen[x].region, seen[x].size)
Changes(x) == {a \in Accounts : Planned(x)[a] # seen[x].bound[a]}

(* Where a plan ends, whatever it writes. *)
PlanEnds(x) ==
  /\ x \in planning /\ seen[x].read = {"accounts", "nodes"}
  /\ wants' = wants \ {x} /\ planning' = planning \ {x}
  /\ seen' = [seen EXCEPT ![x] = NotRead]
  /\ UNCHANGED <<node, works, block, round, switched, probe, events>>

(* One UPDATE: all the changes, or none when a planned node is gone and its *)
(* foreign key fails.                                                       *)
WritePlan(x) ==
  /\ PlanEnds(x)
  /\ binding' = IF \A a \in Changes(x) : Planned(x)[a] = NoNode \/ Exists(Planned(x)[a])
                THEN [a \in Accounts |-> IF a \in Changes(x) THEN Planned(x)[a] ELSE binding[a]]
                ELSE binding

-----------------------------------------------------------------------------
(* The process stops: the rows stay. *)
Dies ==
  /\ Event
  /\ wants' = {} /\ planning' = {} /\ seen' = [x \in Actors |-> NotRead]
  /\ round' = <<>> /\ switched' = {} /\ probe' = NoProbe
  /\ UNCHANGED <<node, works, binding, block>>

(* A remote node begins or ceases to answer. *)
Fluctuate ==
  /\ Event
  /\ \E n \in Nodes : works' = IF n \in works THEN works \ {n} ELSE works \cup {n}
  /\ UNCHANGED <<node, binding, block, wants, planning, seen, round, switched, probe>>

PoolNext ==
  \/ Create \/ Patch \/ Delete \/ SaveSettings
  \/ Probe \/ Record
  \/ RoundStarts \/ Persist
  \/ \E a \in Accounts : RefreshAsks(a)
  \/ \E x \in Actors : Lock(x) \/ ReadAccounts(x) \/ ReadNodes(x) \/ WritePlan(x)
  \/ Dies \/ Fluctuate

(* The tasks come round again and again (tasks/*.ts), but not for accounts  *)
(* disabled as `manual' or `auth_expired', nor for those in error that      *)
(* neither auto_refresh_errors nor a quota makes due (accounts.ts:979-1036):*)
(* these ask when somebody operates on them, if ever.  Who has asked for a  *)
(* plan gets on with it, and the health check is not passed over for ever   *)
(* by the others who wait for the lock: PostgreSQL serves them in order.    *)
PoolFairness ==
  /\ WF_poolVars(RoundStarts \/ Persist)
  /\ WF_poolVars(\E a \in Scheduled : RefreshAsks(a))
  /\ WF_plannersVars(\E x \in Actors : Lock(x) \/ ReadAccounts(x) \/ ReadNodes(x) \/ PlanEnds(x))
  /\ SF_poolVars(Lock("checker"))

-----------------------------------------------------------------------------
(* An account leaves a node that stays only by a plan that saw the node     *)
(* closed or down: plans of different actors, and edits between the reads   *)
(* and the write, never shuffle accounts that are well placed               *)
(* (ip-pool.ts:366-395).                                                    *)
Leaves(a, n) == binding[a] = n /\ binding'[a] # n

PlacementIsStable ==
  [][\A a \in Accounts, n \in Nodes :
       (Leaves(a, n) /\ Exists(n)') => \E x \in planning : n \notin seen[x].open]_poolVars

(* No account that the tasks come back to stays on a closed, down or        *)
(* deleted node, or without one, while another could serve it: even when    *)
(* the health check died between storing a node as down and moving its      *)
(* accounts, when a stale result turned it down, or when a plan failed      *)
(* (proxy-health.ts:187-296, ip-pool.ts:366-406).  Another account may stay *)
(* there: after such a crash no later round moves it.                       *)
Stranded(a, n) ==
  binding[a] = n /\ ~Available(n) /\ \E m \in Nodes : Available(m)

StrandedAccountMoves ==
  \A a \in Scheduled, n \in Nodes \cup {NoNode} : ~<>[]Stranded(a, n)

(* What the pool thinks of a node becomes true in the end, whatever stale   *)
(* results of checks and tests were written over it                         *)
(* (proxy-health.ts:187-225, ip-pool.ts:243-270).                           *)
Misjudged(n) ==
  /\ Exists(n) /\ node[n].enabled
  /\ node[n].health # IF n \in works THEN "healthy" ELSE "down"

JudgementIsMended ==
  \A n \in Nodes : /\ ~<>[](n \in works /\ Misjudged(n))
                   /\ ~<>[](n \notin works /\ Misjudged(n))
=============================================================================
