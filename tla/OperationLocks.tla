--------------------------- MODULE OperationLocks ---------------------------
(***************************************************************************)
(* How the operations of all instances take turns: the promise chain of    *)
(* each account within an instance (server/utils/account-operation-        *)
(* queue.ts), PostgreSQL session locks taken on connections of a pool of   *)
(* their own (server/utils/db.ts, withAdvisoryLocks), the refresh that     *)
(* concurrent callers share (server/utils/accounts.ts, refreshAccount),    *)
(* and the scheduled tasks that refresh many accounts at a time.           *)
(*                                                                         *)
(* An operation that finds its account without a usable node takes the     *)
(* assignment lock as well, on a second connection (server/utils/          *)
(* ip-pool.ts, ensureStableIpAssignments).                                 *)
(*                                                                         *)
(* Lock names are numbers.  Account ids keep their order, in which         *)
(* withAccountLocks takes them; the names of tasks come before and the     *)
(* name of the assignment after them.                                      *)
(***************************************************************************)
EXTENDS Integers, Sequences, FiniteSets

CONSTANTS
    Instances,
    Accounts,       \* account-operation:<id>, and account-import:<hash>
    TaskNames,      \* scheduled-task:<name>
    AssignmentKey,  \* ip-pool-assignment
    Ops,            \* calls that may be under way, of whatever kind
    InstanceOf,     \* the instance an operation runs in
    KindOf,
    KeysOf,         \* the locks an operation takes on its first connection
    Connections,    \* POSTGRES_LOCK_POOL_MAX
    RefreshConcurrency,
    Unreliable,     \* bound: the operations whose connections may die
    Nobody,         \* a lock that is free
    Gone            \* the server still holds it for a connection that is dead

\* "operation": runAccountOperation; "refresh": the same, shared between its
\* callers; "deletion": withAccountLocks, and an import under
\* withAuthCookieLocks, which takes names that nothing else takes;
\* "assignment": the assignment asked for by an edit of the pool; "health":
\* the health check, which may end with an assignment, or another task that
\* refreshes nothing; "task": a task that refreshes accounts.
Kinds == {"operation", "refresh", "deletion", "assignment", "health", "task"}
Keys == TaskNames \cup Accounts \cup {AssignmentKey}

ASSUME LockAssumption ==
    /\ IsFiniteSet(Ops)
    /\ Accounts \subseteq Nat
    /\ TaskNames \subseteq Nat
    /\ AssignmentKey \in Nat
    /\ \A t \in TaskNames, a \in Accounts : t < a
    /\ \A k \in TaskNames \cup Accounts : k < AssignmentKey
    /\ InstanceOf \in [Ops -> Instances]
    /\ KindOf \in [Ops -> Kinds]
    /\ KeysOf \in [Ops -> SUBSET Keys]
    /\ \A o \in Ops : KeysOf[o] # {} /\ IsFiniteSet(KeysOf[o])
    /\ \A o \in Ops : KindOf[o] \in {"operation", "refresh"} =>
                          \E a \in Accounts : KeysOf[o] = {a}
    /\ \A o \in Ops : KindOf[o] = "deletion" => KeysOf[o] \subseteq Accounts
    /\ \A o \in Ops : KindOf[o] = "assignment" => KeysOf[o] = {AssignmentKey}
    /\ \A o \in Ops : KindOf[o] \in {"health", "task"} =>
                          \E t \in TaskNames : KeysOf[o] = {t}
    /\ Connections \in Nat \ {0}
    /\ RefreshConcurrency \in Nat \ {0}
    /\ Nobody \notin Ops
    /\ Gone \notin Ops
    /\ Nobody # Gone

VARIABLES
    at,        \* how far each operation has come
    chain,     \* AccountOperationQueue of an instance: per account, in order
    conn,      \* the connection that holds the locks of KeysOf
    nested,    \* the second connection, for the assignment lock
    owner,     \* what the server knows: the operation whose session holds a lock
    todo,      \* the accounts a task has not refreshed yet
    awaiting,  \* the refreshes the workers of a task wait for
    failures   \* the workers of a task that a refresh has rejected

vars == <<at, chain, conn, nested, owner, todo, awaiting, failures>>
taskVars == <<todo, awaiting, failures>>

\* "settling": a refresh whose operation is over and whose callers have not
\* been answered yet; "closing": a task that a refresh has rejected.
Inside == {"ready", "connectingAssign", "lockingAssign", "assigning", "inside", "closing"}
Places == {"idle", "queued", "connecting", "locking", "settling"} \cup Inside
ConnStates == {"none", "open", "lost"}

Queued(o) == KindOf[o] \in {"operation", "refresh"}
Tries(o) == KindOf[o] \in {"health", "task"}
Assigns(o) == KindOf[o] \in {"operation", "refresh", "health"}
Refreshes == {o \in Ops : KindOf[o] = "refresh"}
AccountOf(o) == CHOOSE k \in KeysOf[o] : TRUE
ChainOf(o) == chain[InstanceOf[o]][AccountOf(o)]

InUse(i) ==
    Cardinality({o \in Ops : InstanceOf[o] = i /\ conn[o] # "none"})
      + Cardinality({o \in Ops : InstanceOf[o] = i /\ nested[o] # "none"})

\* The locks are taken in ascending order, one statement each.
Missing(o) == {k \in KeysOf[o] : owner[k] # o}
NextKey(o) == CHOOSE k \in Missing(o) : \A j \in Missing(o) : k <= j

\* A task that was rejected leaves its other workers behind.
Abandoned(o) == awaiting[o] # {} \/ (todo[o] # {} /\ failures[o] < RefreshConcurrency)

\* A refresh that a caller of the same instance would share.
Shared(i, a, o) ==
    /\ KindOf[o] = "refresh" /\ InstanceOf[o] = i /\ KeysOf[o] = {a}
    /\ at[o] # "idle"

\* Bound: an account is due only where Ops has a refresh for it.
Refreshable(i) ==
    {a \in Accounts : \E o \in Ops :
        KindOf[o] = "refresh" /\ InstanceOf[o] = i /\ KeysOf[o] = {a}}

Init ==
    /\ at = [o \in Ops |-> "idle"]
    /\ chain = [i \in Instances |-> [a \in Accounts |-> <<>>]]
    /\ conn = [o \in Ops |-> "none"]
    /\ nested = [o \in Ops |-> "none"]
    /\ owner = [k \in Keys |-> Nobody]
    /\ todo = [o \in Ops |-> {}]
    /\ awaiting = [o \in Ops |-> {}]
    /\ failures = [o \in Ops |-> 0]

-----------------------------------------------------------------------------
(* Arriving.                                                               *)

Enqueue(o) ==
    /\ at' = [at EXCEPT ![o] = "queued"]
    /\ chain' = [chain EXCEPT ![InstanceOf[o]][AccountOf(o)] = Append(@, o)]

\* A second refresh of an account within an instance joins the first.
Start(o) ==
    /\ at[o] = "idle"
    /\ ~Abandoned(o)
    /\ KindOf[o] = "refresh" => \A p \in Ops : ~Shared(InstanceOf[o], AccountOf(o), p)
    /\ IF Queued(o)
       THEN Enqueue(o)
       ELSE at' = [at EXCEPT ![o] = "connecting"] /\ UNCHANGED chain
    /\ UNCHANGED <<conn, nested, owner, taskVars>>

\* Faulty variant: the operation does not wait for the chain.
BeginAtOnce(o) ==
    /\ at[o] = "queued"
    /\ at' = [at EXCEPT ![o] = "connecting"]
    /\ UNCHANGED <<chain, conn, nested, owner, taskVars>>

\* The operations before it in the chain are over.
Begin(o) ==
    /\ at[o] = "queued"
    /\ Head(ChainOf(o)) = o
    /\ at' = [at EXCEPT ![o] = "connecting"]
    /\ UNCHANGED <<chain, conn, nested, owner, taskVars>>

-----------------------------------------------------------------------------
(* Ending.  The locks are released, then the connections, then the chain   *)
(* goes on; the callers of a refresh are answered last.                    *)

\* Faulty variant: the failures are counted down.
AnswerCountsDown(o, ok, next) ==
    /\ at' = [at EXCEPT ![o] = next]
    /\ awaiting' = [x \in Ops |-> awaiting[x] \ {o}]
    /\ failures' = [x \in Ops |->
                       IF o \in awaiting[x] /\ ~ok THEN failures[x] - 1 ELSE failures[x]]
    /\ UNCHANGED todo

\* The promise of refresh o is settled: the workers that wait for it go on, or
\* die and reject their task.
Answer(o, ok, next) ==
    /\ at' = [x \in Ops |->
                 IF x = o THEN next
                 ELSE IF o \in awaiting[x] /\ ~ok /\ at[x] = "ready" THEN "closing"
                 ELSE at[x]]
    /\ awaiting' = [x \in Ops |-> awaiting[x] \ {o}]
    /\ failures' = [x \in Ops |->
                       IF o \in awaiting[x] /\ ~ok THEN failures[x] + 1 ELSE failures[x]]
    /\ UNCHANGED todo

Unlock(o) == owner' = [k \in Keys |-> IF owner[k] = o THEN Nobody ELSE owner[k]]
Advance(o) ==
    IF Queued(o)
    THEN chain' = [chain EXCEPT ![InstanceOf[o]][AccountOf(o)] = Tail(@)]
    ELSE UNCHANGED chain

\* Faulty variant: the second connection stays with an operation that throws.
EndKeepsNested(o, ok) ==
    /\ Unlock(o) /\ Advance(o)
    /\ conn' = [conn EXCEPT ![o] = "none"]
    /\ Answer(o, ok, "idle")
    /\ UNCHANGED nested

\* Faulty variant: a refresh that throws leaves its callers without an answer.
EndUnanswered(o, ok) ==
    /\ Unlock(o) /\ Advance(o)
    /\ conn' = [conn EXCEPT ![o] = "none"]
    /\ nested' = [nested EXCEPT ![o] = "none"]
    /\ at' = [at EXCEPT ![o] = "idle"]
    /\ UNCHANGED taskVars

End(o, ok) ==
    /\ Unlock(o) /\ Advance(o)
    /\ conn' = [conn EXCEPT ![o] = "none"]
    /\ nested' = [nested EXCEPT ![o] = "none"]
    /\ IF KindOf[o] = "refresh" /\ ok
       THEN at' = [at EXCEPT ![o] = "settling"] /\ UNCHANGED taskVars
       ELSE Answer(o, ok, "idle")

\* A refresh reads the settings before it answers its callers, which may fail.
Settle(o, ok) ==
    /\ at[o] = "settling"
    /\ Answer(o, ok, "idle")
    /\ UNCHANGED <<chain, conn, nested, owner>>

\* The operation returns or throws.
Finish(o, ok) ==
    /\ \/ at[o] \in {"ready", "inside"} /\ KindOf[o] # "task"
       \/ at[o] = "ready" /\ KindOf[o] = "task" /\ todo[o] = {} /\ awaiting[o] = {}
       \/ at[o] = "closing"
    /\ End(o, ok)

-----------------------------------------------------------------------------
(* The first connection and its locks.                                     *)

Connect(o) ==
    /\ at[o] = "connecting"
    /\ InUse(InstanceOf[o]) < Connections
    /\ conn' = [conn EXCEPT ![o] = "open"]
    /\ at' = [at EXCEPT ![o] = "locking"]
    /\ UNCHANGED <<chain, nested, owner, taskVars>>

\* Faulty variant: a pool without a timeout fails only when the server refuses.
ConnectRefused(o) ==
    /\ at[o] \in {"connecting", "connectingAssign"}
    /\ InUse(InstanceOf[o]) < Connections
    /\ End(o, FALSE)

\* connectionTimeoutMillis, or the server refuses.
ConnectFails(o) ==
    /\ at[o] \in {"connecting", "connectingAssign"}
    /\ End(o, FALSE)

\* Faulty variant: one lock is enough.
LockFirstOnly(o) ==
    /\ at[o] = "locking" /\ conn[o] = "open"
    /\ owner[NextKey(o)] = Nobody
    /\ owner' = [owner EXCEPT ![NextKey(o)] = o]
    /\ at' = [at EXCEPT ![o] = "ready"]
    /\ UNCHANGED <<chain, conn, nested, taskVars>>

\* Faulty variant: nobody looks whether the lock was granted.
LockUnchecked(o) ==
    /\ at[o] = "locking" /\ conn[o] = "open"
    /\ owner' = [owner EXCEPT ![NextKey(o)] = IF @ = Nobody THEN o ELSE @]
    /\ at' = [at EXCEPT ![o] = IF Missing(o) = {NextKey(o)} THEN "ready" ELSE @]
    /\ UNCHANGED <<chain, conn, nested, taskVars>>

\* Faulty variant: the ids are not sorted.
LockInAnyOrder(o) ==
    /\ at[o] = "locking" /\ conn[o] = "open"
    /\ \E k \in Missing(o) :
         /\ owner[k] = Nobody
         /\ owner' = [owner EXCEPT ![k] = o]
         /\ at' = [at EXCEPT ![o] = IF Missing(o) = {k} THEN "ready" ELSE @]
    /\ UNCHANGED <<chain, conn, nested, taskVars>>

\* pg_advisory_lock or pg_try_advisory_lock succeeds.  A task then reads which
\* accounts are due.
Lock(o) ==
    /\ at[o] = "locking" /\ conn[o] = "open"
    /\ owner[NextKey(o)] = Nobody
    /\ owner' = [owner EXCEPT ![NextKey(o)] = o]
    /\ at' = [at EXCEPT ![o] = IF Missing(o) = {NextKey(o)} THEN "ready" ELSE @]
    /\ IF KindOf[o] = "task"
       THEN /\ \E due \in SUBSET Refreshable(InstanceOf[o]) : todo' = [todo EXCEPT ![o] = due]
            /\ failures' = [failures EXCEPT ![o] = 0]
            /\ UNCHANGED awaiting
       ELSE UNCHANGED taskVars
    /\ UNCHANGED <<chain, conn, nested>>

\* { wait: false }: another runner has the task.
Decline(o) ==
    /\ at[o] = "locking" /\ conn[o] = "open"
    /\ Tries(o)
    /\ owner[NextKey(o)] # Nobody
    /\ End(o, TRUE)

\* A statement on a dead connection is rejected.
LockFails(o) ==
    /\ \/ at[o] = "locking" /\ conn[o] = "lost"
       \/ at[o] = "lockingAssign" /\ nested[o] = "lost"
    /\ End(o, FALSE)

-----------------------------------------------------------------------------
(* The assignment lock, on a second connection.                            *)

AskAssignment(o) ==
    /\ at[o] = "ready"
    /\ Assigns(o)
    /\ at' = [at EXCEPT ![o] = "connectingAssign"]
    /\ UNCHANGED <<chain, conn, nested, owner, taskVars>>

ConnectAssign(o) ==
    /\ at[o] = "connectingAssign"
    /\ InUse(InstanceOf[o]) < Connections
    /\ nested' = [nested EXCEPT ![o] = "open"]
    /\ at' = [at EXCEPT ![o] = "lockingAssign"]
    /\ UNCHANGED <<chain, conn, owner, taskVars>>

LockAssign(o) ==
    /\ at[o] = "lockingAssign" /\ nested[o] = "open"
    /\ owner[AssignmentKey] = Nobody
    /\ owner' = [owner EXCEPT ![AssignmentKey] = o]
    /\ at' = [at EXCEPT ![o] = "assigning"]
    /\ UNCHANGED <<chain, conn, nested, taskVars>>

\* A failing unlock is swallowed.
Assigned(o) ==
    /\ at[o] = "assigning"
    /\ owner' = [owner EXCEPT ![AssignmentKey] = IF @ = o THEN Nobody ELSE @]
    /\ nested' = [nested EXCEPT ![o] = "none"]
    /\ at' = [at EXCEPT ![o] = "inside"]
    /\ UNCHANGED <<chain, conn, taskVars>>

AssignFails(o) ==
    /\ at[o] = "assigning"
    /\ End(o, FALSE)

-----------------------------------------------------------------------------
(* A worker of a task refreshes the next account, or joins the refresh that *)
(* is under way.  It does so even when its task has been rejected.          *)

Launch(t, a, o) ==
    /\ KindOf[t] = "task" /\ a \in todo[t]
    /\ Cardinality(awaiting[t]) + failures[t] < RefreshConcurrency
    /\ KindOf[o] = "refresh" /\ InstanceOf[o] = InstanceOf[t] /\ KeysOf[o] = {a}
    /\ IF Shared(InstanceOf[t], a, o)
       THEN UNCHANGED <<at, chain>>
       ELSE /\ \A p \in Ops : ~Shared(InstanceOf[t], a, p)
            /\ Enqueue(o)
    /\ todo' = [todo EXCEPT ![t] = @ \ {a}]
    /\ awaiting' = [awaiting EXCEPT ![t] = @ \cup {o}]
    /\ UNCHANGED <<conn, nested, owner, failures>>

-----------------------------------------------------------------------------
(* Failures.                                                               *)

\* A connection dies.  Only its next statement notices: the operation goes on.
LoseConnection(o) ==
    /\ conn[o] = "open" /\ o \in Unreliable
    /\ conn' = [conn EXCEPT ![o] = "lost"]
    /\ owner' = [k \in Keys |-> IF k \in KeysOf[o] /\ owner[k] = o THEN Gone ELSE owner[k]]
    /\ UNCHANGED <<at, chain, nested, taskVars>>

LoseNested(o) ==
    /\ nested[o] = "open" /\ o \in Unreliable
    /\ nested' = [nested EXCEPT ![o] = "lost"]
    /\ owner' = [owner EXCEPT ![AssignmentKey] = IF @ = o THEN Gone ELSE @]
    /\ UNCHANGED <<at, chain, conn, taskVars>>

\* An instance stops: what it had in memory is lost.
Crash(i) ==
    LET Here(o) == InstanceOf[o] = i IN
    /\ \E o \in Ops : Here(o) /\ (at[o] # "idle" \/ Abandoned(o))
    /\ at' = [o \in Ops |-> IF Here(o) THEN "idle" ELSE at[o]]
    /\ chain' = [chain EXCEPT ![i] = [a \in Accounts |-> <<>>]]
    /\ conn' = [o \in Ops |-> IF Here(o) THEN "none" ELSE conn[o]]
    /\ nested' = [o \in Ops |-> IF Here(o) THEN "none" ELSE nested[o]]
    /\ owner' = [k \in Keys |->
                    IF owner[k] \in Ops /\ Here(owner[k]) THEN Gone ELSE owner[k]]
    /\ todo' = [o \in Ops |-> IF Here(o) THEN {} ELSE todo[o]]
    /\ awaiting' = [o \in Ops |-> IF Here(o) THEN {} ELSE awaiting[o]]
    /\ failures' = [o \in Ops |-> IF Here(o) THEN 0 ELSE failures[o]]

\* The server notices a dead connection and frees the locks of its session.
Reap(k) ==
    /\ owner[k] = Gone
    /\ owner' = [owner EXCEPT ![k] = Nobody]
    /\ UNCHANGED <<at, chain, conn, nested, taskVars>>

-----------------------------------------------------------------------------

OpStep(o) ==
    \/ Start(o) \/ Begin(o) \/ Connect(o) \/ ConnectFails(o)
    \/ Lock(o) \/ Decline(o) \/ LockFails(o)
    \/ AskAssignment(o) \/ ConnectAssign(o) \/ LockAssign(o) \/ Assigned(o)
    \/ AssignFails(o)
    \/ LoseConnection(o) \/ LoseNested(o)
    \/ \E ok \in BOOLEAN : Finish(o, ok) \/ Settle(o, ok)
    \/ \E a \in Accounts, r \in Ops : Launch(o, a, r)

Next ==
    \/ \E o \in Ops : OpStep(o)
    \/ \E i \in Instances : Crash(i)
    \/ \E k \in Keys : Reap(k)

Locks(o) == Lock(o) \/ Decline(o) \/ LockAssign(o)
Goes(o) ==
    \/ Begin(o) \/ Connect(o) \/ ConnectAssign(o) \/ ConnectFails(o) \/ LockFails(o)
    \/ Assigned(o) \/ AssignFails(o)
    \/ \E ok \in BOOLEAN : Finish(o, ok) \/ Settle(o, ok)
    \/ \E a \in Accounts, r \in Ops : Launch(o, a, r)

\* Promises continue; connecting ends at the latest at its timeout; statements
\* and network calls end; the server notices dead connections.  It serves the
\* sessions that wait for a lock in order of arrival, hence the strong fairness.
Fairness ==
    /\ \A o \in Ops : WF_vars(Goes(o)) /\ SF_vars(Locks(o))
    /\ \A k \in Keys : WF_vars(Reap(k))

Spec == Init /\ [][Next]_vars
FairSpec == Spec /\ Fairness

-----------------------------------------------------------------------------
(* Properties.                                                             *)

\* Every variable keeps its type (the declarations of the Maps in
\* account-operation-queue.ts and accounts.ts, the session locks of db.ts).
TypeOK ==
    /\ at \in [Ops -> Places]
    /\ chain \in [Instances -> [Accounts -> Seq(Ops)]]
    /\ conn \in [Ops -> ConnStates]
    /\ nested \in [Ops -> ConnStates]
    /\ owner \in [Keys -> Ops \cup {Nobody, Gone}]
    /\ todo \in [Ops -> SUBSET Accounts]
    /\ awaiting \in [Ops -> SUBSET Refreshes]
    /\ failures \in [Ops -> Nat]

\* The locks an operation relies on, and the connections it has them on.
Uses(o) ==
    (IF at[o] \in Inside THEN KeysOf[o] ELSE {})
      \cup (IF at[o] = "assigning" THEN {AssignmentKey} ELSE {})
Lost(o, k) == IF k \in KeysOf[o] THEN conn[o] = "lost" ELSE nested[o] = "lost"

\* Two operations work under the same lock only if one of them has lost its
\* connection (withAdvisoryLocks, across instances and over crashes): one
\* operation per account, one assignment, one runner of a task at a time.
LockIsExclusive ==
    \A o, p \in Ops : \A k \in Uses(o) \cap Uses(p) :
        o # p => Lost(o, k) \/ Lost(p, k)

\* Within an instance the operations of one account never overlap, not even
\* those whose connection is lost (AccountOperationQueue.run).
ChainIsExclusive ==
    \A o, p \in Ops :
        /\ o # p /\ Queued(o) /\ Queued(p)
        /\ InstanceOf[o] = InstanceOf[p] /\ KeysOf[o] = KeysOf[p]
        => ~ (at[o] \in Inside /\ at[p] \in Inside)

\* Whatever way an operation ends, it leaves no lock and no connection behind
\* (the finally of withAdvisoryLocks, the nested one included).
NothingLeft(o) ==
    /\ \A k \in Keys : owner[k] = o =>
          IF k \in KeysOf[o]
          THEN conn[o] = "open" /\ at[o] \in Inside \cup {"locking"}
          ELSE k = AssignmentKey /\ nested[o] = "open" /\ at[o] = "assigning"
    /\ conn[o] # "none" => at[o] \in Inside \cup {"locking"}
    /\ nested[o] # "none" => at[o] \in {"lockingAssign", "assigning"}
NothingLeaks == \A o \in Ops : NothingLeft(o)

\* No worker of a task waits for a refresh that will never answer it
\* (refreshAccount, the shared promise and its finally).
AwaitedIsLive ==
    \A t \in Ops : \A o \in awaiting[t] : at[o] # "idle"

\* Who keeps whom from going on: by a lock, by its place in the chain of the
\* account, or by a refresh that a task waits for.  Waiting for a connection
\* is not in it: it ends at the timeout.
WaitsFor(o, p) ==
    \/ at[o] = "locking" /\ conn[o] = "open" /\ ~Tries(o) /\ owner[NextKey(o)] = p
    \/ at[o] = "lockingAssign" /\ nested[o] = "open" /\ owner[AssignmentKey] = p
    \/ at[o] = "queued" /\ Head(ChainOf(o)) = p /\ p # o
    \/ p \in awaiting[o]

\* An operation with a live connection has the locks of its section; it takes
\* them in order, and the assignment lock after all of them.
HoldsKeys(o) ==
    /\ at[o] \in Inside /\ conn[o] # "lost" => \A k \in KeysOf[o] : owner[k] = o
    /\ at[o] = "assigning" /\ nested[o] # "lost" => owner[AssignmentKey] = o
    /\ at[o] = "locking" /\ conn[o] # "lost" =>
         /\ Missing(o) # {}
         /\ \A k \in KeysOf[o], j \in Missing(o) : owner[k] = o => k < j
    /\ at[o] \in {"connectingAssign", "lockingAssign", "assigning"} => Assigns(o)
    /\ awaiting[o] # {} \/ at[o] = "closing" => KindOf[o] = "task"
    /\ at[o] = "settling" => KindOf[o] = "refresh"
KeysHeld == \A o \in Ops : HoldsKeys(o)

\* The chain of an account holds operations of that account only, and the one
\* that has begun is its first.
GoodChain(s, i, a) ==
    \A n \in 1..Len(s) : Queued(s[n]) /\ InstanceOf[s[n]] = i /\ KeysOf[s[n]] = {a}
InChain(s, o) == \E n \in 1..Len(s) : s[n] = o
First(s, o) == Len(s) >= 1 /\ s[1] = o
Begun == {"connecting", "locking"} \cup Inside
ChainInOrder ==
    /\ \A i \in Instances, a \in Accounts : GoodChain(chain[i][a], i, a)
    /\ \A o \in Ops : at[o] = "queued" => Queued(o) /\ InChain(ChainOf(o), o)
    /\ \A o \in Ops : Queued(o) /\ at[o] \in Begun => First(ChainOf(o), o)

\* What the exclusion and the absence of circles rest on.
LockInv == TypeOK /\ NothingLeaks /\ KeysHeld /\ ChainInOrder

Waiting == {o \in Ops : \E p \in Ops : WaitsFor(o, p)}

\* Operations never wait for each other in a circle: in every set of operations
\* that wait there is one that waits for none of them (the sorted keys of
\* withAccountLocks, the assignment lock taken last, tasks that only try).
NoCircularWait ==
    \A S \in SUBSET Waiting : S # {} => \E o \in S : \A p \in S : ~WaitsFor(o, p)

\* Whatever an operation waits for, it ends: as many operations as there are
\* connections, each waiting for a second one, are freed by the timeout
\* (connectionTimeoutMillis in buildPool).
OperationEnds ==
    \A o \in Ops : at[o] # "idle" ~> at[o] = "idle"
=============================================================================
