---------------------------- MODULE AccountSlots ----------------------------
(***************************************************************************)
(* The leases that bound how many upstream calls an account carries at a   *)
(* time: table account_proxy_slots, shared by every instance of the        *)
(* service (server/utils/db.ts, tryAcquireAccountProxySlot), and the proxy *)
(* request that takes one, uses it and gives it back                       *)
(* (server/utils/proxy.ts, waitForAccountSlot ... responseHoldingAccount-  *)
(* Slot).                                                                  *)
(*                                                                         *)
(* Time is relative: left[p] is what remains of the lease of slot p, and   *)
(* budget[r] what remains until the abort signal of request r fires.  A    *)
(* request acts on the signal within MaxLag, the one timing assumption:    *)
(* the lease outlives the upstream timeout by Slack (60 seconds).          *)
(*                                                                         *)
(* A lease token is a fresh UUID known to one request, so the row of a     *)
(* slot is named by the request that knows its token, or Orphan when       *)
(* nobody does any more.                                                   *)
(***************************************************************************)
EXTENDS Integers, FiniteSets

CONSTANTS
    Accounts,
    Concurrency,    \* PROXY_ACCOUNT_CONCURRENCY, slots per account
    Requests,       \* calls of proxyChatCompletions
    Instances,      \* processes of the service
    InstanceOf,     \* the instance that serves a request
    Rank,           \* how a request ranks the accounts, best first
    Timeout,        \* PROXY_UPSTREAM_TIMEOUT_MS, in ticks
    Slack,          \* how much longer a lease is: 60 seconds, in ticks
    MaxLag,         \* time an in-flight call takes to react to its signal
    NoLease,        \* no row for the slot
    Orphan,         \* a row whose token nobody knows
    NoSlot          \* a request asks for none and holds none

ASSUME SlotAssumption ==
    /\ IsFiniteSet(Requests)
    /\ Concurrency \in Nat \ {0}
    /\ InstanceOf \in [Requests -> Instances]
    /\ Rank \in [Requests -> [Accounts -> Nat]]
    /\ Timeout \in Nat \ {0}
    /\ Slack \in Nat
    /\ MaxLag \in Nat
    /\ MaxLag < Slack
    /\ NoLease \notin Requests
    /\ Orphan \notin Requests
    /\ NoLease # Orphan
    /\ NoSlot \notin Accounts \X (0..Concurrency - 1)

Slots == Accounts \X (0..Concurrency - 1)
LeaseLength == Timeout + Slack
ReleaseAttempts == 3

VARIABLES
    row,       \* who can delete the row of a slot: its lessee
    left,      \* time left until expires_at of the row
    at,        \* how far each request has come
    slot,      \* the slot a request asks for or holds
    todo,      \* the accounts it tries next in this round
    budget,    \* time left until its AbortSignal fires; below zero, the lag
    failed,    \* DELETE statements that have failed in its release
    eligible   \* the accounts getProxyCandidates would return

vars == <<row, left, at, slot, todo, budget, failed, eligible>>

\* "asking": about to run the acquiring statement for slot[r]; "acquiring":
\* that statement is between its snapshot and its insert; "sleeping": every
\* slot was busy, 25 ms pause; "upstream": the call is in flight, up to the
\* last chunk of its body; "settling": an upstream 401 or 403 is being
\* recorded; "releasing": the release is deleting the row.
Waiting == {"asking", "acquiring", "sleeping"}
Places == {"idle", "upstream", "settling", "releasing"} \cup Waiting

Expired(p) == row[p] # NoLease /\ left[p] = 0

\* An acquiring statement holds FOR UPDATE the expired row it has seen: that
\* row stays until the statement ends.  A statement that saw no row locks
\* nothing, and may find one when it inserts.
Locked(p) == Expired(p) /\ \E r \in Requests : at[r] = "acquiring" /\ slot[r] = p

\* Accounts are ranked by the end of their subscription, or by the affinity
\* hash of the request; the list of candidates is the set of those eligible,
\* tried in this order.
Best(r, accounts, a) ==
    a \in accounts /\ \A b \in accounts : Rank[r][a] <= Rank[r][b]

Init ==
    /\ row = [p \in Slots |-> NoLease]
    /\ left = [p \in Slots |-> 0]
    /\ at = [r \in Requests |-> "idle"]
    /\ slot = [r \in Requests |-> NoSlot]
    /\ todo = [r \in Requests |-> {}]
    /\ budget = [r \in Requests |-> 0]
    /\ failed = [r \in Requests |-> 0]
    /\ eligible = Accounts

-----------------------------------------------------------------------------
(* waitForAccountSlot: rounds over the candidates until a slot is taken,   *)
(* no candidate is left or the signal fires.                               *)

\* The call is over and its lease token forgotten.
Leave(r) ==
    /\ at' = [at EXCEPT ![r] = "idle"]
    /\ slot' = [slot EXCEPT ![r] = NoSlot]
    /\ todo' = [todo EXCEPT ![r] = {}]
    /\ failed' = [failed EXCEPT ![r] = 0]

AskFor(r, p, rest) ==
    /\ at' = [at EXCEPT ![r] = "asking"]
    /\ slot' = [slot EXCEPT ![r] = p]
    /\ todo' = [todo EXCEPT ![r] = rest]
    /\ UNCHANGED failed

\* The first slot of the best of these accounts.
AskBest(r, accounts) ==
    \E a \in accounts : Best(r, accounts, a) /\ AskFor(r, <<a, 0>>, accounts \ {a})

\* A round begins by reading the candidates: with none the request is
\* answered 503.
StartRound(r) == IF eligible = {} THEN Leave(r) ELSE AskBest(r, eligible)

Arrive(r, b) ==
    /\ at[r] = "idle"
    /\ StartRound(r)
    /\ budget' = [budget EXCEPT ![r] = IF eligible = {} THEN 0 ELSE b]
    /\ UNCHANGED <<row, left, eligible>>

\* The slot was busy: the account's next one, else the next account, else
\* the pause between two rounds.
NextSlot(r) ==
    LET a == slot[r][1]
        k == slot[r][2]
    IN  IF k + 1 < Concurrency THEN AskFor(r, <<a, k + 1>>, todo[r])
        ELSE IF todo[r] # {} THEN AskBest(r, todo[r])
        ELSE /\ at' = [at EXCEPT ![r] = "sleeping"]
             /\ slot' = [slot EXCEPT ![r] = NoSlot]
             /\ UNCHANGED <<todo, failed>>

\* The 25 ms are over.
Wake(r) ==
    /\ at[r] = "sleeping" /\ budget[r] > 0
    /\ StartRound(r)
    /\ budget' = [budget EXCEPT ![r] = IF eligible = {} THEN 0 ELSE @]
    /\ UNCHANGED <<row, left, eligible>>

\* Faulty variant: the pause is not cut short by the signal.
SleepOn(r) ==
    /\ at[r] = "sleeping" /\ budget[r] <= 0
    /\ StartRound(r)
    /\ UNCHANGED <<row, left, budget, eligible>>

\* The signal fires, or has fired, during the pause: the wait rejects.
GiveUp(r) ==
    /\ at[r] = "sleeping" /\ budget[r] <= 0
    /\ Leave(r)
    /\ UNCHANGED <<row, left, budget, eligible>>

-----------------------------------------------------------------------------
(* tryAcquireAccountProxySlot: one SQL statement per slot, in two steps.   *)

\* Its snapshot: a free or expired slot that no other statement has locked
\* is worth an insert.
Ask(r) ==
    /\ at[r] = "asking"
    /\ LET p == slot[r]
       IN  IF row[p] = NoLease \/ (Expired(p) /\ ~Locked(p))
           THEN /\ at' = [at EXCEPT ![r] = "acquiring"]
                /\ UNCHANGED <<slot, todo, failed>>
           ELSE NextSlot(r)
    /\ UNCHANGED <<row, left, budget, eligible>>

\* Faulty variant: the lease lasts as long as the upstream timeout.
TakeWithoutSlack(r) ==
    /\ row' = [row EXCEPT ![slot[r]] = r]
    /\ left' = [left EXCEPT ![slot[r]] = Timeout]
    /\ at' = [at EXCEPT ![r] = "upstream"]
    /\ todo' = [todo EXCEPT ![r] = {}]
    /\ UNCHANGED <<slot, budget, failed, eligible>>

Take(r) ==
    /\ row' = [row EXCEPT ![slot[r]] = r]
    /\ left' = [left EXCEPT ![slot[r]] = LeaseLength]
    /\ at' = [at EXCEPT ![r] = "upstream"]
    /\ todo' = [todo EXCEPT ![r] = {}]
    /\ UNCHANGED <<slot, budget, failed, eligible>>

\* Faulty variant: the conflicting row is overwritten whatever its expiry.
InsertOver(r) ==
    /\ at[r] = "acquiring"
    /\ Take(r)

\* Its insert: ON CONFLICT it looks at the expiry again.
Insert(r) ==
    /\ at[r] = "acquiring"
    /\ IF row[slot[r]] = NoLease \/ Expired(slot[r])
       THEN Take(r)
       ELSE NextSlot(r) /\ UNCHANGED <<row, left, budget, eligible>>

\* The statement fails, before its commit or after it: the request ends with
\* an error and never learns the token of the row it may have written.
AcquireFails(r) ==
    /\ at[r] \in {"asking", "acquiring"}
    /\ \/ UNCHANGED <<row, left>>
       \/ /\ at[r] = "acquiring"
          /\ row[slot[r]] = NoLease \/ Expired(slot[r])
          /\ row' = [row EXCEPT ![slot[r]] = Orphan]
          /\ left' = [left EXCEPT ![slot[r]] = LeaseLength]
    /\ Leave(r)
    /\ budget' = [budget EXCEPT ![r] = 0]
    /\ UNCHANGED eligible

-----------------------------------------------------------------------------
(* The call and its release.                                               *)

\* The body is read, fails, is cancelled or aborted; or the call threw.
UpstreamEnds(r) ==
    /\ at[r] = "upstream"
    /\ at' = [at EXCEPT ![r] = "releasing"]
    /\ budget' = [budget EXCEPT ![r] = 0]
    /\ UNCHANGED <<row, left, slot, todo, failed, eligible>>

\* The upstream answers 401 or 403.  Recording it takes as long as the lock
\* of the account takes: no signal cuts it short.
UpstreamRejects(r) ==
    /\ at[r] = "upstream"
    /\ at' = [at EXCEPT ![r] = "settling"]
    /\ budget' = [budget EXCEPT ![r] = 0]
    /\ UNCHANGED <<row, left, slot, todo, failed, eligible>>

\* The account leaves the pool, unless recording that fails.
Settle(r) ==
    /\ at[r] = "settling"
    /\ eligible' \in {eligible \ {slot[r][1]}, eligible}
    /\ at' = [at EXCEPT ![r] = "releasing"]
    /\ UNCHANGED <<row, left, slot, todo, budget, failed>>

DeleteRow(p) == row' = [row EXCEPT ![p] = NoLease]

\* Faulty variant: the row is deleted whatever its token.
ReleaseAnyToken(r) ==
    /\ at[r] = "releasing" /\ ~Locked(slot[r])
    /\ DeleteRow(slot[r])
    /\ Leave(r)
    /\ UNCHANGED <<left, budget, eligible>>

\* DELETE ... WHERE lease_token = the request's own.
Release(r) ==
    /\ at[r] = "releasing" /\ ~Locked(slot[r])
    /\ IF row[slot[r]] = r THEN DeleteRow(slot[r]) ELSE UNCHANGED row
    /\ Leave(r)
    /\ UNCHANGED <<left, budget, eligible>>

\* Faulty variant: the attempts are counted one too far.
ReleaseFailsOnceMore(r) ==
    /\ at[r] = "releasing"
    /\ IF failed[r] = ReleaseAttempts
       THEN Leave(r) /\ UNCHANGED row
       ELSE /\ failed' = [failed EXCEPT ![r] = @ + 1]
            /\ UNCHANGED <<row, at, slot, todo>>
    /\ UNCHANGED <<left, budget, eligible>>

\* The DELETE fails, before its commit or after it.  The third failure is
\* the last: the row is left to its expiry.
ReleaseFails(r) ==
    LET p == slot[r]
        gone == row[p] = r
        last == failed[r] + 1 = ReleaseAttempts
    IN  /\ at[r] = "releasing"
        /\ \/ gone /\ ~Locked(p) /\ DeleteRow(p)
           \/ gone /\ last /\ row' = [row EXCEPT ![p] = Orphan]
           \/ (gone => ~last) /\ UNCHANGED row
        /\ IF last THEN Leave(r)
           ELSE /\ failed' = [failed EXCEPT ![r] = @ + 1]
                /\ UNCHANGED <<at, slot, todo>>
        /\ UNCHANGED <<left, budget, eligible>>

-----------------------------------------------------------------------------
(* The environment.                                                        *)

\* The client disconnects.
ClientAborts(r) ==
    /\ at[r] \in Waiting \cup {"upstream"} /\ budget[r] > 0
    /\ budget' = [budget EXCEPT ![r] = 0]
    /\ UNCHANGED <<row, left, at, slot, todo, failed, eligible>>

\* An instance stops: its calls are gone, their rows stay.  (A statement
\* that still commits is AcquireFails just before.)
Crash(i) ==
    LET lost == {r \in Requests : InstanceOf[r] = i /\ at[r] # "idle"}
    IN  /\ lost # {}
        /\ row' = [p \in Slots |-> IF row[p] \in lost THEN Orphan ELSE row[p]]
        /\ at' = [r \in Requests |-> IF r \in lost THEN "idle" ELSE at[r]]
        /\ slot' = [r \in Requests |-> IF r \in lost THEN NoSlot ELSE slot[r]]
        /\ todo' = [r \in Requests |-> IF r \in lost THEN {} ELSE todo[r]]
        /\ budget' = [r \in Requests |-> IF r \in lost THEN 0 ELSE budget[r]]
        /\ failed' = [r \in Requests |-> IF r \in lost THEN 0 ELSE failed[r]]
        /\ UNCHANGED <<left, eligible>>

\* Faulty variant: only the rows of accounts in the pool are cleaned up.
CleanUpEligible ==
    LET dead == {p \in Slots : Expired(p) /\ ~Locked(p) /\ p[1] \in eligible}
    IN  /\ dead # {}
        /\ row' = [p \in Slots |-> IF p \in dead THEN NoLease ELSE row[p]]
        /\ UNCHANGED <<left, at, slot, todo, budget, failed, eligible>>

\* cleanExpiredSessions, every minute: expired rows are deleted.
CleanUp ==
    LET dead == {p \in Slots : Expired(p) /\ ~Locked(p)}
    IN  /\ dead # {}
        /\ row' = [p \in Slots |-> IF p \in dead THEN NoLease ELSE row[p]]
        /\ UNCHANGED <<left, at, slot, todo, budget, failed, eligible>>

\* The rest of the service takes an account out of the pool or puts it back.
ChangeEligibility(a) ==
    /\ eligible' = (eligible \ {a}) \cup ({a} \ eligible)
    /\ UNCHANGED <<row, left, at, slot, todo, budget, failed>>

\* What is left of the time of r after one tick.  Only a call in flight
\* counts beyond zero, the time it takes to react to its signal.
Less(r) == IF budget[r] > 0 \/ at[r] = "upstream" THEN budget[r] - 1 ELSE budget[r]

\* Time passes, but not beyond MaxLag while a call in flight has to react to
\* its signal, and not inside a statement.
Tick ==
    /\ \A r \in Requests :
          /\ at[r] # "acquiring"
          /\ at[r] = "upstream" => budget[r] > -MaxLag
    /\ left' = [p \in Slots |-> IF left[p] > 0 THEN left[p] - 1 ELSE 0]
    /\ budget' = [r \in Requests |-> Less(r)]
    /\ UNCHANGED <<row, at, slot, todo, failed, eligible>>

Next ==
    \/ \E r \in Requests :
          \/ \E b \in 1..Timeout : Arrive(r, b)
          \/ Wake(r)
          \/ GiveUp(r)
          \/ Ask(r)
          \/ Insert(r)
          \/ AcquireFails(r)
          \/ UpstreamEnds(r)
          \/ UpstreamRejects(r)
          \/ Settle(r)
          \/ Release(r)
          \/ ReleaseFails(r)
          \/ ClientAborts(r)
    \/ \E i \in Instances : Crash(i)
    \/ \E a \in Accounts : ChangeEligibility(a)
    \/ CleanUp
    \/ Tick

Spec == Init /\ [][Next]_vars

-----------------------------------------------------------------------------
(* Properties *)

TypeOK ==
    /\ row \in [Slots -> Requests \cup {NoLease, Orphan}]
    /\ left \in [Slots -> 0..LeaseLength]
    /\ at \in [Requests -> Places]
    /\ slot \in [Requests -> Slots \cup {NoSlot}]
    /\ todo \in [Requests -> SUBSET Accounts]
    /\ budget \in [Requests -> -MaxLag..Timeout]
    /\ failed \in [Requests -> 0..ReleaseAttempts - 1]
    /\ eligible \in SUBSET Accounts
    /\ \A r \in Requests : slot[r] = NoSlot <=> at[r] \in {"idle", "sleeping"}

InFlight(a) == {r \in Requests : at[r] = "upstream" /\ slot[r][1] = a}

\* An account never carries more upstream calls than it has slots, over all
\* the instances, whatever they crash, lose or repeat.
SlotLimit == \A a \in Accounts : Cardinality(InFlight(a)) <= Concurrency

\* While a call is in flight its row is its own and unexpired, by the margin
\* that the abort signal leaves it: nobody can take the slot from under it.
LeaseCoversUse ==
    \A r \in Requests :
        at[r] = "upstream" =>
            /\ row[slot[r]] = r
            /\ left[slot[r]] > 0
            /\ left[slot[r]] >= budget[r] + Slack

\* The conjuncts above: inductive together.
SlotInv == TypeOK /\ LeaseCoversUse

-----------------------------------------------------------------------------
(* Liveness.  Time passes; the timers, queries and microtasks of a request *)
(* come; a call in flight reacts to its signal; the cleanup task runs.     *)
(* Nothing is assumed of calls that end on their own, of clients, crashes, *)
(* failing statements or of the accounts' return to the pool.              *)

Reacts(r) == budget[r] <= 0 /\ UpstreamEnds(r)

\* Time is not held up for ever by ever new statements.
TimeDiverges == []<><<Tick>>_vars

Fairness ==
    /\ TimeDiverges
    /\ WF_vars(CleanUp)
    /\ \A r \in Requests :
          /\ WF_vars(Wake(r) \/ GiveUp(r))
          /\ WF_vars(Ask(r) \/ Insert(r))
          /\ WF_vars(Reacts(r))
          /\ WF_vars(Settle(r))
          /\ SF_vars(Release(r) \/ ReleaseFails(r))

FairSpec == Spec /\ Fairness

\* Every request comes to an end, even if no slot is ever free for it.
RequestEnds == \A r \in Requests : at[r] # "idle" ~> at[r] = "idle"

\* A row whose token is lost does not cost its account a slot for good, once
\* acquiring statements stop failing after their commit.
FailuresCease == <>[][\A r \in Requests : ~AcquireFails(r)]_vars
OrphanIsReclaimed ==
    FailuresCease => \A p \in Slots : row[p] = Orphan ~> row[p] # Orphan
=============================================================================
