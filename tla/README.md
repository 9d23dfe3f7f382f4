# Verification of opencode-manager

opencode-manager keeps a pool of OpenCode accounts in PostgreSQL, refreshes
their quota and membership from the provider's pages, and serves an
OpenAI-compatible endpoint that spreads client requests over the accounts.  It
may run as several instances against one database.  This directory holds TLA+
models of the parts whose correctness depends on the order of events, the TLC
configurations that check them on small instances, and TLAPS proofs, for every
size, of every safety property that these runs check.

    tlc -workers 2 -config MCProgress.cfg MCProgress
    tlapm ProxyWorkerPoolProofs.tla

Paths below are relative to `src/server/utils/` unless they begin with `src/`.

## 1. Inventory

| Component | State | Operations | Interacts with | What is hard | What makes it correct |
|---|---|---|---|---|---|
| Proxy worker pool (`proxy-worker-pool.ts`) | idle stack, bounded FIFO queue, counts, next number | run, acquire, release, hold for a stream, setWorkerCount | `proxy.ts` runs every chat completion in it; the controller resizes it | queue timeout, client abort, stream end and resize in any order between two awaits | no worker lost or doubled; FIFO; no waiting beside an idle worker; shrinking completes |
| Adaptive controller (same file) | CPU and lag samples, idle clock | sample once a second | the pool | rounding, thresholds | stays within its bounds; an idle pool comes down |
| Account slots (`db.ts` 902-974, `proxy.ts` 173-285) | table `account_proxy_slots` | acquire, release with retries, expiry, cleanup | every instance, through the database | concurrent inserts, leases that expire, lost answers, crashes | never more calls per account than slots; no slot lost for good |
| Chat completion and model list (`proxy.ts`) | none of its own | one request: worker, body, slot, upstream call, response, log | pool, slots, lifecycle | stream end, cancel, abort, timeout and a failing log write end one call together | worker and slot come back once; one log row; the status names the cause; every call ends |
| Account lifecycle (`accounts.ts`, `account-risk-control.ts`, `account-identity.ts`) | a row of `accounts` | refresh, settings, risk-control check, 401, 403, backfill | provider pages, the proxy, the panel | writers with and without the account's lock, decisions on rows read earlier | a row that makes sense; the operator's decisions stand; no key of an old credential |
| Advisory locks (`db.ts` 848-900) | session locks, a connection pool of their own | lock in order, try, unlock | all account operations, scheduled tasks | a second connection wanted while the first is held | no deadlock on keys; every operation ends |
| Operation queue and refresh single-flight (`account-operation-queue.ts`, `accounts.ts` 46-88, 462-497) | promise tails, shared refresh promises, retry timers | run, join, retry | the advisory locks | joining a refresh that is too old; timers that fire late | one operation per account; order of arrival |
| IP pool (`ip-pool.ts`, `src/server/api/ip-pool/`) | nodes, bindings, block size | plan, assign, edit, delete, manual test | account operations, health, subscriptions | plans made of stale reads; blocks, regions and loads | bound to a usable node; stable; balanced |
| Health check (`proxy-health.ts`) | streak and health per node | probe, persist, migrate | the IP pool | stale snapshot written back; crash before migration | a node that is down keeps no accounts; a wrong judgement is mended |
| Subscriptions (`proxy-subscriptions.ts`, `subscription.ts`) | cached node lists | refresh, import, delete | the IP pool | two transactions at READ COMMITTED | a list is replaced as a whole |
| Referral cache (`referral-reward-cache.ts`) | map per instance, persisted copy | cache, consume, remove, hydrate | refreshes, reward use, panel | copies of several instances, writes that wait | a reward is chosen from a list no older than the stored one |
| Progress (`account-refresh-progress.ts`, `account-import-progress.ts`) | map per instance, persisted copy | begin, update, complete, fail, clear | refreshes, imports, panel | late reports of an old run, unordered deletion | the row does not say "running" for ever |
| OpenCode pages (`opencode.ts`) | route-module cache | load with retries, rediscover the workspace | refreshes | single-flight across builds, retries that turn into verdicts | cached modules give way to another build only, never to a failure; an account is condemned only for its own cookie |
| Renewal cancellation (`cancel-autorenew.ts`, `.py`) | columns of the row | one child process with a time limit | refreshes, panel | killed after it took effect | what the row calls cancelled was; it stops in the end |
| Chinese models (`opencode-chinese-models.ts`, `accounts.ts`) | the provider's switch, its copy in the row | refresh, turn on or off, synchronise, enable automatically | refreshes, panel | answers lost after the switch was turned; one column for two clocks | the copy becomes true |
| Transports (`tunnel-fetch.ts`, `ss-transport.ts`, `socks`, `trojan`) | buffers of a connection | connect, send, receive, redirect | every provider request of an account bound to a node | segments cut anywhere; late sockets | the body arrives whole or fails; no socket left open; credentials stay at their origin |
| Panel, accounts page (`src/app/pages/accounts.vue`, `src/app/composables/useAccounts.ts`) | the list, progress bars, timers, batches | fetch, poll, click, import, batch | the interface of the server | answers that overtake each other; a bar that is shown again | the list comes to be right |
| Scheduled tasks (`src/server/tasks/`) | none | refresh, health, cleanup, route modules | all of the above | two instances at once | one runner per task |
| Request normalisation, logs and statistics, authentication, migrations, other pages | - | JSON, single statements, user interface | - | - | covered by unit tests, or a single statement |

## 2. Plan

Order: what bounds the load first, then what decides which accounts are used,
then what serialises the operations, then the caches and what lies outside.

1. `ProxyWorkerPool`, with the abstract `AdmissionControl` it implements. **Done.**
2. `AccountSlots`: the leases, over instances, with crashes and lost answers. **Done.**
3. `AccountLifecycle`: one account's row under all its writers. **Done.**
4. `OperationLocks`: operation queue, single-flight, lock pool, sorted keys, the
   nested assignment lock and the tasks, over instances.  **Done.**  It provides
   the account lock that `AccountLifecycle` takes as given.
5. `ProxyRequest`: pool and slots composed with every way a proxied call ends. **Done.**
6. `IpPlan`, the plan as a function with its reference properties, and `IpPool`,
   which extends it with its callers and the health check. **Done.**
7. `ReferralCache`, `ProgressReports`, `WorkspacePages`, `Subscriptions`:
   copies of shared data. **Done.**
8. `AdaptiveWorkers`: the controller's arithmetic. **Done.**
9. `Renewal`, `ChineseModels`: operations whose effect is at the provider. **Done.**
10. `TunnelFetch`, `ShadowsocksStream`: streams cut anywhere. **Done.**
11. `AccountsPanel`: the list that the panel shows. **Done.**

What is left: the expansion of one cookie into several workspaces; a refresh
that joins one begun before a change of settings (`accounts.ts` 466), which
needs the product of `OperationLocks` and `AccountLifecycle`; which retry timers
are pending; the handshakes of SOCKS and Trojan; parsing of pages and links.
Of theorems: every safety and action property of the runs that pass is proved
(section 6), and so is the refinement of `AdmissionControl`.  What may follow
is the composition of `OperationLocks` with `AccountLifecycle`, whose lock is
taken as given today.

## 3. The models

In each module, operators whose comment begins "Faulty variant" are not part
of the specification.  Each is a plausible mistake in the definition it stands
next to; put in its place, it makes one of the properties fail, which shows
that the property looks at that code.

JavaScript runs on one thread, so in all modules an action is what happens
between two awaits: what a handler has read before an await and uses after it is
a variable.

### ProxyWorkerPool, AdmissionControl

The code runs on one JavaScript thread, so an action is what happens between
two awaits.  A caller's `phase` says where its `run()` stands; `granted` is the
gap between the resolution of the promise and the continuation of `run()`, in
which an abort can still arrive.

| Code | Model |
|---|---|
| `acquire` 124-182 | `TakeIdle`, `Enqueue`; a rejected call changes nothing and is no step |
| queue timeout and abort while waiting, 161-181 | `QueueTimeout`, `Abort`, both `RemoveAndReject` |
| `run` 110-121 | `Resume`, `TaskEnds` |
| `holdWorkerForStream` 194-242 | `HoldForStream`, `StreamEnds`, `Abort` |
| `release` 184-192 | `Release` = `Retire`, `HandOver` or `Park` |
| `setWorkerCount` 91-104 | `Grow`, `Shrink`, each the whole loop in one step |

The keys of the queue's Map are left out: the sequence `waiters` has their
order.  The controller may ask for any count between its bounds at any time,
which covers all its decisions.  The count of worker numbers is bounded by
`MaxWorkerId` in `Grow`.

`AdmissionControl` says what the pool is for, without workers: at most
`capacity` requests admitted, a bounded FIFO line, no room unused while
somebody waits.  The pool implements it with `admitted` the callers that hold
a worker and `capacity` the target (`ImplementsAdmission`).

### AccountSlots

One action per statement or timer of a request; the acquiring statement is two,
its snapshot (`Ask`) and its insert (`Insert`), because two of them may overlap
and only the `ON CONFLICT` clause keeps the second from taking the slot.
`SKIP LOCKED` is `Locked`.  A request goes through the slots of the candidate
accounts in order (`NextSlot`), pauses, and starts again (`Wake`).

A lease token is a fresh UUID, so a row is named by the request that knows its
token, or `Orphan` when nobody does: its instance crashed, the statement
committed and its answer was lost, or three deletions failed.

Time is relative.  `left[p]` is what remains of a lease and `budget[r]` what
remains until the request's signal fires; `Tick` lowers both.  Calls that react
to their signal later than `MaxLag` are not modelled, and `MaxLag < Slack` is
the module's only timing assumption: 60 seconds of slack for an event-loop
delay.  No tick falls inside a statement.  Recording a 401 or 403 (`Settle`)
has no such bound, since it may wait for the account's lock.

A request's ranking of accounts (`Rank`) stands for both the order by
subscription end and the rendezvous hash of an affinity key.  Deleting an
account, which deletes its rows with it, is not modelled.

### AccountLifecycle

One account. `op` is the operation that holds the account's lock, with the row
it read (`snap`, `cur`) and what it learnt. The lock itself is taken as given;
`LockIsExclusive` of `OperationLocks` is what provides it, except for an
operation whose lock connection died under it. An operation reads in one step
and writes in another, so that everything which does not take the lock comes in
between: the proxy's 401 (`Unauthorized`) and the backfill of a starting
instance (`Backfill`). A 403 (`Forbidden`) waits for the lock
(`InvalidateStarts`). `OperationDies` is an exception, a crash, or a run that
found nothing to write.

| Code | Model |
|---|---|
| `refreshAccountOnce` 499-778 | `RefreshStarts`, `RefreshFetches`, `RefreshSaves`; `RefreshFails`, `RefreshRecordsError` |
| `updateAccountSettings` 138-185, `accountCredentialResetState` | `SettingsStart`, `SettingsSave`, `ResetFor` |
| `checkAccountRiskControl` 853-951 | `CheckStarts`, `CheckBlocked`, `CheckRejected`, `CheckRestores` |
| `markAccountRiskControlled` 806-829 | `Condemned` in `Unauthorized` and `CheckBlocked` |
| `invalidateUpstreamApiKeyOnce` 831-847 | `InvalidateStarts`, `InvalidateSaves` |
| backfill, `db.ts` 441-452 | `Backfill` |

Each write sets exactly the columns the code's UPDATE sets.  Percentages are
reduced to unknown, below and full, rolling and weekly usage to one flag, and
an API key is named by the credential it was obtained with.  Which accounts a
task chooses to refresh is left out: any account may be refreshed at any time.
Workspace expansion, renewal, rewards and model switches write none of these
columns.

### OperationLocks

All instances and one PostgreSQL server.  An operation goes through the chain
of its account if it is of one, gets a connection of the lock pool, takes its
locks one statement at a time, works, may take the assignment lock on a second
connection, and ends.  `at` says how far it has come, `owner` which session the
server has given each lock to.

| Code | Model |
|---|---|
| `AccountOperationQueue.run` | `Enqueue`, `Begin`, `Advance`; a chain of promises is the sequence of operations that are not over, so the deletion of a settled tail needs no step |
| `withAdvisoryLocks`, `db.ts` 856-887 | `Connect`, `Lock`, `Decline` (`wait: false`), `Finish`; the finally blocks are `End`, in every step that ends an operation |
| `lockPool.connect()` against `max` and `connectionTimeoutMillis` | `InUse`, `ConnectFails` |
| `ensureAccountIpAssignment`, `ensureStableIpAssignments` | `AskAssignment`, `ConnectAssign`, `LockAssign`, `Assigned`, `AssignFails` |
| `refreshAccount` 462-497 | `Shared` in `Start` and `Launch`, `Settle`, `Answer` |
| `mapConcurrent`, `refreshScheduledAccounts` | `Launch`; `todo` is the cursor, `awaiting` the workers that wait, `failures` the workers that are gone |
| a connection dies, an instance stops | `LoseConnection`, `LoseNested`, `Crash`; `Reap` when the server notices |

Lock names are numbers in the order in which the code takes them.
`withAuthCookieLocks` takes names of its own in sorted order and behaves like a
deletion of as many accounts.  The unlock statements, the release of the
connection and the continuation of the chain are one step.  The server's queue
of sessions per lock and the pool's queue of callers are reduced to who may go
next.  A lost connection is noticed by the next statement on it only, as in the
code: the operation itself goes on.  The error retry timers start a refresh;
`Start` may do so at any time.

A rejected task is the subtle one.  `Promise.all` rejects with the first worker,
the task releases its lock and is over, and the other workers go on with the
accounts that are left, beside the next run of the task.  `Abandoned` keeps the
name of the old run from being used again while they do.

### ProxyRequest

One connection carries one request after another: `kind` says whether it is a
chat completion, one with `stream: true`, or a list of models, which takes no
worker and leaves no log row.  The pool is here a count of idle workers and a
line, the slots of all accounts one number; `ProxyWorkerPool` and `AccountSlots`
are the models of how they are kept.  What remains is the composition: every
path on which a request ends, and who gives what back on it.

| Code | Model |
|---|---|
| `pool.run` around `proxyChatCompletions` | `ArriveChat`, `WaitTimesOut`, `Continue`; `WorkerBack` is `release` with its hand-over |
| body, candidates, `acquireAccountSlot` | `RefuseBody`, `AcceptBody`, `RefuseEmptyPool`, `TakeSlot` |
| call of the account, its answer, its refusal | `UpstreamAnswers`, `StepFails`, `StepAborts`; `Throw` is the catch that gives the slot back |
| the two wrapped bodies, `holdWorkerForStream` and the slot's | `Respond`, `BodyEnds`, `WrapperEnds`, `CancelBody`, `Cut`, `LogOnce` |
| `AbortSignal.any([client, timeout])` | `ClientGone`, `TimeoutFires` |
| the outer catches of both handlers | `AnswerFailure` with `ChatStatus` and `ModelsStatus` |

A flag `released` in the code makes giving back idempotent; `hasSlot` and
`hasWorker` are those flags.  What a 401 or 403 does to the account happens
before `settle` and is in `AccountLifecycle`.

### AdaptiveWorkers

The controller on three numbers of the pool, once a sample.  `ProxyWorkerPool`
allows any resize; this module has the rules that choose one (`NextCount`):
pressure, demand, idleness, in the code's order and with its rounding.  Readings
of CPU and event-loop lag are reduced to what the thresholds tell apart.

### IpPlan, IpPool

`IpPlan` has `planStableIpAssignments` as the function `Plan`, with its two
loops, over the regions and over the accounts of one, as recursive functions on
ids (`AssignChunked`, `Place`): an id that stands for no account leaves the state
as it is.  Its behaviours are calls of it: an input is planned, then nodes come
and go and the result is planned again.

`IpPool` extends it with the code that calls it.  An operator creates nodes, one
or several at a time, edits, switches, deletes and tests them, rounds of the
health check probe them, and account operations ask for a node.  All of them end
in `ensureStableIpAssignments`: `Lock`, `ReadAccounts`, `ReadNodes`,
`WritePlan`, with everything else in between.  A round and a test hold the row
they read until they write the result (`round`, `probe`).  The streak of late
pings is left out because `checkEntry` counts either none or `MAX_PINGS_PER_RUN`
of them.  A process that stops (`Dies`) leaves what it has written.

`PlacementIsStable` says when an account may lose a node that still exists: only
by the write of a plan that read the node as disabled or down.  A plan may be
made of stale reads, so the property names what the plan saw, not what is true
when it writes.

Any account may ask for a node, but only those of `Scheduled` do so again and
again: the tasks skip accounts disabled as `manual` or `auth_expired`, and those
in error that neither the setting `auto_refresh_errors` nor a quota makes due
(`accounts.ts` 979-1036).  `StrandedAccountMoves` is about `Scheduled`; what
becomes of the others is in section 5.  `PlanEnds` is the part of `WritePlan`
that the fairness needs.

### Subscriptions

One subscription and the requests that refresh it.  The transaction is three
steps, `DeleteStarts`, `DeleteEnds`, `Commit`, with the rules of READ
COMMITTED, since two refreshes are not serialised by anything else.  An import
reads the list, compares it with the pool and inserts what is missing.  A row
remembers the answer it comes from.

### ReferralCache

One account's rewards at the provider, in the memory of each instance, and in
`app_settings`.  Writes wait in a chain per instance.  A use flushes it, reads
the row, hydrates, selects a reward, applies it, and drops it from the list.
Operations hold the account's lock; the panel's GET holds nothing and is one
per instance at a time.  The clocks of instances are assumed to agree, and a
fetch or an application to take at least one tick.

### ProgressReports

The two progress modules at once: `kind` says which.  A reporter's token is the
number of its run.  A write takes the entry as it is when its turn comes
(`Send`), and lands later (`Lands`) or fails.  All phases of a run are one
status, "running", since only the last one decides whether the panel goes on
polling.

### WorkspacePages

The loads of several accounts, with their retries and the search by `/auth`, and
the cache of route modules they share.  `objects` are the cache objects the code
has made, of which `cache` is the one its variable names; a caller that waits
keeps the object, not the variable.  Continuations run to their next await
before anything else (`ready`).  What a page says is left open, its parsing out.

A download fails in one way only, by finding no module: each asset's own failure
is caught where it is fetched (417-424), so the branch that would clear the
modules (456-459) is never taken and is no action.  `CacheKeepsModules` looks at
what the cache offers (`Offered`), whichever object that is: it changes only by
a search that a page of another build begins.

### Renewal, ChineseModels

Two operations whose effect is at the provider and whose record is in the row.
In `Renewal` the script has its steps (`FindPortal`, `Status`, `Cancel`,
`Verify`) and may be killed in each; a cancellation that was on its way then
arrives later (`LateArrives`).  A script that succeeds names a subscription, so
the fallback of `OfScript` is not needed (`StoppedIsKnown`).  In `ChineseModels` the switch may be turned and
the answer lost; the chain of the account orders the operations, and "due"
stands for the hour of the throttle.

### AccountsPanel

The list of the accounts page.  A fetch is read at the server at one time and
answered at another, and counts only if no later one was sent.  Buttons, polls
for progress, imports and batches each go through their awaits; the switch for
chinese models puts its account into the list without a fetch; an import polls
or does not, as its answer decides, and the delayed fetch of a batch may be set
once more while one is waiting.  The interval fires only while nothing loads and
no bar is shown.  Statistics are fetched
beside the list in the same way and are left out, as are dialogs, filters and
messages.

### TunnelFetch, ShadowsocksStream

`TunnelFetch` takes an HTTP response apart as it arrives in segments of any
length, under each framing, with aborts, sockets that come too late, and
redirects; a byte is a letter.  The handshake with the proxy is one step, and
so is TLS.  `ShadowsocksStream` has the AEAD stream: a byte is named by the
unit it was encrypted in and its place there, and decrypts only in its whole
unit under its nonce, so a perfect cipher is assumed.

## 4. Runs

| Run | Parts and instance | Shows |
|---|---|---|
| progress | the pool: 4 callers, 1 to 2 workers, queue of 2, 4 numbers; requests: 2 connections, 1 worker, 1 slot; the controller between 2 and 20, queue of 2; chinese models: chain of 2, 2 troubles; renewal: 2 subscriptions, 2 mishaps; the panel: 1 account, 2 events | what must eventually happen does; nothing is lost on the way; `ImplementsAdmission` |
| interleavings | locks: a refresh, a settings change, a task and a deletion in one instance, another deletion and an edit of the pool in the other, 2 connections each; bodies of three chunks under each framing, 2 redirects; writes of 1, 2, 3 and 5 bytes in payloads of at most 2; plans of 3 accounts on 3 nodes; 2 refreshes of one node list; 2 page loads and 2 builds; 3 refresh runs on 2 hosts, 1 fault | safety under every order of the steps |
| accounts | the row: 2 credentials, 2 proxied requests; rewards: 1 reward, 2 instances, 3 ticks | what is stored of an account stays true |
| account_slots | 2 requests, 2 instances, 2 accounts of 1 slot, timeout 1, slack 2, lag 1 | slot limit, cover by leases, ends, recovery |
| ip_pool | 2 accounts, one of them scheduled, 2 nodes, 3 pings, 3 events | stability, that no scheduled account stays stranded, and that no node stays misjudged |
| operation_locks_liveness | 2 refreshes and a task with 2 workers in one instance, a deletion in the other, 2 connections each | `OperationEnds` |
| manual_mark_overwritten, unauthorized_is_not_terminal, monthly_mark_lost, models_never_enabled, expired_by_server_error, parsed_page_lost | the row as in accounts; chinese models without trouble; 2 page loads | section 5 |

The MC modules extend the components they check, or instantiate them where two
would share a name (`Models`, `Panel` in `MCProgress`), and add only definitions
of constants and the choice of the part that moves.  The assumptions of the
modules are evaluated in the same runs.

**Side by side.**  `MCProgress`, `MCInterleavings` and `MCAccounts` each
explore several models in one run.  The models share no variable; `part`, chosen
at first, names the one that moves, and the others stand at an initial state.  A
behaviour of such a run is therefore a behaviour of one model, and its state
count the sum of theirs.  Invariants hold of the parts that stand because they
hold at first.  Fairness is asked of each part only where it moves.

**Bounds.**  Four callers and a queue of two let a call be rejected, a growth
serve part of the queue, and a reduction find every worker busy and be undone
before it completes; four numbers let a worker leave and a new one be numbered.
Two requests on one worker and one slot make one wait for whatever the other
holds.  The controller's defaults are 4 to 32; between 2 and 20 the roundings
that come to a rest below four workers are reached, and so is the step of
sixteen.  Two requests on two slots of two accounts overlap in their statements
and prefer different accounts; a lease of three ticks outlives a call and
expires under an orphan.  Two credentials and two requests are enough for a key
to outlive its credential and for two refusals to cross.  With two connections
an instance has operations that hold both and each ask for a second one.  Two
deletions of the same two accounts would meet in a circle if the order of their
keys allowed it, and the edit of the pool competes for the assignment lock.  The
two refreshes of the liveness run let a task be rejected by one while its other
worker goes on.  Only some operations lose connections (`Unreliable`), and an
account is due only where there is a refresh for it (`Refreshable`).  The kind
"health" takes part in the proofs and in no run: it locks as a task and assigns
as a refresh.  Three accounts on three nodes with blocks of one and two, one
region or none, and every earlier binding, fill a block, begin the next and
leave a region empty.  Three events let a node be edited while a round holds its
row and the process stop after that; with an account beside the scheduled one,
plans are asked for by somebody who may never come back.  The chunks of the body split a CRLF and
contain one; payloads of two bytes split a write into several units.  Two
builds and two loads let a download of the first build be awaited while the
second replaces it.  Three runs on two hosts let a late report meet two later
ones.  Two subscriptions and two mishaps let a renewal be stopped late for a
subscription that is over.  Two events let a poll overlap a refresh and a
change by others.

**Symmetry** is used only where no liveness is checked: the proxied
requests of the row's model are alike, and so are credentials.

**Deadlock** is checked in progress, account_slots and
operation_locks_liveness.  `CHECK_DEADLOCK FALSE` stands where a part really
stops: a plan, a stream or a page load that is over, an operation that has
ended, a clock or a number of events that has reached its bound.

**Fairness.**

* Pool: promises continue, a task ends and a stream ends, because each waits on
  a signal that fires after the upstream timeout at the latest.  Nothing is
  assumed of queue timeouts, disconnects or the controller.
* Requests: promises continue, and the upstream timeout fires.  Nothing is
  assumed of the upstream, of the client, or of a free slot.
* Controller: the interval fires.  `IdlePoolShrinks` is about a pool that stays
  idle.
* Slots: time passes (`TimeDiverges`), timers and statements are served, a call
  in flight reacts to its fired signal, the cleanup task runs.  Releases get
  strong fairness because a concurrent statement may lock their row again and
  again.  Nothing is assumed of calls ending early, of crashes or of accounts
  returning, nor between instances that poll for a slot: a request may lose
  every race, and what `RequestEnds` shows is that its signal ends it.
  `OrphanIsReclaimed` holds only once acquiring statements stop failing after
  their commit (`FailuresCease`), each of which makes a new orphan.
* Operation locks: promises continue, connecting ends at its timeout at the
  latest, statements and network calls end, and the server notices a dead
  connection.  A lock that is granted gets strong fairness, since the server
  serves the sessions that wait for it in order of arrival.  `OperationEnds`
  does not say that an operation succeeds.  With as many account operations as
  connections, or with `POSTGRES_LOCK_POOL_MAX=1`, one that needs the assignment
  lock never gets its second connection and fails after ten seconds; the run
  shows that this is the worst that happens.
* IP pool: the health check and the refreshes of scheduled accounts come round,
  and whoever asked for a plan gets on with it; nothing is assumed of the
  accounts that the tasks skip; the lock gets strong fairness for the health check,
  since the server serves its waiters in order.  Events are bounded, so networks
  come to rest, which the two liveness properties need.
* Chinese models and renewal: the chain goes on, scheduled refreshes return,
  days pass, and a late cancellation arrives.  Troubles and mishaps are bounded:
  a provider that fails for ever is not expected to be set right.
* Panel: requests are answered, timers fire.  Kinds of step are fair together
  and not each by itself, which asks less than the browser gives.  A silent
  request is taken to be answered within the 30 seconds of the interval.

## 5. What the code does not keep

Six sentences of the code's comments or documents say more than it does; each is
stated as a property and a run shows the counterexample.

* `ManualMarkStands` (`accounts.ts` 172-174): the comment says that
  `markAccountRiskControlled` respects a manual mark.  It has no such guard.
  What does hold is checked as `ManualMarkOutlivesRefresh`: nothing but the
  admin or a 401 changes a manual mark.
* `UnauthorizedIsTerminal` (`account-risk-control.ts` 69): the 401 is recorded
  without the account's lock, so a refresh that read the row earlier overwrites
  it, and a 403 that waited for the lock turns it into a plain error.  What does
  hold is `RefreshKeepsConviction`: a refresh that saw the 401 keeps it.
* `MonthlyMarkStands` (`accounts.ts` 680-681): the mark of a page without a
  monthly figure is computed from the stored figure, and the same UPDATE
  replaces that figure by NULL.  A restart, or a second such page, then takes
  the account off the abandoned list.
* `ModelsGetEnabled` (`README.md` 178, `accounts.ts` 409-410): a refresh that
  shows the switch as off stores the time of the check, and the automatic
  enabling that follows waits for an hour after that time.  It never fires.
  What does hold is `StoredBecomesTrue`.
* `ExpiredMeansRejected` (`opencode.ts` 46-47): any answer of `/auth` without a
  workspace, a 5xx included, condemns the account as expired.
* `ParsedPageIsReturned` (the design document of the workspace id cache, line
  22): a caller that waits for a download of the route modules reads the
  variable again afterwards; if the download failed it is null, and the refresh
  fails although its page was loaded and parsed.

Two more such sentences are stated in the modules and no run checks them:
`EveryCallIsLogged` (`README.md` 23; calls refused with 400 or 503 before an
account is chosen leave no row) and `ListIsOneFetch` (`proxy-subscriptions.ts`
129; of two refreshes that overlap, the later deletion does not see the rows
that the earlier one's transaction inserts, and the list is that of both).

Met while reading, and not about behaviour a run shows:

* `README.md` 189 and 264 and `.env.example` give 2 as the default of
  `PROXY_ACCOUNT_CONCURRENCY`, `proxy.ts` 31-35 has 5.
* A client that disconnects after its worker was granted, while the pool's task
  runs, is logged as a 500 or 504: its `DOMException` is not a
  `ProxyRequestAbortedError` (`proxy.ts` 571-605).
* Setting the status of a condemned account brings it back although clearing
  its mark is refused (`accounts.ts` 152-157).
* A caller that joins a download of route modules may get those of another
  build than its page's (`opencode.ts` 394-397).
* An answer of the panel's list that has been overtaken is discarded even if
  the later request then fails; the timer makes up for it.
* The persisted progress of a deleted account may be written again by a write
  that was pending; nobody reads it.
* `README.md` 314 says that accounts leave a node only when it is disabled or
  deleted.  A node judged down by the health check loses its accounts too, and
  any plan, whoever asked for it, moves them (`ip-pool.ts` 293-294,
  `proxy-health.ts` 293-296).  `PlacementIsStable` says when an account may leave.
* A process that stops between the last `persistHealthResult` of a round and the
  plan after it (`proxy-health.ts` 287-295) leaves accounts on a node that is
  down; the next round finds no switch.  Those that the tasks skip stay there
  until somebody operates on them or a plan runs for another reason.
* "On failure, clear modules to force retry on next request" (`opencode.ts` 458)
  describes a branch that is never taken; a download that fails leaves the
  modules of its object as they were (453).
* "刷新失败时继续使用上一次成功结果" (the design document of the workspace id
  cache, line 49: after a failed refresh the last successful result goes on being
  used) holds within one build.  The first page of another build replaces the
  cached object before its own modules are there, and if their download fails the
  cache is empty (`opencode.ts` 400-408).  `CacheKeepsModules` says that nothing
  else empties it.
* After the deletion of a node its accounts have none, and connect directly,
  until the plan that follows.

## 6. Proofs

All proofs are checked by TLAPS with no leaf left open.  A proof module EXTENDS
the components it is about and holds nothing else.

| Proof module | Of | Theorems about properties of the runs |
|---|---|---|
| `ProxyWorkerPoolProofs` | `ProxyWorkerPool`, `AdaptiveWorkers` | `PoolConservation`, `PoolExclusion`, `PoolWorkConserving`, `PoolImplementsAdmission`, `AdaptiveRoom` |
| `AccountSlotsProofs` | `AccountSlots` | `SlotLease`, `SlotLimitHolds` |
| `AccountLifecycleProofs` | `AccountLifecycle` | `LifecycleCoherence`, `NoKeyOfOldCookie`, `ManualDisabling`, `ManualMark`, `Conviction` |
| `OperationLocksProofs` | `OperationLocks` | `LocksExclude`, `LocksDoNotLeak`, `NoCircle` |
| `ProxyRequestProofs` | `ProxyRequest` | `RequestGivesBack`, `RequestLogsOnce`, `RequestNamesItsCause` |
| `IpPoolProofs` | `IpPlan`, `IpPool` | `PlansAreSound`, `PlacementsStay` |
| `RecordsProofs` | `Renewal`, `ReferralCache`, `Subscriptions`, `WorkspacePages`, `ProgressReports` | `RecordStaysTrue`, `NewestIsUsed`, `ListStaysWhole`, `CachedModulesStay`, `ReportsEnd` |
| `TransportsProofs` | `TunnelFetch`, `ShadowsocksStream` | `FetchEndsClean`, `StreamStaysFaithful`, `BodyStaysWhole` |

**What they rest on.**  Only assumptions on constants, which TLC evaluates in the
runs, or conditions that a theorem itself names:

* `PoolAssumption` (pool), `SlotAssumption`, `LifecycleAssumption`,
  `LockAssumption`, `RequestConfig`, `AdaptiveConfig`: bounds are positive and
  ordered, sets of actors finite where they are counted.
* `PlanAssumption`, `PoolAssumption` (IP pool): ids are positive numbers, as the
  database makes them; accounts and regions are finitely many; a block has at
  least one place.
* `MaxRuns` and `MaxRedirects` are numbers.
* `StreamAssumption`: a payload and the salt have at least one byte, and writes
  have lengths.
* `ResponsesAssumption`: a response has one of the four framings, its chunks
  have one to three bytes (the digits there are letters for), and without a body
  there are no chunks.  How many chunks, and what is in them, is open.

**Induction over data.**  What a loop of the code computes is a recursive
function here, and the provers cannot instantiate the induction theorems of the
library.  Several proofs need such an induction all the same.  They take the set of
counterexamples, a set of numbers, and its least element (`LeastNumber`, from
the well-foundedness of the numbers), and refute that; the recursive function is
first unfolded into an operator of its own (`AreTurns`, `AreRounds`,
`IsFlatten`), whose existence is shown in the same way.

**ProxyWorkerPoolProofs.**  `PoolInv` is inductive.  `NoWorkerLost` needs
`QueueIsPending`, for a settled waiter at the head of the queue would swallow a
worker; it and `ExclusiveWorkers` need each other, since counting the holders
needs their workers to be theirs, and a growth needs `FreshNumbers`.  The count
of a set that gains or loses one element is the library's; that a growth makes
as many holders as it serves waiters goes through a bijection with the first
places of the queue.  `PoolImplementsAdmission` takes each step of the pool to a
step of the admission control or to none, by what the step does to the target,
the holders and the queue: giving a worker back and handing it over is a leaving
and an admission in one, and a reduction below what is busy lowers the capacity
only.  For the controller, the types and that nobody waits beside a free worker
are inductive; the bounds and the third conjunct of `ResizeLeavesRoom` follow
from the arithmetic of `NextCount`.

**AccountSlotsProofs.**  `SlotInv` is `TypeOK` and `LeaseCoversUse`.  The cover
is inductive by its last conjunct alone: a call's lease outlives its budget by
`Slack`, ticks lower both, and a tick is impossible when a budget is at
`-MaxLag`.  So no row of a call in flight is ever expired, and only expired
rows are taken or cleaned up.  `SlotLimitHolds` follows by counting: calls in
flight on an account map to slot numbers one to one.

**AccountLifecycleProofs.**  `LifecycleInv` adds to the two properties of the
row that the rows an operation remembers are coherent too, and that while it
holds the lock the credential does not change.  The three action properties
(`ManualDisabling`, `ManualMark`, `Conviction`) need one more fact, that what an
operation decided it decided on a row it read.

**OperationLocksProofs.**  `LockInv` joins four facts.  `KeysHeld`: an operation
whose connection lives has the locks of its section, and one that is still
locking has only locks below those it misses.  `NothingLeaks`: conversely, who
owns a lock is in its section or on the way to it, with a live connection.
`ChainInOrder`: the operation that has begun is the first of its chain.  And the
types.  Each step touches one operation, and `PlainStep`, `EndStep` and
`OtherKept` say once what that leaves alone for the others.  `LocksExclude`
follows since a lock has one owner, `ChainsExclude` since a chain has one first.
For `NoCircle`, `Rank` bounds what an operation that waits still has before it:
a task has most; an operation that lacks a lock has less the further that lock
is in the order of keys; one in a chain has a little more than the one at its
head; and whoever wants the assignment lock has nothing, for the holder of that
lock waits for nobody.  The rank falls along two waits in a row
(`RankDecreases`), so the operation of least rank in a circle cannot exist.

**ProxyRequestProofs.**  `RequestInvariant` joins three facts.  Of the line: who
stands in it waits, each once, and no worker is idle meanwhile; idle workers and
holders together are all workers.  Of the slots, the same count.  And of each
request by itself, where it may hold what, when it has been logged, and which
signal its error goes back to.  A step moves one request and at most the head
of the line, so most of the proof says once what giving a worker back does to
both counts.

**IpPoolProofs.**  `PlanInv` is what the loops of the plan keep: nobody who has
not been placed has moved, whoever has been placed is near, the counts are those
of the plan, and a node that receives accounts is, with the places left in its
block, at most a block above the nodes of its region (`StaysEven`).  The last
needs the places that are left: counts alone are uneven while a block is being
filled.  `Stable` then holds since a settled plan leaves nobody to be placed.
For the pool, `PoolInv` says that one planner at a time has read anything, and
that since it read an account only a deletion of its node has moved it
(`BoundIsFresh`); so what a plan writes for an account it keeps is where the
account is.

**RecordsProofs.**  `RecordIsTrue` is inductive together with `StoppedIsKnown`:
a subscription that does not renew itself was stopped, and so was one that the
script is about to report.  `NewestIsUsed` needs an order of everything that
lives: what waits to be written is no older than what was read before it
(`ListsInv`), only the holder of the account's lock has writes that wait
(`UsageInv`), and, while no write was lost, whatever an instance remembers is
stored or waits (`OrderInv`).  For `ListStaysWhole`, not only the list but every
set of rows a refresh has seen, dooms or has staged holds all or none of each
answer.  `CachedModulesStay` rests on `OwnerWaits`: a search that awaits the first
download of the object it made either waits with that object, which has no
modules, or is in the queue that runs before anything else, and its object has
the modules of its build unless the download failed.  So what a search gives up
never had modules (`SearchInv`).  For `ReportsEnd`, while no write was lost and the account
exists, whoever has written "running" to the row, or has it under way, is
followed by a write that waits or by a run that is not over; an import is over
only once nothing of it waits.

**TransportsProofs.**  `FetchEndsClean` is nearly inductive as it stands.

For the stream, bytes on the wire and in the buffer are one run: each is the next
of its unit or the first of the next unit, salt, then a length and a payload by
turns (`Run`).  The receiver is `InStep` when its nonce names the unit that the
run begins with, when the length it waits for is the one the sender put into the
header before, and when what it has passed on is the sum of the payloads before.
A round of consume() keeps it in step and uses up a unit, or has too few bytes
and is the last (`StepKeeps`), so the loop ends waiting and never torn down; a
write is split into payloads that add up to it (`SplitSums`), whose units follow
those on the wire (`EncryptedRun`).

For the body, `Layout` gives what the first chunks deliver and what is on the
wire behind them.  A reader is `InOrder` when its buffer and what is yet to come
are together the wire behind some chunk, or behind the size line of the next
one, and when it has delivered what the chunks before deliver.  That a line is
found where it ends, whatever the segments, is `FoundAtTwo`: CRLF cannot begin
inside the digits before it, and is found only once it is all there; a CRLF
inside a chunk is passed over because the chunk is cut by its length.  A
response whose chunks lack their CRLF fails in the same place, since a size line
does not begin with a carriage return.  Every round but the last uses up part of
the buffer, so the loop of `Chunked` has come to its end after as many rounds as
there are bytes.  `BodyInv` adds the head, which is recognised by the same lemma,
and the other framings.

**Only model-checked.**  Liveness is out of the prover's reach, and so are
`RequestEnds`, `CallEnds`, `OperationEnds`, `OrphanIsReclaimed`,
`WaiterIsServed`, `ShrinkCompletes`, `IdlePoolShrinks`, `StoredBecomesTrue`,
`RenewalStopsHere`, `PanelCatchesUp`, `StrandedAccountMoves` and
`JudgementIsMended`.  `AccountsPanel` and `ChineseModels` are checked for
liveness alone and have no theorem.

## 7. Not modelled

* **Parsing** of pages, share links, request bodies and tool definitions, and
  the request normalisation: text without state, with unit tests.
* **Handshakes** of SOCKS, Trojan and TLS: one step each, which succeeds or fails.
* **Logs and statistics** insert and aggregate.  That a call is logged once is
  in `ProxyRequest`.
* **Panel authentication**: sessions, client keys and the login limiter are
  each one statement against the database.
* **Migrations**: idempotent statements under one lock at start-up.  The one
  that touches the accounts' state, the backfill, is in `AccountLifecycle`.
* **Other pages** and the monitor only call the interface and show its answers.
* **Expansion** of one cookie into several workspaces creates rows of accounts
  that are then independent.
* **Retry timers**: they start refreshes, which the models let start at any
  time; which are pending is left out.

What a model leaves out within its part bounds what its properties say:

* `SelectsFromNewest` holds until a write to `app_settings` fails, which the code
  ignores.
* `FinalReportStands` is not claimed after a lost write, a stop, or the deletion
  of the account.
* `LeaseCoversUse` rests on an event loop that is never late by more than the
  sixty seconds of slack.
* `PanelCatchesUp` is about the list; a panel in the background waits until it
  is looked at.
