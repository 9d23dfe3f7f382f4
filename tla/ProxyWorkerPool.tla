-------------------------- MODULE ProxyWorkerPool --------------------------
(***************************************************************************)
(* The worker pool of the OpenAI-compatible proxy                          *)
(* (server/utils/proxy-worker-pool.ts): a resizable set of numbered        *)
(* workers, a stack of idle ones and a bounded FIFO queue of waiters.      *)
(*                                                                         *)
(* The code runs on one JavaScript thread: every action is the stretch     *)
(* between two awaits.  A promise that has been resolved continues in a    *)
(* later microtask, so a request that was handed a worker (phase           *)
(* "granted") can still see its client disconnect before run() resumes.    *)
(***************************************************************************)
EXTENDS Naturals, Sequences, SequencesExt, FiniteSets

CONSTANTS
    Requests,      \* callers of run(); a caller may call again when it is done
    MinWorkers,    \* PROXY_MIN_WORKERS, also the initial number of workers
    MaxWorkers,    \* PROXY_MAX_WORKERS
    QueueLimit,    \* PROXY_QUEUE_LIMIT
    MaxWorkerId,   \* bound of the model on the worker numbers ever issued
    NoWorker       \* "holds no worker"

ASSUME PoolAssumption ==
    /\ MinWorkers \in Nat \ {0}
    /\ MaxWorkers \in Nat
    /\ MinWorkers <= MaxWorkers
    /\ QueueLimit \in Nat \ {0}
    /\ MaxWorkerId \in Nat
    /\ NoWorker \notin Nat
    /\ IsFiniteSet(Requests)

VARIABLES
    idle,      \* idleWorkers, popped from its end
    waiters,   \* waiters, in the order of their queue keys
    total,     \* totalWorkers
    target,    \* targetWorkers
    nextId,    \* nextWorkerId
    phase,     \* how far each caller's run() has come
    worker,    \* the worker a caller holds
    aborted    \* callers whose AbortSignal has fired during the current run()

vars == <<idle, waiters, total, target, nextId, phase, worker, aborted>>

\* "out": no call in progress; "queued": acquire() returned a pending promise;
\* "granted": that promise is resolved, run() has not resumed; "task": inside
\* task(workerId); "streaming": run() has returned a response with a body.
Phases == {"out", "queued", "granted", "task", "streaming"}

Holders == {r \in Requests : phase[r] \in {"granted", "task", "streaming"}}

Init ==
    /\ idle = [i \in 1..MinWorkers |-> MinWorkers - i]
    /\ waiters = <<>>
    /\ total = MinWorkers
    /\ target = MinWorkers
    /\ nextId = MinWorkers
    /\ phase = [r \in Requests |-> "out"]
    /\ worker = [r \in Requests |-> NoWorker]
    /\ aborted = {}

-----------------------------------------------------------------------------
(* release(workerId), for the worker that caller r gives up as its run()   *)
(* or its stream ends.                                                     *)

\* The pool is still shrinking: the worker leaves it.
Retire(r) ==
    /\ total > target
    /\ total' = total - 1
    /\ phase' = [phase EXCEPT ![r] = "out"]
    /\ worker' = [worker EXCEPT ![r] = NoWorker]
    /\ UNCHANGED <<idle, waiters>>

\* resolve(workerId) of waiter `next`.  A waiter that is already settled
\* ignores the worker, which nobody then holds.
Pass(r, next) ==
    LET live == phase[next] = "queued"
    IN  /\ phase' = [phase EXCEPT ![r] = "out",
                                  ![next] = IF live THEN "granted" ELSE @]
        /\ worker' = [worker EXCEPT ![r] = NoWorker,
                                    ![next] = IF live THEN worker[r] ELSE @]
        /\ UNCHANGED <<idle, total>>

\* Faulty variant: the newest waiter is served first.
HandOverToNewest(r) ==
    /\ total <= target /\ waiters # <<>>
    /\ Pass(r, Last(waiters))
    /\ waiters' = Front(waiters)

\* Faulty variant: waiters are served before the surplus is looked at.
HandOverFirst(r) ==
    /\ waiters # <<>>
    /\ Pass(r, Head(waiters))
    /\ waiters' = Tail(waiters)

\* The first waiter gets the worker.
HandOver(r) ==
    /\ total <= target /\ waiters # <<>>
    /\ Pass(r, Head(waiters))
    /\ waiters' = Tail(waiters)

\* Nobody waits: the worker is idle.
Park(r) ==
    /\ total <= target /\ waiters = <<>>
    /\ idle' = Append(idle, worker[r])
    /\ phase' = [phase EXCEPT ![r] = "out"]
    /\ worker' = [worker EXCEPT ![r] = NoWorker]
    /\ UNCHANGED <<waiters, total>>

Release(r) ==
    /\ Retire(r) \/ HandOver(r) \/ Park(r)
    /\ aborted' = aborted \ {r}
    /\ UNCHANGED <<target, nextId>>

-----------------------------------------------------------------------------
(* run() up to its first await: acquire().  A call whose signal has        *)
(* already fired, and one that finds the queue full, is rejected at once   *)
(* and changes nothing.                                                    *)

TakeIdle(r) ==
    /\ phase[r] = "out"
    /\ idle # <<>>
    /\ idle' = Front(idle)
    /\ worker' = [worker EXCEPT ![r] = Last(idle)]
    /\ phase' = [phase EXCEPT ![r] = "granted"]
    /\ UNCHANGED <<waiters, total, target, nextId, aborted>>

Push(r) ==
    /\ waiters' = Append(waiters, r)
    /\ phase' = [phase EXCEPT ![r] = "queued"]
    /\ UNCHANGED <<idle, total, target, nextId, worker, aborted>>

\* Faulty variant: the queue takes one waiter too many.
EnqueueOneTooMany(r) ==
    phase[r] = "out" /\ idle = <<>> /\ Len(waiters) <= QueueLimit /\ Push(r)

Enqueue(r) ==
    phase[r] = "out" /\ idle = <<>> /\ Len(waiters) < QueueLimit /\ Push(r)

Acquire(r) == TakeIdle(r) \/ Enqueue(r)

\* Faulty variant: the promise rejects and its waiter stays in the queue.
RejectOnly(r) ==
    /\ phase[r] = "queued"
    /\ phase' = [phase EXCEPT ![r] = "out"]
    /\ UNCHANGED <<idle, waiters, total, target, nextId, worker, aborted>>

\* removeAndReject: the waiter leaves the queue before its promise rejects.
RemoveAndReject(r) ==
    /\ phase[r] = "queued"
    /\ \E i \in DOMAIN waiters :
          waiters[i] = r /\ waiters' = RemoveAt(waiters, i)
    /\ phase' = [phase EXCEPT ![r] = "out"]
    /\ UNCHANGED <<idle, total, target, nextId, worker, aborted>>

\* The queue timeout fires while the caller waits.
QueueTimeout(r) == RemoveAndReject(r)

\* run() resumes with its worker: a caller whose signal fired in between
\* gives the worker back, any other starts its task.
Resume(r) ==
    /\ phase[r] = "granted"
    /\ \/ /\ r \in aborted
          /\ Release(r)
       \/ /\ r \notin aborted
          /\ phase' = [phase EXCEPT ![r] = "task"]
          /\ UNCHANGED <<idle, waiters, total, target, nextId, worker, aborted>>

\* The task throws, or returns a response without a body.
TaskEnds(r) ==
    /\ phase[r] = "task"
    /\ Release(r)

\* Faulty variant: the signal is not looked at before the stream is held.
HoldRegardless(r) ==
    /\ phase[r] = "task"
    /\ phase' = [phase EXCEPT ![r] = "streaming"]
    /\ UNCHANGED <<idle, waiters, total, target, nextId, worker, aborted>>

\* The task returns a response with a body: the worker is held for the
\* stream, or released at once when the signal has already fired.
HoldForStream(r) ==
    /\ phase[r] = "task"
    /\ \/ /\ r \in aborted
          /\ Release(r)
       \/ /\ r \notin aborted
          /\ phase' = [phase EXCEPT ![r] = "streaming"]
          /\ UNCHANGED <<idle, waiters, total, target, nextId, worker, aborted>>

\* Faulty variant: the end of a stream that an abort has already released
\* releases it again.
StreamEndsTwice(r) ==
    /\ phase[r] \in {"streaming", "out"}
    /\ Release(r)

\* The body is read to its end, fails, or is cancelled by its consumer.
StreamEnds(r) ==
    /\ phase[r] = "streaming"
    /\ Release(r)

\* The caller's signal fires: its client disconnects or its upstream timeout
\* expires.  A waiter is removed from the queue and a stream gives up its
\* worker; while the task runs, or run() is about to resume, nothing but the
\* signal changes.
Abort(r) ==
    \/ RemoveAndReject(r)
    \/ /\ phase[r] = "streaming"
       /\ Release(r)
    \/ /\ phase[r] \in {"granted", "task"}
       /\ r \notin aborted
       /\ aborted' = aborted \cup {r}
       /\ UNCHANGED <<idle, waiters, total, target, nextId, phase, worker>>

-----------------------------------------------------------------------------
(* setWorkerCount(n), called by the adaptive controller when the count it  *)
(* wants differs from the target.                                          *)

\* Faulty variant: new workers are pushed on the idle stack, not released.
GrowIdle(n) ==
    LET added == n - total
    IN  /\ n > total
        /\ nextId + added <= MaxWorkerId
        /\ total' = n
        /\ target' = n
        /\ nextId' = nextId + added
        /\ idle' = idle \o [i \in 1..added |-> nextId + i - 1]
        /\ UNCHANGED <<waiters, phase, worker, aborted>>

\* Faulty variant: new workers are numbered by the worker count, which
\* forgets the numbers of workers that left.
GrowFromCount(n) ==
    LET added == n - total
    IN  /\ n > total
        /\ waiters = <<>>
        /\ total' = n
        /\ target' = n
        /\ idle' = idle \o [i \in 1..added |-> total + i - 1]
        /\ UNCHANGED <<waiters, nextId, phase, worker, aborted>>

\* Each new worker is released into the pool: to a waiter while there is
\* one, to the idle stack afterwards.
Grow(n) ==
    LET added  == n - total
        served == IF added < Len(waiters) THEN added ELSE Len(waiters)
    IN  /\ n > total
        /\ nextId + added <= MaxWorkerId
        /\ total' = n
        /\ target' = n
        /\ nextId' = nextId + added
        /\ waiters' = SubSeq(waiters, served + 1, Len(waiters))
        /\ phase' = [r \in Requests |->
              IF \E i \in 1..served : waiters[i] = r THEN "granted" ELSE phase[r]]
        /\ worker' = [r \in Requests |->
              IF \E i \in 1..served : waiters[i] = r
              THEN nextId + (CHOOSE i \in 1..served : waiters[i] = r) - 1
              ELSE worker[r]]
        /\ idle' = idle \o [i \in 1..(added - served) |-> nextId + served + i - 1]
        /\ UNCHANGED aborted

\* Faulty variant: only the target changes.
ShrinkTargetOnly(n) ==
    /\ n <= total
    /\ n # target
    /\ target' = n
    /\ UNCHANGED <<idle, waiters, total, nextId, phase, worker, aborted>>

\* Idle workers leave from the top of the stack; the rest of the surplus is
\* retired as its holders release it.
Shrink(n) ==
    LET surplus == total - n
        popped  == IF surplus < Len(idle) THEN surplus ELSE Len(idle)
    IN  /\ n <= total
        /\ n # target
        /\ target' = n
        /\ total' = total - popped
        /\ idle' = SubSeq(idle, 1, Len(idle) - popped)
        /\ UNCHANGED <<waiters, nextId, phase, worker, aborted>>

SetWorkerCount(n) == Grow(n) \/ Shrink(n)

Next ==
    \/ \E r \in Requests :
          \/ Acquire(r)
          \/ QueueTimeout(r)
          \/ Resume(r)
          \/ TaskEnds(r)
          \/ HoldForStream(r)
          \/ StreamEnds(r)
          \/ Abort(r)
    \/ \E n \in MinWorkers..MaxWorkers : SetWorkerCount(n)

Spec == Init /\ [][Next]_vars

\* Every promise that is resolved continues, every task ends (its waits and
\* its fetch all listen to the upstream signal, which fires after
\* PROXY_UPSTREAM_TIMEOUT_MS at the latest), and the same signal ends every
\* stream.  Nothing is assumed of the queue timeout, of new calls, of client
\* disconnects or of the controller.
Fairness ==
    \A r \in Requests :
        /\ WF_vars(Resume(r))
        /\ WF_vars(TaskEnds(r) \/ HoldForStream(r))
        /\ WF_vars(StreamEnds(r))

FairSpec == Spec /\ Fairness

-----------------------------------------------------------------------------
(* Properties *)

TypeOK ==
    /\ idle \in Seq(Nat)
    /\ waiters \in Seq(Requests)
    /\ total \in Nat
    /\ target \in MinWorkers..MaxWorkers
    /\ nextId \in Nat
    /\ phase \in [Requests -> Phases]
    /\ worker \in [Requests -> Nat \cup {NoWorker}]
    /\ aborted \in SUBSET Requests

\* The queue holds exactly the callers whose promise is pending, each once:
\* no settled waiter is left behind for release() to hand a worker to.
QueueIsPending ==
    /\ \A r \in Requests : phase[r] = "queued" <=> \E i \in DOMAIN waiters : waiters[i] = r
    /\ \A i, j \in DOMAIN waiters : waiters[i] = waiters[j] => i = j

\* The counter the pool sizes itself by agrees with the workers there are:
\* no interleaving of timeouts, aborts, stream ends and resizes loses a
\* worker or returns one twice.
NoWorkerLost == total = Len(idle) + Cardinality(Holders)

\* A worker number serves one request at a time and is never both idle and
\* held.
ExclusiveWorkers ==
    /\ \A r \in Requests : r \in Holders <=> worker[r] # NoWorker
    /\ \A r, s \in Holders : worker[r] = worker[s] => r = s
    /\ \A i, j \in DOMAIN idle : idle[i] = idle[j] => i = j
    /\ \A r \in Holders : \A i \in DOMAIN idle : worker[r] # idle[i]

\* A number handed to a new worker has never been used before.
FreshNumbers ==
    /\ \A i \in DOMAIN idle : idle[i] < nextId
    /\ \A r \in Holders : worker[r] < nextId

\* No request waits while a worker is idle.
WorkConserving == waiters # <<>> => idle = <<>>

\* A pool above its target has only busy workers left to retire, and it
\* never falls below the target.
ShrinkTakesIdleFirst ==
    /\ target <= total
    /\ total > target => idle = <<>>

\* A stream whose signal has fired no longer occupies a worker, whatever the
\* moment the signal fired at.
AbortedStreamHoldsNoWorker ==
    \A r \in Requests : phase[r] = "streaming" => r \notin aborted

\* The conjuncts above and the bound of the queue: inductive together.
PoolInv ==
    /\ TypeOK
    /\ QueueIsPending
    /\ Len(waiters) <= QueueLimit
    /\ NoWorkerLost
    /\ ExclusiveWorkers
    /\ FreshNumbers
    /\ WorkConserving
    /\ ShrinkTakesIdleFirst
    /\ AbortedStreamHoldsNoWorker

\* Workers reach waiters in order of arrival: a step that serves a waiter
\* leaves nobody before it in the queue.
FifoHandOver ==
    [][\A i, j \in DOMAIN waiters :
          i < j /\ phase'[waiters[j]] = "granted" => phase'[waiters[i]] # "queued"]_vars

\* The pool, whatever its workers, stack and counters, is the abstract
\* admission control over its current target.
Admission == INSTANCE AdmissionControl
                WITH LineLimit <- QueueLimit,
                     Capacities <- MinWorkers..MaxWorkers,
                     capacity <- target,
                     admitted <- Holders,
                     line <- waiters

ImplementsAdmission == Admission!ASpec

\* A queued request leaves the queue even if its queue timeout never fires:
\* the requests before it finish and their workers come round, however the
\* pool is resized meanwhile.
WaiterIsServed ==
    \A r \in Requests : phase[r] = "queued" ~> phase[r] # "queued"

\* A reduced pool reaches its target as the surplus workers are released.
ShrinkCompletes == total > target ~> total = target
=============================================================================
