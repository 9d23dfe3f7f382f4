--------------------------- MODULE AdaptiveWorkers ---------------------------
(***************************************************************************)
(* The controller that resizes the proxy's worker pool once a second       *)
(* (AdaptiveProxyWorkerController, server/utils/proxy-worker-pool.ts), on  *)
(* the pool's three numbers.  ProxyWorkerPool allows any resize; this      *)
(* module says which ones happen.                                          *)
(*                                                                         *)
(* CPU and event-loop readings are reduced to what the thresholds tell     *)
(* apart: "high" (85 percent, or 200 ms of lag), "low" (at most 70         *)
(* percent) and "medium".                                                  *)
(***************************************************************************)
EXTENDS Integers

CONSTANTS
    MinCount,    \* PROXY_MIN_WORKERS
    MaxCount,    \* PROXY_MAX_WORKERS
    IdleSamples, \* samples that 30 seconds of idleness take
    MaxWaiting   \* bound of the model on the queue

VARIABLES
    count,    \* pool.workerCount, the target
    active,   \* pool.active
    waiting,  \* pool.waiting
    quiet,    \* samples since idleSince, up to IdleSamples
    load      \* what the readings come to

adaptiveVars == <<count, active, waiting, quiet, load>>

Larger(a, b) == IF a > b THEN a ELSE b
Smaller(a, b) == IF a < b THEN a ELSE b
DivUp(a, b) == (a + b - 1) \div b

AdaptiveInit ==
    /\ count = MinCount
    /\ active = 0
    /\ waiting = 0
    /\ quiet = 0
    /\ load = "low"

-----------------------------------------------------------------------------
(* The pool's side: a request arrives, or one gives its worker back.       *)

Request ==
    /\ \/ active < count /\ active' = active + 1 /\ UNCHANGED waiting
       \/ active >= count /\ waiting < MaxWaiting /\ waiting' = waiting + 1
          /\ UNCHANGED active
    /\ UNCHANGED <<count, quiet, load>>

GiveBack ==
    /\ active > 0
    /\ IF active <= count /\ waiting > 0
       THEN waiting' = waiting - 1 /\ UNCHANGED active
       ELSE active' = active - 1 /\ UNCHANGED waiting
    /\ UNCHANGED <<count, quiet, load>>

GiveUp ==
    /\ waiting > 0
    /\ waiting' = waiting - 1
    /\ UNCHANGED <<count, active, quiet, load>>

-----------------------------------------------------------------------------
(* The controller's side.                                                  *)

UnderPressure(w) == Larger(MinCount, (3 * w) \div 4)

\* Faulty variant: the upper bound is forgotten.
DemandUnbounded(w, a, n) == Larger(Larger(w + 16, DivUp(3 * w, 2)), Smaller(a + n, 2 * w))

ForDemand(w, a, n) ==
    Smaller(MaxCount, Larger(Larger(w + 16, DivUp(3 * w, 2)), Smaller(a + n, 2 * w)))

\* Faulty variant: nine tenths, which rounds up to no change below ten.
AfterIdlenessSlowly(w, a) == Larger(MinCount, Larger(DivUp(5 * a, 4), DivUp(9 * w, 10)))

AfterIdleness(w, a) == Larger(MinCount, Larger(DivUp(5 * a, 4), DivUp(4 * w, 5)))

NextCount(w, a, n, l, q) ==
    IF l = "high" THEN UnderPressure(w)
    ELSE IF n > 0 /\ l = "low" THEN ForDemand(w, a, n)
    ELSE IF n = 0 /\ q >= IdleSamples /\ 20 * a < 7 * w THEN AfterIdleness(w, a)
    ELSE w

Loads == {"low", "medium", "high"}

LoadChanges ==
    /\ load' \in Loads \ {load}
    /\ UNCHANGED <<count, active, waiting, quiet>>

\* sample(), with setWorkerCount(): new workers serve the line at once,
\* surplus ones leave as they are given back.
Sample ==
    LET q == IF waiting > 0 \/ 5 * active >= 4 * count THEN 0
             ELSE Smaller(quiet + 1, IdleSamples)
        next == NextCount(count, active, waiting, load, q)
        served == Smaller(waiting, Larger(0, next - Larger(count, active)))
    IN  /\ count' = next
        /\ quiet' = q
        /\ active' = active + served
        /\ waiting' = waiting - served
        /\ UNCHANGED load

AdaptiveNext == Request \/ GiveBack \/ GiveUp \/ LoadChanges \/ Sample

\* The interval timer fires.
AdaptiveFairness == WF_adaptiveVars(Sample)

AdaptiveSpec == AdaptiveInit /\ [][AdaptiveNext]_adaptiveVars /\ AdaptiveFairness

-----------------------------------------------------------------------------
\* The constants as getProxyWorkerPoolConfig validates them.
AdaptiveConfig ==
    /\ MinCount \in Nat \ {0}
    /\ MaxCount \in Nat
    /\ MinCount <= MaxCount
    /\ IdleSamples \in Nat
    /\ MaxWaiting \in Nat

AdaptiveTypeOK ==
    /\ count \in MinCount..MaxCount
    /\ active \in Nat
    /\ waiting \in 0..MaxWaiting
    /\ quiet \in 0..IdleSamples
    /\ load \in Loads

\* The target stays between its bounds, no request waits beside a worker, and
\* a reduction for idleness never turns a busy worker into a surplus one.
ResizeLeavesRoom ==
    /\ count \in MinCount..MaxCount
    /\ waiting > 0 => active >= count
    /\ LET cut == NextCount(count, active, 0, "low", IdleSamples)
       IN  cut < count => active < cut

\* A pool that stays idle comes back to its minimum, or to four workers if
\* that is more: four fifths of four round up to four.
IdlePoolShrinks ==
    <>[](active = 0 /\ waiting = 0) => <>[](count <= Larger(MinCount, 4))

=============================================================================
