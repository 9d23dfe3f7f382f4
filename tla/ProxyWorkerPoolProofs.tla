----------------------- MODULE ProxyWorkerPoolProofs -----------------------
(***************************************************************************)
(* Proofs about ProxyWorkerPool, for every number of workers and callers   *)
(* and every queue limit.  The parts of the inductive invariant are the    *)
(* properties the runs check, plus IssuedBelowNext and QueueWithinLimit.   *)
(***************************************************************************)
EXTENDS ProxyWorkerPool, AdaptiveWorkers, FiniteSetTheorems, SequenceTheorems, TLAPS

-----------------------------------------------------------------------------
(* Sequences *)

\* The first k elements of a sequence.
LEMMA PrefixFacts ==
    ASSUME NEW S, NEW s \in Seq(S), NEW k \in 0..Len(s)
    PROVE  /\ SubSeq(s, 1, k) \in Seq(S)
           /\ Len(SubSeq(s, 1, k)) = k
           /\ \A i \in 1..k : SubSeq(s, 1, k)[i] = s[i]
<1>1. Len(s) \in Nat /\ \A i \in 1..k : s[i] \in S
    BY LenProperties, ElementOfSeq
<1> QED
    BY <1>1, SubSeqProperties

\* The elements of a sequence after the first k.
LEMMA SuffixFacts ==
    ASSUME NEW S, NEW s \in Seq(S), NEW k \in 0..Len(s)
    PROVE  /\ SubSeq(s, k + 1, Len(s)) \in Seq(S)
           /\ Len(SubSeq(s, k + 1, Len(s))) = Len(s) - k
           /\ \A i \in 1..(Len(s) - k) : SubSeq(s, k + 1, Len(s))[i] = s[i + k]
<1>1. Len(s) \in Nat /\ \A i \in (k + 1)..Len(s) : s[i] \in S
    BY LenProperties, ElementOfSeq
<1> QED
    BY <1>1, SubSeqProperties

\* Popping a stack (idleWorkers.pop) leaves the elements below the top.
LEMMA FrontLast ==
    ASSUME NEW S, NEW s \in Seq(S), s # <<>>
    PROVE  /\ Front(s) \in Seq(S)
           /\ Len(s) \in Nat \ {0}
           /\ Len(Front(s)) = Len(s) - 1
           /\ \A i \in 1..(Len(s) - 1) : Front(s)[i] = s[i]
           /\ Last(s) = s[Len(s)]
           /\ Last(s) \in S
<1>1. Len(s) \in Nat \ {0} /\ \A i \in 1..Len(s) : s[i] \in S
    BY EmptySeq, ElementOfSeq
<1>2. Len(s) - 1 \in 0..Len(s)
    BY <1>1
<1>3. /\ Front(s) \in Seq(S)
      /\ Len(Front(s)) = Len(s) - 1
      /\ \A i \in 1..(Len(s) - 1) : Front(s)[i] = s[i]
    <2> DEFINE k == Len(s) - 1
    <2>1. k \in 0..Len(s)
        BY <1>2
    <2> HIDE DEF k
    <2>2. /\ SubSeq(s, 1, k) \in Seq(S)
          /\ Len(SubSeq(s, 1, k)) = k
          /\ \A i \in 1..k : SubSeq(s, 1, k)[i] = s[i]
        BY <2>1, PrefixFacts
    <2> QED
        BY <2>2 DEF Front, k
<1> QED
    BY <1>1, <1>3 DEF Last

\* Deleting one entry of the queue keeps the others, in their order.
LEMMA RemoveAtFacts ==
    ASSUME NEW S, NEW s \in Seq(S), NEW k \in 1..Len(s)
    PROVE  /\ RemoveAt(s, k) \in Seq(S)
           /\ Len(RemoveAt(s, k)) = Len(s) - 1
           /\ \A i \in 1..(Len(s) - 1) :
                 RemoveAt(s, k)[i] = IF i < k THEN s[i] ELSE s[i + 1]
<1> DEFINE a == SubSeq(s, 1, k - 1)
           b == SubSeq(s, k + 1, Len(s))
<1>1. Len(s) \in Nat /\ k \in 0..Len(s) /\ k - 1 \in 0..Len(s)
    BY LenProperties
<1>2. a \in Seq(S) /\ Len(a) = k - 1 /\ \A i \in 1..(k - 1) : a[i] = s[i]
    BY <1>1, PrefixFacts
<1>3. /\ b \in Seq(S) /\ Len(b) = Len(s) - k
      /\ \A i \in 1..(Len(s) - k) : b[i] = s[i + k]
    BY <1>1, SuffixFacts
<1>4. /\ a \o b \in Seq(S)
      /\ Len(a \o b) = Len(s) - 1
      /\ \A i \in 1..(Len(s) - 1) :
            (a \o b)[i] = IF i <= k - 1 THEN a[i] ELSE b[i - (k - 1)]
    <2> HIDE DEF a, b
    <2>1. /\ a \o b \in Seq(S)
          /\ Len(a \o b) = Len(a) + Len(b)
          /\ \A i \in 1..(Len(a) + Len(b)) :
                (a \o b)[i] = IF i <= Len(a) THEN a[i] ELSE b[i - Len(a)]
        BY <1>2, <1>3, ConcatProperties
    <2>2. Len(a) + Len(b) = Len(s) - 1
        BY <1>1, <1>2, <1>3
    <2> QED BY <1>2, <2>1, <2>2
<1>5. ASSUME NEW i \in 1..(Len(s) - 1)
      PROVE  (a \o b)[i] = IF i < k THEN s[i] ELSE s[i + 1]
    <2> HIDE DEF a, b
    <2>1. CASE i < k
        <3>1. i <= k - 1 /\ i \in 1..(k - 1)
            BY <1>1, <2>1
        <3> QED BY <1>2, <1>4, <2>1, <3>1
    <2>2. CASE ~(i < k)
        <3>1. ~(i <= k - 1) /\ i - (k - 1) \in 1..(Len(s) - k) /\ i - (k - 1) + k = i + 1
            BY <1>1, <2>2
        <3>2. b[i - (k - 1)] = s[i + 1]
            BY <1>3, <3>1
        <3> QED BY <1>4, <2>2, <3>1, <3>2
    <2> QED BY <2>1, <2>2
<1> QED
    BY <1>4, <1>5 DEF RemoveAt


-----------------------------------------------------------------------------
(* What the steps do to the set of callers that hold a worker.             *)

LEMMA HoldersFinite ==
    /\ IsFiniteSet(Holders)
    /\ Cardinality(Holders) \in Nat
BY PoolAssumption, FS_Subset, FS_CardinalityType DEF Holders

\* One holder leaves.
LEMMA HolderLeaves ==
    ASSUME NEW r \in Holders, Holders' = Holders \ {r}
    PROVE  Cardinality(Holders') = Cardinality(Holders) - 1
BY HoldersFinite, FS_RemoveElement

\* One caller that held nothing becomes a holder.
LEMMA HolderEnters ==
    ASSUME NEW r, r \notin Holders, Holders' = Holders \cup {r}
    PROVE  Cardinality(Holders') = Cardinality(Holders) + 1
BY HoldersFinite, FS_AddElement

\* One holder is replaced by a caller that held nothing.
LEMMA HolderReplaced ==
    ASSUME NEW r \in Holders, NEW s, s \notin Holders,
           Holders' = (Holders \ {r}) \cup {s}
    PROVE  Cardinality(Holders') = Cardinality(Holders)
<1>1. /\ IsFiniteSet(Holders \ {r})
      /\ Cardinality(Holders \ {r}) = Cardinality(Holders) - 1
    BY HoldersFinite, FS_RemoveElement
<1>2. Cardinality(Holders') = Cardinality(Holders \ {r}) + 1
    BY <1>1, FS_AddElement
<1> QED
    BY <1>1, <1>2, HoldersFinite

\* The first n of a queue without repetitions are n callers.
LEMMA FirstOfQueue ==
    ASSUME NEW s \in Seq(Requests), NEW n \in 0..Len(s),
           \A i, j \in DOMAIN s : s[i] = s[j] => i = j
    PROVE  Cardinality({s[i] : i \in 1..n}) = n
<1> DEFINE T == {s[i] : i \in 1..n}
           f == [i \in 1..n |-> s[i]]
<1>1. Len(s) \in Nat /\ DOMAIN s = 1..Len(s) /\ n \in Nat
    BY LenProperties
<1>2. IsFiniteSet(1..n) /\ Cardinality(1..n) = n
    BY <1>1, FS_Interval
<1>3. f \in Bijection(1..n, T)
  <2>1. \A i \in 1..n : s[i] \in T
      OBVIOUS
  <2>2. f \in [1..n -> T]
      BY <2>1
  <2>3. 1..n \subseteq DOMAIN s
      BY <1>1
  <2>4. \A i, j \in 1..n : f[i] = f[j] => i = j
      BY <2>3
  <2>5. \A t \in T : \E i \in 1..n : f[i] = t
      OBVIOUS
  <2>6. DOMAIN f = 1..n
      OBVIOUS
  <2> HIDE DEF f, T
  <2>7. IsInjective(f)
      BY <2>4, <2>6, Zenon DEF IsInjective
  <2> QED
      BY <2>2, <2>5, <2>7, Zenon DEF Bijection, Injection, Surjection
<1>4. ExistsBijection(1..n, T)
    BY <1>3 DEF ExistsBijection
<1> QED
    BY <1>2, <1>4, FS_Bijection

-----------------------------------------------------------------------------
(* The invariant: initially, and one lemma per kind of step.               *)

LEMMA InitPoolInv == Init => PoolInv
<1> SUFFICES ASSUME Init PROVE PoolInv
    OBVIOUS
<1> USE PoolAssumption
<1>1. idle \in Seq(Nat) /\ Len(idle) = MinWorkers /\ DOMAIN idle = 1..MinWorkers
    BY DEF Init
<1>2. waiters \in Seq(Requests) /\ waiters = <<>> /\ Len(waiters) = 0
    BY DEF Init
<1>3. TypeOK
    BY <1>1, <1>2 DEF Init, TypeOK, Phases
<1>4. Holders = {} /\ Cardinality(Holders) = 0
    BY FS_EmptySet DEF Init, Holders
<1>5. NoWorkerLost
    BY <1>1, <1>4 DEF Init, NoWorkerLost
<1>6. ExclusiveWorkers /\ FreshNumbers
    BY <1>1, <1>4 DEF Init, ExclusiveWorkers, FreshNumbers
<1>7. QueueIsPending /\ Len(waiters) <= QueueLimit
    BY <1>2 DEF Init, QueueIsPending
<1>8. WorkConserving /\ ShrinkTakesIdleFirst /\ AbortedStreamHoldsNoWorker
    BY DEF Init, WorkConserving, ShrinkTakesIdleFirst, AbortedStreamHoldsNoWorker
<1> QED
    BY <1>2, <1>3, <1>5, <1>6, <1>7, <1>8 DEF PoolInv

\* release() while the pool is above its target.
LEMMA RetirePreserves ==
    ASSUME PoolInv, NEW r \in Holders, Retire(r),
           aborted' = aborted \ {r}, UNCHANGED <<target, nextId>>
    PROVE  PoolInv'
<1> USE PoolAssumption DEF PoolInv
<1>1. r \in Requests /\ phase[r] # "queued"
    BY DEF Holders
<1>2. Holders' = Holders \ {r}
    BY <1>1 DEF Retire, TypeOK, Holders
<1>3. TypeOK'
    BY <1>1 DEF Retire, TypeOK, Phases
<1>4. NoWorkerLost'
    <2>1. Cardinality(Holders') = Cardinality(Holders) - 1
        BY <1>2, HolderLeaves
    <2> QED
        BY <2>1, HoldersFinite DEF Retire, NoWorkerLost, TypeOK
<1>5. ExclusiveWorkers' /\ FreshNumbers'
    BY <1>1, <1>2 DEF Retire, TypeOK, ExclusiveWorkers, FreshNumbers, Holders
<1>6. QueueIsPending' /\ Len(waiters') <= QueueLimit
    BY <1>1 DEF Retire, TypeOK, QueueIsPending
<1>7. WorkConserving' /\ ShrinkTakesIdleFirst' /\ AbortedStreamHoldsNoWorker'
    BY <1>1 DEF Retire, TypeOK, WorkConserving, ShrinkTakesIdleFirst,
                AbortedStreamHoldsNoWorker
<1> QED
    BY <1>3, <1>4, <1>5, <1>6, <1>7

\* release() with nobody waiting.
LEMMA ParkPreserves ==
    ASSUME PoolInv, NEW r \in Holders, Park(r),
           aborted' = aborted \ {r}, UNCHANGED <<target, nextId>>
    PROVE  PoolInv'
<1> USE PoolAssumption DEF PoolInv
<1>1. r \in Requests /\ phase[r] # "queued"
    BY DEF Holders
<1>2. Holders' = Holders \ {r}
    BY <1>1 DEF Park, TypeOK, Holders
<1>3. worker[r] \in Nat
    BY <1>1 DEF TypeOK, ExclusiveWorkers
<1>4. /\ Len(idle) \in Nat
      /\ idle' \in Seq(Nat)
      /\ DOMAIN idle = 1..Len(idle)
      /\ DOMAIN idle' = 1..(Len(idle) + 1)
      /\ Len(idle') = Len(idle) + 1
      /\ \A i \in 1..Len(idle) : idle'[i] = idle[i]
      /\ idle'[Len(idle) + 1] = worker[r]
    BY <1>3 DEF Park, TypeOK
<1>5. TypeOK'
    BY <1>1, <1>4 DEF Park, TypeOK, Phases
<1>6. NoWorkerLost'
    <2>1. Cardinality(Holders') = Cardinality(Holders) - 1
        BY <1>2, HolderLeaves
    <2> QED
        BY <1>4, <2>1, HoldersFinite DEF Park, NoWorkerLost, TypeOK
<1>7. ExclusiveWorkers' /\ FreshNumbers'
    <2>1. \A s \in Requests : worker'[s] = IF s = r THEN NoWorker ELSE worker[s]
        BY <1>1 DEF Park, TypeOK
    <2>2. \A i \in DOMAIN idle' : i \in DOMAIN idle \/ i = Len(idle) + 1
        BY <1>4
    <2>3. \A s, t \in Holders' : worker'[s] = worker'[t] => s = t
        BY <1>1, <1>2, <2>1 DEF ExclusiveWorkers, Holders
    <2>4. \A s \in Requests : s \in Holders' <=> worker'[s] # NoWorker
        BY <1>1, <1>2, <2>1 DEF ExclusiveWorkers
    <2>5. \A i, j \in DOMAIN idle' : idle'[i] = idle'[j] => i = j
        BY <1>4, <2>2 DEF ExclusiveWorkers
    <2>6. \A s \in Holders' : \A i \in DOMAIN idle' : worker'[s] # idle'[i]
        BY <1>1, <1>2, <1>4, <2>1, <2>2 DEF ExclusiveWorkers, Holders
    <2>7. /\ \A i \in DOMAIN idle' : idle'[i] < nextId'
          /\ \A s \in Holders' : worker'[s] < nextId'
        BY <1>1, <1>2, <1>4, <2>1, <2>2 DEF FreshNumbers, Holders
    <2> QED
        BY <2>3, <2>4, <2>5, <2>6, <2>7 DEF ExclusiveWorkers, FreshNumbers
<1>8. QueueIsPending' /\ Len(waiters') <= QueueLimit
    BY <1>1 DEF Park, TypeOK, QueueIsPending
<1>9. WorkConserving' /\ ShrinkTakesIdleFirst' /\ AbortedStreamHoldsNoWorker'
    BY <1>1 DEF Park, TypeOK, WorkConserving, ShrinkTakesIdleFirst,
                AbortedStreamHoldsNoWorker
<1> QED
    BY <1>5, <1>6, <1>7, <1>8, <1>9

\* release() with a waiter.
LEMMA HandOverPreserves ==
    ASSUME PoolInv, NEW r \in Holders, HandOver(r),
           aborted' = aborted \ {r}, UNCHANGED <<target, nextId>>
    PROVE  PoolInv'
<1> USE PoolAssumption DEF PoolInv
<1> DEFINE next == Head(waiters)
<1>1. r \in Requests /\ phase[r] # "queued"
    BY DEF Holders
<1>2. /\ waiters # <<>>
      /\ Len(waiters) \in Nat \ {0}
      /\ DOMAIN waiters = 1..Len(waiters)
      /\ next \in Requests
      /\ next = waiters[1]
    BY EmptySeq, LenProperties, HeadTailProperties DEF HandOver, TypeOK
<1>3. /\ waiters' \in Seq(Requests)
      /\ Len(waiters') = Len(waiters) - 1
      /\ DOMAIN waiters' = 1..(Len(waiters) - 1)
      /\ \A i \in DOMAIN waiters' : waiters'[i] = waiters[i + 1]
    BY <1>2, HeadTailProperties, LenProperties DEF HandOver, TypeOK
<1>4. phase[next] = "queued" /\ next # r /\ next \notin Holders
    BY <1>1, <1>2 DEF QueueIsPending, Holders
<1>5. /\ phase' \in [Requests -> Phases]
      /\ \A s \in Requests : phase'[s] = IF s = r THEN "out" ELSE
                                         IF s = next THEN "granted" ELSE phase[s]
    BY <1>1, <1>2, <1>4 DEF HandOver, Pass, TypeOK, Phases
<1>6. /\ worker' \in [Requests -> Nat \cup {NoWorker}]
      /\ \A s \in Requests : worker'[s] = IF s = r THEN NoWorker ELSE
                                          IF s = next THEN worker[r] ELSE worker[s]
    BY <1>1, <1>2, <1>4 DEF HandOver, Pass, TypeOK
<1> HIDE DEF next
<1>7. Holders' = (Holders \ {r}) \cup {next}
    BY <1>1, <1>2, <1>4, <1>5 DEF Holders
<1>8. UNCHANGED <<idle, total, target, nextId>>
    BY DEF HandOver, Pass
<1>9. TypeOK'
    BY <1>3, <1>5, <1>6, <1>8 DEF TypeOK
<1>10. NoWorkerLost'
    BY <1>4, <1>7, <1>8, HolderReplaced DEF NoWorkerLost
<1>11. ExclusiveWorkers' /\ FreshNumbers'
    <2>1. \A s \in Holders : s \in Requests
        BY DEF Holders
    <2>2. \A s, t \in Holders' : worker'[s] = worker'[t] => s = t
        BY <1>1, <1>2, <1>4, <1>6, <1>7, <2>1 DEF ExclusiveWorkers
    <2>3. \A s \in Requests : s \in Holders' <=> worker'[s] # NoWorker
        BY <1>1, <1>2, <1>4, <1>6, <1>7 DEF ExclusiveWorkers
    <2>4. \A s \in Holders' : \A i \in DOMAIN idle' : worker'[s] # idle'[i]
        BY <1>1, <1>2, <1>4, <1>6, <1>7, <1>8, <2>1 DEF ExclusiveWorkers
    <2>5. \A s \in Holders' : worker'[s] < nextId'
        BY <1>1, <1>2, <1>4, <1>6, <1>7, <1>8, <2>1 DEF FreshNumbers
    <2> QED
        BY <1>8, <2>2, <2>3, <2>4, <2>5 DEF ExclusiveWorkers, FreshNumbers
<1>12. QueueIsPending' /\ Len(waiters') <= QueueLimit
    <2>1. \A i, j \in DOMAIN waiters' : waiters'[i] = waiters'[j] => i = j
        BY <1>2, <1>3 DEF QueueIsPending
    <2>2. \A i \in DOMAIN waiters' : waiters'[i] # next /\ waiters'[i] # r
        <3>1. ASSUME NEW i \in DOMAIN waiters'
              PROVE  waiters'[i] # next /\ waiters'[i] # r
            <4>1. i + 1 \in DOMAIN waiters /\ i + 1 # 1 /\ 1 \in DOMAIN waiters
                BY <1>2, <1>3
            <4>2. waiters[i + 1] \in Requests /\ phase[waiters[i + 1]] = "queued"
                BY <4>1 DEF QueueIsPending, TypeOK
            <4> QED
                BY <1>1, <1>2, <1>3, <4>1, <4>2 DEF QueueIsPending
        <3> QED
            BY <3>1
    <2>3. ASSUME NEW s \in Requests
          PROVE  phase'[s] = "queued" <=> \E i \in DOMAIN waiters' : waiters'[i] = s
        <3>1. CASE s = r \/ s = next
            BY <1>5, <2>2, <3>1
        <3>2. CASE s # r /\ s # next
            <4>1. ASSUME NEW i \in DOMAIN waiters, waiters[i] = s
                  PROVE  \E j \in DOMAIN waiters' : waiters'[j] = s
                <5>1. i - 1 \in DOMAIN waiters' /\ waiters'[i - 1] = s
                    BY <1>2, <1>3, <3>2, <4>1
                <5> QED
                    BY <5>1
            <4>2. ASSUME NEW i \in DOMAIN waiters', waiters'[i] = s
                  PROVE  \E j \in DOMAIN waiters : waiters[j] = s
                <5>1. i + 1 \in DOMAIN waiters /\ waiters[i + 1] = s
                    BY <1>2, <1>3, <4>2
                <5> QED
                    BY <5>1
            <4> QED
                BY <1>5, <3>2, <4>1, <4>2 DEF QueueIsPending
        <3> QED
            BY <3>1, <3>2
    <2> QED
        BY <1>2, <1>3, <2>1, <2>3 DEF QueueIsPending
<1>13. WorkConserving' /\ ShrinkTakesIdleFirst'
    BY <1>2, <1>8 DEF WorkConserving, ShrinkTakesIdleFirst
<1>14. AbortedStreamHoldsNoWorker'
    BY <1>1, <1>5 DEF AbortedStreamHoldsNoWorker, TypeOK
<1> QED
    BY <1>9, <1>10, <1>11, <1>12, <1>13, <1>14

LEMMA ReleasePreserves ==
    ASSUME PoolInv, NEW r \in Holders, Release(r)
    PROVE  PoolInv'
BY RetirePreserves, HandOverPreserves, ParkPreserves DEF Release

\* run() goes on with its worker, or a signal fires while it does.
LEMMA AdvancePreserves ==
    ASSUME PoolInv, NEW r \in Holders,
           UNCHANGED <<idle, waiters, total, target, nextId, worker>>,
           \/ /\ r \notin aborted
              /\ \E p \in {"task", "streaming"} : phase' = [phase EXCEPT ![r] = p]
              /\ UNCHANGED aborted
           \/ /\ phase[r] # "streaming"
              /\ UNCHANGED phase
              /\ aborted' = aborted \cup {r}
    PROVE  PoolInv'
<1> USE PoolAssumption DEF PoolInv
<1>1. r \in Requests /\ phase[r] # "queued"
    BY DEF Holders
<1>2. Holders' = Holders
    BY <1>1 DEF TypeOK, Holders
<1>3. TypeOK'
    BY <1>1 DEF TypeOK, Phases
<1>4. NoWorkerLost'
    BY <1>2 DEF NoWorkerLost
<1>5. ExclusiveWorkers' /\ FreshNumbers'
    BY <1>2 DEF ExclusiveWorkers, FreshNumbers
<1>6. QueueIsPending' /\ Len(waiters') <= QueueLimit
    BY <1>1 DEF QueueIsPending, TypeOK
<1>7. WorkConserving' /\ ShrinkTakesIdleFirst' /\ AbortedStreamHoldsNoWorker'
    BY <1>1 DEF TypeOK, WorkConserving, ShrinkTakesIdleFirst, AbortedStreamHoldsNoWorker
<1> QED
    BY <1>3, <1>4, <1>5, <1>6, <1>7

\* A call finds an idle worker.
LEMMA TakeIdlePreserves ==
    ASSUME PoolInv, NEW r \in Requests, TakeIdle(r)
    PROVE  PoolInv'
<1> USE PoolAssumption DEF PoolInv
<1>1. /\ phase[r] = "out" /\ r \notin Holders
      /\ worker[r] = NoWorker
    BY DEF TakeIdle, Holders, ExclusiveWorkers
<1>2. /\ Len(idle) \in Nat \ {0}
      /\ DOMAIN idle = 1..Len(idle)
      /\ idle' \in Seq(Nat)
      /\ Len(idle') = Len(idle) - 1
      /\ DOMAIN idle' = 1..(Len(idle) - 1)
      /\ \A i \in DOMAIN idle' : idle'[i] = idle[i]
      /\ Len(idle) \in DOMAIN idle
      /\ Last(idle) = idle[Len(idle)]
      /\ Last(idle) \in Nat
    <2>1. idle \in Seq(Nat) /\ idle # <<>> /\ idle' = Front(idle)
        BY DEF TakeIdle, TypeOK
    <2>2. /\ idle' \in Seq(Nat)
          /\ Len(idle) \in Nat \ {0}
          /\ Len(idle') = Len(idle) - 1
          /\ \A i \in 1..(Len(idle) - 1) : idle'[i] = idle[i]
          /\ Last(idle) = idle[Len(idle)]
          /\ Last(idle) \in Nat
        BY <2>1, FrontLast
    <2>3. DOMAIN idle = 1..Len(idle) /\ DOMAIN idle' = 1..(Len(idle) - 1)
        BY <2>1, <2>2, LenProperties
    <2>4. Len(idle) \in DOMAIN idle
        BY <2>2, <2>3
    <2> QED
        BY <2>2, <2>3, <2>4
<1>3. Holders' = Holders \cup {r}
    BY <1>1 DEF TakeIdle, TypeOK, Holders
<1>4. TypeOK'
    BY <1>2 DEF TakeIdle, TypeOK, Phases
<1>5. NoWorkerLost'
    <2>1. Cardinality(Holders') = Cardinality(Holders) + 1
        BY <1>1, <1>3, HolderEnters
    <2> QED
        BY <1>2, <2>1, HoldersFinite DEF TakeIdle, NoWorkerLost, TypeOK
<1>6. ExclusiveWorkers' /\ FreshNumbers'
    <2>1. \A s \in Requests : worker'[s] = IF s = r THEN Last(idle) ELSE worker[s]
        BY DEF TakeIdle, TypeOK
    <2>2. \A s \in Holders : s \in Requests /\ worker[s] # Last(idle)
        BY <1>2 DEF ExclusiveWorkers, Holders
    <2>3. \A i \in DOMAIN idle' : i \in DOMAIN idle /\ idle[i] # Last(idle)
        BY <1>2 DEF ExclusiveWorkers
    <2>4. \A s, t \in Holders' : worker'[s] = worker'[t] => s = t
        BY <1>1, <1>3, <2>1, <2>2 DEF ExclusiveWorkers
    <2>5. \A s \in Requests : s \in Holders' <=> worker'[s] # NoWorker
        BY <1>1, <1>2, <1>3, <2>1 DEF ExclusiveWorkers
    <2>6. \A i, j \in DOMAIN idle' : idle'[i] = idle'[j] => i = j
        BY <1>2, <2>3 DEF ExclusiveWorkers
    <2>7. \A s \in Holders' : \A i \in DOMAIN idle' : worker'[s] # idle'[i]
        BY <1>2, <1>3, <2>1, <2>2, <2>3 DEF ExclusiveWorkers
    <2>8. /\ \A i \in DOMAIN idle' : idle'[i] < nextId'
          /\ \A s \in Holders' : worker'[s] < nextId'
        BY <1>2, <1>3, <2>1, <2>2, <2>3 DEF FreshNumbers, TakeIdle
    <2> QED
        BY <2>4, <2>5, <2>6, <2>7, <2>8 DEF ExclusiveWorkers, FreshNumbers
<1>7. waiters = <<>> /\ total = target
    BY DEF TakeIdle, WorkConserving, ShrinkTakesIdleFirst, TypeOK
<1>8. QueueIsPending' /\ Len(waiters') <= QueueLimit
    BY <1>1 DEF TakeIdle, TypeOK, QueueIsPending
<1>9. WorkConserving' /\ ShrinkTakesIdleFirst' /\ AbortedStreamHoldsNoWorker'
    BY <1>7 DEF TakeIdle, TypeOK, WorkConserving, ShrinkTakesIdleFirst,
                AbortedStreamHoldsNoWorker
<1> QED
    BY <1>4, <1>5, <1>6, <1>8, <1>9

\* A call joins the queue.
LEMMA EnqueuePreserves ==
    ASSUME PoolInv, NEW r \in Requests, Enqueue(r)
    PROVE  PoolInv'
<1> USE PoolAssumption DEF PoolInv, Enqueue, Push
<1>1. phase[r] = "out" /\ r \notin Holders
    BY DEF Holders
<1>2. /\ Len(waiters) \in Nat
      /\ DOMAIN waiters = 1..Len(waiters)
      /\ waiters' \in Seq(Requests)
      /\ Len(waiters') = Len(waiters) + 1
      /\ DOMAIN waiters' = 1..(Len(waiters) + 1)
      /\ \A i \in DOMAIN waiters : waiters'[i] = waiters[i]
      /\ waiters'[Len(waiters) + 1] = r
    BY DEF TypeOK
<1>3. Holders' = Holders
    BY <1>1 DEF TypeOK, Holders
<1>4. TypeOK'
    BY <1>2 DEF TypeOK, Phases
<1>5. NoWorkerLost'
    BY <1>3 DEF NoWorkerLost
<1>6. ExclusiveWorkers' /\ FreshNumbers'
    BY <1>3 DEF ExclusiveWorkers, FreshNumbers
<1>7. QueueIsPending'
    <2>1. \A i \in DOMAIN waiters : waiters[i] # r
        BY <1>1 DEF QueueIsPending
    <2>2. \A i \in DOMAIN waiters' : i \in DOMAIN waiters \/ i = Len(waiters) + 1
        BY <1>2
    <2>3. \A i, j \in DOMAIN waiters' : waiters'[i] = waiters'[j] => i = j
        BY <1>2, <2>1, <2>2 DEF QueueIsPending
    <2>4. ASSUME NEW s \in Requests
          PROVE  phase'[s] = "queued" <=> \E i \in DOMAIN waiters' : waiters'[i] = s
        <3>1. CASE s = r
            BY <1>2, <3>1 DEF TypeOK
        <3>2. CASE s # r
            <4>1. phase'[s] = phase[s]
                BY <3>2 DEF TypeOK
            <4>2. (\E i \in DOMAIN waiters' : waiters'[i] = s)
                    <=> \E i \in DOMAIN waiters : waiters[i] = s
                BY <1>2, <2>2, <3>2
            <4> QED
                BY <4>1, <4>2 DEF QueueIsPending
        <3> QED
            BY <3>1, <3>2
    <2> QED
        BY <2>3, <2>4 DEF QueueIsPending
<1>8. Len(waiters') <= QueueLimit
    BY <1>2
<1>9. WorkConserving' /\ ShrinkTakesIdleFirst' /\ AbortedStreamHoldsNoWorker'
    BY DEF TypeOK, WorkConserving, ShrinkTakesIdleFirst, AbortedStreamHoldsNoWorker
<1> QED
    BY <1>4, <1>5, <1>6, <1>7, <1>8, <1>9

\* A waiter times out or its signal fires.
LEMMA RejectPreserves ==
    ASSUME PoolInv, NEW r \in Requests, RemoveAndReject(r)
    PROVE  PoolInv'
<1> USE PoolAssumption DEF PoolInv
<1>1. PICK k \in DOMAIN waiters : waiters[k] = r /\ waiters' = RemoveAt(waiters, k)
    BY DEF RemoveAndReject
<1>2. /\ phase[r] = "queued"
      /\ phase' = [phase EXCEPT ![r] = "out"]
      /\ UNCHANGED <<idle, total, target, nextId, worker, aborted>>
    BY DEF RemoveAndReject
<1>3. waiters \in Seq(Requests) /\ Len(waiters) \in Nat /\ DOMAIN waiters = 1..Len(waiters)
    BY LenProperties DEF TypeOK
<1>4. /\ waiters' \in Seq(Requests)
      /\ Len(waiters') = Len(waiters) - 1
      /\ \A i \in 1..(Len(waiters) - 1) :
            waiters'[i] = IF i < k THEN waiters[i] ELSE waiters[i + 1]
    BY <1>1, <1>3, RemoveAtFacts
<1>5. DOMAIN waiters' = 1..(Len(waiters) - 1)
    BY <1>4, LenProperties
<1>6. Holders' = Holders
    BY <1>2 DEF TypeOK, Holders
<1>7. TypeOK'
    BY <1>2, <1>4 DEF TypeOK, Phases
<1>8. NoWorkerLost'
    BY <1>2, <1>6 DEF NoWorkerLost
<1>9. ExclusiveWorkers' /\ FreshNumbers'
    BY <1>2, <1>6 DEF ExclusiveWorkers, FreshNumbers
<1>10. QueueIsPending'
    <2> DEFINE old(i) == IF i < k THEN i ELSE i + 1
    <2>1. \A i \in DOMAIN waiters' : /\ old(i) \in DOMAIN waiters
                                     /\ old(i) # k
                                     /\ waiters'[i] = waiters[old(i)]
        BY <1>3, <1>4, <1>5
    <2>2. \A i, j \in DOMAIN waiters' : old(i) = old(j) => i = j
        BY <1>3, <1>5
    <2>3. \A j \in DOMAIN waiters : j # k => \E i \in DOMAIN waiters' : old(i) = j
        <3>1. ASSUME NEW j \in DOMAIN waiters, j # k
              PROVE  \E i \in DOMAIN waiters' : old(i) = j
            <4>1. CASE j < k
                BY <1>3, <1>5, <4>1
            <4>2. CASE j > k
                <5>1. j - 1 \in DOMAIN waiters' /\ old(j - 1) = j
                    BY <1>3, <1>5, <4>2
                <5> QED
                    BY <5>1
            <4> QED
                BY <1>3, <3>1, <4>1, <4>2
        <3> QED
            BY <3>1
    <2> HIDE DEF old
    <2>4. \A i, j \in DOMAIN waiters' : waiters'[i] = waiters'[j] => i = j
        BY <2>1, <2>2 DEF QueueIsPending
    <2>5. ASSUME NEW s \in Requests
          PROVE  phase'[s] = "queued" <=> \E i \in DOMAIN waiters' : waiters'[i] = s
        <3>1. CASE s = r
            <4>1. phase'[s] # "queued"
                BY <1>2, <3>1 DEF TypeOK
            <4>2. \A i \in DOMAIN waiters' : waiters'[i] # s
                BY <1>1, <2>1, <3>1 DEF QueueIsPending
            <4> QED
                BY <4>1, <4>2
        <3>2. CASE s # r
            <4>1. phase'[s] = phase[s]
                BY <1>2, <3>2 DEF TypeOK
            <4>2. (\E i \in DOMAIN waiters' : waiters'[i] = s)
                    <=> \E i \in DOMAIN waiters : waiters[i] = s
                BY <1>1, <2>1, <2>3, <3>2
            <4> QED
                BY <4>1, <4>2 DEF QueueIsPending
        <3> QED
            BY <3>1, <3>2
    <2> QED
        BY <2>4, <2>5 DEF QueueIsPending
<1>11. Len(waiters') <= QueueLimit
    BY <1>3, <1>4
<1>12. WorkConserving' /\ ShrinkTakesIdleFirst' /\ AbortedStreamHoldsNoWorker'
    <2>1. waiters # <<>>
        BY <1>1, <1>3
    <2> QED
        BY <1>2, <2>1 DEF TypeOK, WorkConserving, ShrinkTakesIdleFirst,
                          AbortedStreamHoldsNoWorker
<1> QED
    BY <1>7, <1>8, <1>9, <1>10, <1>11, <1>12

\* setWorkerCount() below the number of workers.
LEMMA ShrinkPreserves ==
    ASSUME PoolInv, NEW n \in MinWorkers..MaxWorkers, Shrink(n)
    PROVE  PoolInv'
<1> USE PoolAssumption DEF PoolInv
<1> DEFINE surplus == total - n
           popped  == IF surplus < Len(idle) THEN surplus ELSE Len(idle)
           kept    == Len(idle) - popped
<1>1. idle \in Seq(Nat) /\ Len(idle) \in Nat /\ DOMAIN idle = 1..Len(idle)
    BY LenProperties DEF TypeOK
<1>2. /\ n <= total /\ n \in Nat /\ total \in Nat
      /\ target' = n
      /\ total' = total - popped
      /\ idle' = SubSeq(idle, 1, kept)
      /\ UNCHANGED <<waiters, nextId, phase, worker, aborted>>
    BY DEF Shrink, TypeOK
<1>3. /\ popped \in Nat /\ kept \in 0..Len(idle)
      /\ popped <= surplus
      /\ popped < surplus => kept = 0
      /\ kept = Len(idle) - popped
    BY <1>1, <1>2
<1> HIDE DEF popped, kept
<1>4. /\ idle' \in Seq(Nat)
      /\ Len(idle') = kept
      /\ \A i \in 1..kept : idle'[i] = idle[i]
    BY <1>1, <1>2, <1>3, PrefixFacts
<1>5. DOMAIN idle' = 1..kept /\ DOMAIN idle' \subseteq DOMAIN idle
    <2>1. DOMAIN idle' = 1..kept
        BY <1>4, LenProperties
    <2>2. Len(idle) \in Nat /\ kept \in 0..Len(idle) /\ DOMAIN idle = 1..Len(idle)
        BY <1>1, <1>3
    <2> QED
        BY <2>1, <2>2
<1>6. Holders' = Holders
    BY <1>2 DEF Holders
<1>7. TypeOK'
    BY <1>2, <1>3, <1>4 DEF TypeOK
<1>8. NoWorkerLost'
    <2>1. total = Len(idle) + Cardinality(Holders)
        BY DEF NoWorkerLost
    <2>2. total' = Len(idle') + Cardinality(Holders)
        <3>1. Len(idle) \in Nat /\ popped \in Nat /\ Len(idle') = Len(idle) - popped
            BY <1>1, <1>3, <1>4
        <3>2. total' = total - popped /\ Cardinality(Holders) \in Nat
            BY <1>2, HoldersFinite
        <3> QED
            BY <2>1, <3>1, <3>2
    <2> QED
        BY <1>6, <2>2 DEF NoWorkerLost
<1>9. ExclusiveWorkers' /\ FreshNumbers'
    BY <1>2, <1>4, <1>5, <1>6 DEF ExclusiveWorkers, FreshNumbers
<1>10. QueueIsPending' /\ Len(waiters') <= QueueLimit
    BY <1>2 DEF QueueIsPending
<1>11. ShrinkTakesIdleFirst'
    <2>1. target' <= total'
        BY <1>2, <1>3
    <2>2. ASSUME total' > target' PROVE idle' = <<>>
        <3>1. kept = 0
            BY <1>2, <1>3, <2>2
        <3> QED
            BY <1>4, <3>1, EmptySeq
    <2> QED
        BY <2>1, <2>2 DEF ShrinkTakesIdleFirst
<1>12. WorkConserving' /\ AbortedStreamHoldsNoWorker'
    <2>1. ASSUME waiters' # <<>> PROVE idle' = <<>>
        <3>1. Len(idle) = 0
            BY <1>2, <2>1, EmptySeq DEF WorkConserving
        <3>2. kept = 0
            BY <1>3, <3>1
        <3> QED
            BY <1>4, <3>2, EmptySeq
    <2> QED
        BY <1>2, <2>1 DEF WorkConserving, AbortedStreamHoldsNoWorker
<1> QED
    BY <1>7, <1>8, <1>9, <1>10, <1>11, <1>12

\* setWorkerCount() above the number of workers.
LEMMA GrowPreserves ==
    ASSUME PoolInv, NEW n \in MinWorkers..MaxWorkers, Grow(n)
    PROVE  PoolInv'
<1> USE PoolAssumption DEF PoolInv
<1> DEFINE added  == n - total
           served == IF added < Len(waiters) THEN added ELSE Len(waiters)
           fresh  == added - served
           tail   == [i \in 1..fresh |-> nextId + served + i - 1]
           Served == {waiters[i] : i \in 1..served}
           at(s)  == CHOOSE i \in 1..served : waiters[i] = s
<1>1. /\ waiters \in Seq(Requests) /\ Len(waiters) \in Nat
      /\ DOMAIN waiters = 1..Len(waiters)
      /\ idle \in Seq(Nat) /\ Len(idle) \in Nat /\ DOMAIN idle = 1..Len(idle)
      /\ n \in Nat /\ total \in Nat /\ nextId \in Nat /\ target <= total /\ n > total
    BY LenProperties DEF TypeOK, Grow, ShrinkTakesIdleFirst
<1>2. /\ added \in Nat \ {0} /\ served \in 0..Len(waiters) /\ fresh \in Nat
      /\ served + fresh = added
      /\ served < Len(waiters) => fresh = 0
    BY <1>1
<1>3. /\ total' = n /\ target' = n /\ nextId' = nextId + added
      /\ waiters' = SubSeq(waiters, served + 1, Len(waiters))
      /\ phase' = [s \in Requests |-> IF s \in Served THEN "granted" ELSE phase[s]]
      /\ worker' = [s \in Requests |-> IF s \in Served THEN nextId + at(s) - 1
                                                       ELSE worker[s]]
      /\ idle' = idle \o tail
      /\ UNCHANGED aborted
    BY DEF Grow
<1>4. n = total + added
    BY <1>1
<1> HIDE DEF served, fresh, added
<1>a. /\ Len(waiters) \in Nat /\ Len(idle) \in Nat
      /\ total \in Nat /\ nextId \in Nat
      /\ added \in Nat \ {0} /\ served \in Nat /\ fresh \in Nat
      /\ served <= Len(waiters) /\ served + fresh = added
      /\ served < Len(waiters) => fresh = 0
    BY <1>1, <1>2
<1>5. tail \in Seq(Nat) /\ Len(tail) = fresh
    <2>1. \A i \in 1..fresh : nextId + served + i - 1 \in Nat
        BY <1>1, <1>2
    <2> QED
        BY <1>2, <2>1
<1>6. /\ idle' \in Seq(Nat)
      /\ Len(idle') = Len(idle) + fresh
      /\ \A i \in 1..(Len(idle) + fresh) :
            idle'[i] = IF i <= Len(idle) THEN idle[i] ELSE tail[i - Len(idle)]
    <2> HIDE DEF tail
    <2> QED
        BY <1>1, <1>3, <1>5, ConcatProperties
<1>7. /\ waiters' \in Seq(Requests)
      /\ Len(waiters') = Len(waiters) - served
      /\ \A i \in 1..(Len(waiters) - served) : waiters'[i] = waiters[i + served]
    BY <1>1, <1>2, <1>3, SuffixFacts
<1>8. /\ DOMAIN idle' = 1..(Len(idle) + fresh)
      /\ DOMAIN waiters' = 1..(Len(waiters) - served)
    BY <1>6, <1>7, LenProperties
<1>9. \A s \in Served : /\ s \in Requests
                        /\ phase[s] = "queued"
                        /\ s \notin Holders
                        /\ at(s) \in 1..served
                        /\ waiters[at(s)] = s
    <2>1. ASSUME NEW s \in Served
          PROVE  /\ s \in Requests /\ phase[s] = "queued" /\ s \notin Holders
                 /\ at(s) \in 1..served /\ waiters[at(s)] = s
        <3>1. PICK i \in 1..served : waiters[i] = s
            OBVIOUS
        <3>2. i \in DOMAIN waiters
            BY <1>1, <1>2, <3>1
        <3>3. s \in Requests /\ phase[s] = "queued"
            BY <1>1, <3>1, <3>2 DEF QueueIsPending
        <3>4. s \notin Holders
            BY <3>3 DEF Holders
        <3> QED
            BY <3>1, <3>3, <3>4
    <2> QED
        BY <2>1
<1>10. Cardinality(Served) = served /\ IsFiniteSet(Served)
    <2>1. Cardinality(Served) = served
        BY <1>1, <1>2, FirstOfQueue DEF QueueIsPending
    <2>2. Served \in SUBSET Requests
        BY <1>9
    <2> QED
        BY <2>1, <2>2, FS_Subset
<1>b. \A i \in DOMAIN waiters' : /\ i + served \in DOMAIN waiters
                                 /\ waiters[i + served] = waiters'[i]
    <2>1. ASSUME NEW i \in DOMAIN waiters'
          PROVE  i + served \in DOMAIN waiters /\ waiters[i + served] = waiters'[i]
        <3>1. i \in 1..(Len(waiters) - served)
            BY <1>8
        <3>2. i + served \in 1..Len(waiters)
            BY <1>a, <3>1
        <3> QED
            BY <1>1, <1>7, <3>1, <3>2
    <2> QED
        BY <2>1
<1>c. \A j \in DOMAIN waiters : j \notin 1..served =>
          j - served \in DOMAIN waiters' /\ waiters'[j - served] = waiters[j]
    <2>1. ASSUME NEW j \in DOMAIN waiters, j \notin 1..served
          PROVE  j - served \in DOMAIN waiters' /\ waiters'[j - served] = waiters[j]
        <3>1. j \in 1..Len(waiters)
            BY <1>1
        <3>2. /\ j - served \in 1..(Len(waiters) - served)
              /\ (j - served) + served = j
            BY <1>a, <2>1, <3>1
        <3> QED
            BY <1>7, <1>8, <3>2
    <2> QED
        BY <2>1
<1> HIDE DEF Served, at
<1>11. Holders' = Holders \cup Served
    <2>1. ASSUME NEW s \in Requests
          PROVE  s \in Holders' <=> s \in Holders \cup Served
        BY <1>3, <2>1 DEF Holders
    <2>2. Holders' \subseteq Requests /\ Holders \subseteq Requests /\ Served \subseteq Requests
        BY <1>9 DEF Holders
    <2> QED
        BY <2>1, <2>2
<1>12. \A s \in Served : /\ nextId + at(s) - 1 \in Nat
                         /\ nextId <= nextId + at(s) - 1
                         /\ nextId + at(s) - 1 < nextId + served
    BY <1>1, <1>2, <1>9
<1>13. TypeOK'
    <2>1. worker' \in [Requests -> Nat \cup {NoWorker}]
        BY <1>3, <1>12 DEF TypeOK
    <2>2. phase' \in [Requests -> Phases]
        BY <1>3 DEF TypeOK, Phases
    <2> QED
        <3>1. total' \in Nat /\ target' \in MinWorkers..MaxWorkers /\ nextId' \in Nat
            BY <1>1, <1>a, <1>3
        <3>2. idle' \in Seq(Nat) /\ waiters' \in Seq(Requests)
            BY <1>6, <1>7
        <3>3. aborted' \in SUBSET Requests
            BY <1>3 DEF TypeOK
        <3> QED
            BY <2>1, <2>2, <3>1, <3>2, <3>3 DEF TypeOK
<1>14. NoWorkerLost'
    <2>1. Cardinality(Holders \cup Served) = Cardinality(Holders) + served
        <3>1. Holders \cap Served = {}
            BY <1>9
        <3>2. Cardinality(Holders \cap Served) = 0
            BY <3>1, FS_EmptySet
        <3> QED
            <4>1. Cardinality(Holders \cup Served)
                    = Cardinality(Holders) + Cardinality(Served) - 0
                BY <1>10, <3>2, HoldersFinite, FS_Union
            <4> QED
                BY <1>a, <1>10, <4>1, HoldersFinite
    <2>2. total = Len(idle) + Cardinality(Holders)
        BY DEF NoWorkerLost
    <2>3. total' = Len(idle') + Cardinality(Holders \cup Served)
        <3>1. total' = total + added /\ Len(idle') = Len(idle) + fresh
            BY <1>3, <1>4, <1>6
        <3> QED
            BY <1>a, <2>1, <2>2, <3>1, HoldersFinite
    <2> QED
        BY <1>11, <2>3 DEF NoWorkerLost
<1>15. ExclusiveWorkers' /\ FreshNumbers'
    <2>1. \A s \in Requests :
             worker'[s] = IF s \in Served THEN nextId + at(s) - 1 ELSE worker[s]
        BY <1>3
    <2>2. \A s \in Holders : /\ s \in Requests /\ s \notin Served
                             /\ worker[s] \in Nat /\ worker[s] < nextId
        BY <1>9 DEF Holders, ExclusiveWorkers, FreshNumbers, TypeOK
    <2>3. ASSUME NEW s \in Holders', NEW t \in Holders', worker'[s] = worker'[t]
          PROVE  s = t
        <3>1. CASE s \in Served /\ t \in Served
            <4>1. at(s) = at(t)
                BY <1>1, <1>2, <1>9, <2>1, <2>3, <3>1
            <4> QED
                BY <1>9, <3>1, <4>1
        <3>2. CASE s \in Served /\ t \notin Served
            <4>1. t \in Holders /\ worker'[t] < nextId /\ worker'[s] >= nextId
                BY <1>1, <1>9, <1>11, <1>12, <2>1, <2>2, <3>2
            <4> QED
                BY <1>1, <1>9, <1>12, <2>1, <2>2, <2>3, <3>2, <4>1
        <3>3. CASE s \notin Served /\ t \in Served
            <4>1. s \in Holders /\ worker'[s] < nextId /\ worker'[t] >= nextId
                BY <1>1, <1>9, <1>11, <1>12, <2>1, <2>2, <3>3
            <4> QED
                BY <1>1, <1>9, <1>12, <2>1, <2>2, <2>3, <3>3, <4>1
        <3>4. CASE s \notin Served /\ t \notin Served
            <4>1. s \in Holders /\ t \in Holders /\ worker[s] = worker[t]
                BY <1>11, <2>1, <2>2, <2>3, <3>4
            <4> QED
                BY <4>1 DEF ExclusiveWorkers
        <3> QED
            BY <3>1, <3>2, <3>3, <3>4
    <2>4. \A s \in Requests : s \in Holders' <=> worker'[s] # NoWorker
        BY <1>11, <1>12, <2>1 DEF ExclusiveWorkers
    <2>5. ASSUME NEW i \in DOMAIN idle'
          PROVE  \/ i \in DOMAIN idle /\ idle'[i] = idle[i] /\ idle[i] < nextId
                 \/ /\ i \in (Len(idle) + 1)..(Len(idle) + fresh)
                    /\ idle'[i] = nextId + served + (i - Len(idle)) - 1
                    /\ idle'[i] >= nextId + served /\ idle'[i] < nextId + added
        <3>1. CASE i <= Len(idle)
            <4>1. i \in 1..(Len(idle) + fresh)
                BY <1>8
            <4>2. i \in DOMAIN idle
                BY <1>a, <1>1, <3>1, <4>1
            <4>3. idle'[i] = idle[i]
                BY <1>6, <3>1, <4>1
            <4> QED
                BY <4>2, <4>3 DEF FreshNumbers
        <3>2. CASE ~(i <= Len(idle))
            <4>1. i \in 1..(Len(idle) + fresh)
                BY <1>8
            <4>2. i \in (Len(idle) + 1)..(Len(idle) + fresh) /\ i - Len(idle) \in 1..fresh
                BY <1>a, <3>2, <4>1
            <4>3. idle'[i] = nextId + served + (i - Len(idle)) - 1
                BY <1>6, <3>2, <4>1, <4>2
            <4> QED
                BY <1>a, <4>2, <4>3
        <3> QED
            BY <3>1, <3>2
    <2>6. ASSUME NEW i \in DOMAIN idle', NEW j \in DOMAIN idle', idle'[i] = idle'[j]
          PROVE  i = j
        <3>1. idle[i] \in Nat \/ i \notin DOMAIN idle
            BY <1>1
        <3>2. idle[j] \in Nat \/ j \notin DOMAIN idle
            BY <1>1
        <3>3. CASE i \in DOMAIN idle /\ j \in DOMAIN idle
            <4>1. idle'[i] = idle[i] /\ idle'[j] = idle[j]
                BY <1>1, <2>5, <3>3
            <4> QED
                BY <2>6, <3>3, <4>1 DEF ExclusiveWorkers
        <3>4. CASE ~(i \in DOMAIN idle /\ j \in DOMAIN idle)
            BY <1>1, <1>2, <2>5, <2>6, <3>1, <3>2, <3>4
        <3> QED
            BY <3>3, <3>4
    <2>7. ASSUME NEW s \in Holders', NEW i \in DOMAIN idle'
          PROVE  worker'[s] # idle'[i]
        <3>1. CASE s \in Served
            BY <1>1, <1>2, <1>9, <1>12, <2>1, <2>5, <3>1
        <3>2. CASE s \notin Served
            <4>1. s \in Holders /\ worker'[s] = worker[s] /\ worker[s] \in Nat /\ worker[s] < nextId
                BY <1>11, <2>1, <2>2, <3>2
            <4>2. CASE i \in DOMAIN idle
                <5>1. idle'[i] = idle[i]
                    BY <1>1, <2>5, <4>2
                <5> QED
                    BY <4>1, <4>2, <5>1 DEF ExclusiveWorkers
            <4>3. CASE i \notin DOMAIN idle
                BY <1>1, <1>2, <2>5, <4>1, <4>3
            <4> QED
                BY <4>2, <4>3
        <3> QED
            BY <3>1, <3>2
    <2>8. ASSUME NEW i \in DOMAIN idle'
          PROVE  idle'[i] < nextId'
        <3> QED
            <4>1. nextId' = nextId + added
                BY <1>3
            <4>2. CASE i \in DOMAIN idle /\ idle'[i] = idle[i] /\ idle[i] < nextId
                <5>1. idle[i] \in Nat
                    BY <1>1, <4>2
                <5> QED
                    BY <1>a, <4>1, <4>2, <5>1
            <4>3. CASE idle'[i] < nextId + added
                BY <4>1, <4>3
            <4> QED
                BY <2>5, <4>2, <4>3
    <2>9. ASSUME NEW s \in Holders'
          PROVE  worker'[s] < nextId'
        <3>1. CASE s \in Served
            BY <1>1, <1>2, <1>3, <1>9, <1>12, <2>1, <3>1
        <3>2. CASE s \notin Served
            BY <1>1, <1>2, <1>3, <1>11, <2>1, <2>2, <3>2
        <3> QED
            BY <3>1, <3>2
    <2> QED
        BY <2>3, <2>4, <2>6, <2>7, <2>8, <2>9 DEF ExclusiveWorkers, FreshNumbers
<1>16. QueueIsPending'
    <2>1. \A i, j \in DOMAIN waiters' : waiters'[i] = waiters'[j] => i = j
        <3>1. ASSUME NEW i \in DOMAIN waiters', NEW j \in DOMAIN waiters',
                     waiters'[i] = waiters'[j]
              PROVE  i = j
            <4>1. /\ i + served \in DOMAIN waiters /\ j + served \in DOMAIN waiters
                  /\ waiters[i + served] = waiters[j + served]
                BY <1>b, <3>1
            <4>2. i + served = j + served
                BY <4>1 DEF QueueIsPending
            <4> QED
                BY <1>1, <1>2, <1>8, <4>2
        <3> QED
            BY <3>1
    <2>2. ASSUME NEW s \in Requests
          PROVE  phase'[s] = "queued" <=> \E i \in DOMAIN waiters' : waiters'[i] = s
        <3>1. CASE s \in Served
            <4>1. phase'[s] # "queued"
                BY <1>3, <3>1
            <4>2. ASSUME NEW i \in DOMAIN waiters', waiters'[i] = s
                  PROVE  FALSE
                <5>1. i + served \in DOMAIN waiters /\ waiters[i + served] = s
                    BY <1>b, <4>2
                <5>2. at(s) \in DOMAIN waiters /\ waiters[at(s)] = s /\ at(s) <= served
                    BY <1>1, <1>2, <1>9, <3>1
                <5>3. at(s) = i + served
                    BY <5>1, <5>2 DEF QueueIsPending
                <5> QED
                    BY <1>1, <1>2, <1>8, <5>2, <5>3
            <4> QED
                BY <4>1, <4>2
        <3>2. CASE s \notin Served
            <4>1. phase'[s] = phase[s]
                BY <1>3, <3>2
            <4>2. ASSUME NEW i \in DOMAIN waiters, waiters[i] = s
                  PROVE  \E j \in DOMAIN waiters' : waiters'[j] = s
                <5>1. i \notin 1..served
                    BY <3>2, <4>2 DEF Served
                <5>2. i - served \in DOMAIN waiters' /\ waiters'[i - served] = s
                    BY <1>c, <4>2, <5>1
                <5> QED
                    BY <5>2
            <4>3. ASSUME NEW i \in DOMAIN waiters', waiters'[i] = s
                  PROVE  \E j \in DOMAIN waiters : waiters[j] = s
                <5>1. i + served \in DOMAIN waiters /\ waiters[i + served] = s
                    BY <1>b, <4>3
                <5> QED
                    BY <5>1
            <4> QED
                BY <4>1, <4>2, <4>3 DEF QueueIsPending
        <3> QED
            BY <3>1, <3>2
    <2> QED
        BY <2>1, <2>2 DEF QueueIsPending
<1>17. Len(waiters') <= QueueLimit
    BY <1>1, <1>2, <1>7
<1>18. WorkConserving'
    <2>1. ASSUME waiters' # <<>> PROVE idle' = <<>>
        <3>1. Len(waiters') # 0
            BY <1>7, <2>1, EmptySeq
        <3>2. served < Len(waiters)
            BY <1>a, <1>7, <3>1
        <3>3. fresh = 0
            BY <1>2, <3>2
        <3>4. waiters # <<>>
            BY <1>1, <1>2, <3>2, EmptySeq
        <3>5. Len(idle) = 0
            BY <3>4, EmptySeq DEF WorkConserving
        <3> QED
            BY <1>6, <3>3, <3>5, EmptySeq
    <2> QED
        BY <2>1 DEF WorkConserving
<1>19. ShrinkTakesIdleFirst' /\ AbortedStreamHoldsNoWorker'
    <2>1. ShrinkTakesIdleFirst'
        BY <1>1, <1>3 DEF ShrinkTakesIdleFirst
    <2>2. AbortedStreamHoldsNoWorker'
        BY <1>3 DEF AbortedStreamHoldsNoWorker
    <2> QED
        BY <2>1, <2>2
<1> QED
    BY <1>13, <1>14, <1>15, <1>16, <1>17, <1>18, <1>19

-----------------------------------------------------------------------------
(* The theorems *)

LEMMA NextPoolInv == PoolInv /\ [Next]_vars => PoolInv'
<1> SUFFICES ASSUME PoolInv, [Next]_vars PROVE PoolInv'
    OBVIOUS
<1>1. ASSUME NEW r \in Requests, Acquire(r) PROVE PoolInv'
    BY <1>1, TakeIdlePreserves, EnqueuePreserves DEF Acquire
<1>2. ASSUME NEW r \in Requests, QueueTimeout(r) PROVE PoolInv'
    BY <1>2, RejectPreserves DEF QueueTimeout
<1>3. ASSUME NEW r \in Requests, Resume(r) PROVE PoolInv'
    <2>1. r \in Holders
        BY <1>3 DEF Resume, Holders
    <2>2. CASE Release(r)
        BY <2>1, <2>2, ReleasePreserves
    <2>3. CASE ~Release(r)
        BY <1>3, <2>1, <2>3, AdvancePreserves DEF Resume
    <2> QED
        BY <2>2, <2>3
<1>4. ASSUME NEW r \in Requests, TaskEnds(r) PROVE PoolInv'
    BY <1>4, ReleasePreserves DEF TaskEnds, Holders
<1>5. ASSUME NEW r \in Requests, HoldForStream(r) PROVE PoolInv'
    <2>1. r \in Holders
        BY <1>5 DEF HoldForStream, Holders
    <2>2. CASE Release(r)
        BY <2>1, <2>2, ReleasePreserves
    <2>3. CASE ~Release(r)
        BY <1>5, <2>1, <2>3, AdvancePreserves DEF HoldForStream
    <2> QED
        BY <2>2, <2>3
<1>6. ASSUME NEW r \in Requests, StreamEnds(r) PROVE PoolInv'
    BY <1>6, ReleasePreserves DEF StreamEnds, Holders
<1>7. ASSUME NEW r \in Requests, Abort(r) PROVE PoolInv'
    <2>1. CASE RemoveAndReject(r)
        BY <2>1, RejectPreserves
    <2>2. CASE phase[r] = "streaming" /\ Release(r)
        BY <2>2, ReleasePreserves DEF Holders
    <2>3. CASE /\ phase[r] \in {"granted", "task"}
               /\ aborted' = aborted \cup {r}
               /\ UNCHANGED <<idle, waiters, total, target, nextId, phase, worker>>
        BY <2>3, AdvancePreserves DEF Holders
    <2> QED
        BY <1>7, <2>1, <2>2, <2>3 DEF Abort
<1>8. ASSUME NEW n \in MinWorkers..MaxWorkers, SetWorkerCount(n) PROVE PoolInv'
    BY <1>8, GrowPreserves, ShrinkPreserves DEF SetWorkerCount
<1>9. CASE UNCHANGED vars
    BY <1>9 DEF vars, PoolInv, TypeOK, QueueIsPending, NoWorkerLost, ExclusiveWorkers,
                FreshNumbers, WorkConserving, ShrinkTakesIdleFirst,
                AbortedStreamHoldsNoWorker, Holders
<1> QED
    BY <1>1, <1>2, <1>3, <1>4, <1>5, <1>6, <1>7, <1>8, <1>9 DEF Next

\* Every reachable state of the pool satisfies the inductive invariant.
THEOREM PoolInvariant == Spec => []PoolInv
<1>1. PoolInv /\ [Next]_vars => PoolInv'
    BY NextPoolInv
<1> QED
    BY InitPoolInv, <1>1, PTL DEF Spec

\* The state variables keep their types.
THEOREM PoolTypeCorrect == Spec => []TypeOK
<1>1. PoolInv => TypeOK
    BY DEF PoolInv
<1> QED
    BY PoolInvariant, <1>1, PTL

\* No interleaving of calls, timeouts, aborts, stream ends and resizes loses
\* or duplicates a worker: the counter always equals idle plus held.
THEOREM PoolConservation == Spec => []NoWorkerLost
<1>1. PoolInv => NoWorkerLost
    BY DEF PoolInv
<1> QED
    BY PoolInvariant, <1>1, PTL

\* No two requests ever hold the same worker, and no held worker is idle.
THEOREM PoolExclusion == Spec => []ExclusiveWorkers
<1>1. PoolInv => ExclusiveWorkers
    BY DEF PoolInv
<1> QED
    BY PoolInvariant, <1>1, PTL

\* No request ever waits while a worker is idle.
THEOREM PoolWorkConserving == Spec => []WorkConserving
<1>1. PoolInv => WorkConserving
    BY DEF PoolInv
<1> QED
    BY PoolInvariant, <1>1, PTL

\* Release always finds a waiter whose promise is still pending.
THEOREM PoolQueueIsPending == Spec => []QueueIsPending
<1>1. PoolInv => QueueIsPending
    BY DEF PoolInv
<1> QED
    BY PoolInvariant, <1>1, PTL

-----------------------------------------------------------------------------
(* The pool implements AdmissionControl: what each step does to the target, *)
(* the set of holders and the queue.                                        *)

\* The library operators of the abstract specification are the pool's.
LEMMA SameOperators ==
    /\ \A S : Admission!Cardinality(S) = Cardinality(S)
    /\ \A s : Admission!Range(s) = Range(s)
    /\ \A s, i : Admission!RemoveAt(s, i) = RemoveAt(s, i)
<1>1. \A S : Admission!Cardinality(S) = Cardinality(S)
    BY DEF Cardinality, Admission!Cardinality
<1>2. \A s : Admission!Range(s) = Range(s)
    BY DEF Range, Admission!Range
<1>3. \A s, i : Admission!RemoveAt(s, i) = RemoveAt(s, i)
    BY DEF RemoveAt, Admission!RemoveAt
<1> QED
    BY <1>1, <1>2, <1>3

\* The abstract line is the set of callers whose promise is pending.
LEMMA WaitingIsQueued ==
    ASSUME PoolInv
    PROVE  Admission!Waiting = {s \in Requests : phase[s] = "queued"}
<1>1. \A i \in DOMAIN waiters : waiters[i] \in Requests
    BY ElementOfSeq, LenProperties DEF PoolInv, TypeOK
<1>2. Admission!Waiting = {waiters[i] : i \in DOMAIN waiters}
    BY SameOperators DEF Admission!Waiting, Range
<1> QED
    BY <1>1, <1>2 DEF PoolInv, QueueIsPending

\* The counters and the number of holders.
Room ==
    /\ Len(idle) \in Nat /\ Cardinality(Holders) \in Nat
    /\ total \in Nat /\ target \in Nat
    /\ total = Len(idle) + Cardinality(Holders)
    /\ target <= total
    /\ idle = <<>> <=> Len(idle) = 0
    /\ waiters # <<>> \/ total > target => idle = <<>>

LEMMA RoomFacts == PoolInv => Room
<1> SUFFICES ASSUME PoolInv PROVE Room
    OBVIOUS
<1>1. Len(idle) \in Nat /\ (idle = <<>> <=> Len(idle) = 0)
    BY LenProperties, EmptySeq DEF PoolInv, TypeOK
<1> QED
    BY <1>1, HoldersFinite, PoolAssumption
    DEF Room, PoolInv, TypeOK, NoWorkerLost, WorkConserving, ShrinkTakesIdleFirst

\* A release finishes one request, and the first of the line gets its room
\* unless the pool is over its target.
LEMMA ReleaseFinishes ==
    ASSUME PoolInv, NEW r \in Holders, Release(r)
    PROVE  Admission!Finish(r)
<1>1. r \in Requests /\ target' = target
    BY DEF Holders, Release
<1>2. /\ Len(idle) \in Nat /\ Cardinality(Holders) \in Nat
      /\ total \in Nat /\ target \in Nat
      /\ total = Len(idle) + Cardinality(Holders)
      /\ target <= total
      /\ idle = <<>> <=> Len(idle) = 0
      /\ total > target => idle = <<>>
    BY RoomFacts DEF Room
<1>3. phase \in [Requests -> Phases]
    BY DEF PoolInv, TypeOK
<1>4. CASE Retire(r)
    <2>1. Holders' = Holders \ {r} /\ waiters' = waiters
        BY <1>1, <1>3, <1>4 DEF Retire, Holders
    <2>2. Cardinality(Holders) > target
        BY <1>2, <1>4 DEF Retire
    <2> QED
        BY <1>1, <2>1, <2>2, SameOperators DEF Admission!Finish
<1>5. CASE HandOver(r)
    <2>1. waiters # <<>> /\ Head(waiters) \in Requests /\ phase[Head(waiters)] = "queued"
        <3>1. waiters \in Seq(Requests) /\ waiters # <<>>
            BY <1>5 DEF HandOver, PoolInv, TypeOK
        <3>2. Head(waiters) = waiters[1] /\ 1 \in DOMAIN waiters
            BY <3>1, EmptySeq, LenProperties, HeadTailProperties
        <3>3. Head(waiters) \in Requests
            BY <3>1, HeadTailProperties
        <3> QED
            BY <3>1, <3>2, <3>3 DEF PoolInv, QueueIsPending
    <2>2. Holders' = (Holders \ {r}) \cup {Head(waiters)} /\ waiters' = Tail(waiters)
        BY <1>1, <1>3, <1>5, <2>1 DEF HandOver, Pass, Holders
    <2>3. Cardinality(Holders) <= target
        BY <1>2, <1>5 DEF HandOver
    <2> QED
        BY <1>1, <2>1, <2>2, <2>3, SameOperators DEF Admission!Finish
<1>6. CASE Park(r)
    <2>1. Holders' = Holders \ {r} /\ waiters' = waiters /\ waiters = <<>>
        BY <1>1, <1>3, <1>6 DEF Park, Holders
    <2> QED
        BY <1>1, <2>1 DEF Admission!Finish
<1> QED
    BY <1>4, <1>5, <1>6 DEF Release

\* A call that finds an idle worker is admitted: there is room.
LEMMA TakeIdleAdmits ==
    ASSUME PoolInv, NEW r \in Requests, TakeIdle(r)
    PROVE  Admission!Admit(r)
<1>1. r \notin Holders \cup Admission!Waiting
    BY WaitingIsQueued DEF TakeIdle, Holders
<1>2. Cardinality(Holders) < target
    BY RoomFacts DEF Room, TakeIdle
<1>3. Holders' = Holders \cup {r} /\ UNCHANGED <<target, waiters>>
    BY DEF TakeIdle, Holders, PoolInv, TypeOK
<1> QED
    BY <1>1, <1>2, <1>3, SameOperators DEF Admission!Admit, Admission!HasRoom

\* A call that finds none waits: there is no room.
LEMMA EnqueueWaits ==
    ASSUME PoolInv, NEW r \in Requests, Enqueue(r)
    PROVE  Admission!Wait(r)
<1>1. r \notin Holders \cup Admission!Waiting
    BY WaitingIsQueued DEF Enqueue, Holders
<1>2. ~(Cardinality(Holders) < target)
    BY RoomFacts DEF Room, Enqueue
<1>3. /\ Len(waiters) < QueueLimit /\ waiters' = Append(waiters, r)
      /\ Holders' = Holders /\ target' = target
    BY DEF Enqueue, Push, Holders, PoolInv, TypeOK
<1> QED
    BY <1>1, <1>2, <1>3, SameOperators DEF Admission!Wait, Admission!HasRoom

\* A waiter whose promise rejects gives up its place.
LEMMA RejectGivesUp ==
    ASSUME PoolInv, NEW r \in Requests, RemoveAndReject(r)
    PROVE  Admission!GiveUp(r)
<1>1. Holders' = Holders /\ target' = target
    BY DEF RemoveAndReject, Holders, PoolInv, TypeOK
<1> QED
    BY <1>1, SameOperators DEF RemoveAndReject, Admission!GiveUp

\* New workers admit the front of the line.
LEMMA GrowResizes ==
    ASSUME PoolInv, NEW n \in MinWorkers..MaxWorkers, Grow(n)
    PROVE  Admission!Resize(n)
<1> DEFINE added  == n - total
           served == IF added < Len(waiters) THEN added ELSE Len(waiters)
           Served == {waiters[i] : i \in 1..served}
<1>1. /\ Len(waiters) \in Nat /\ waiters \in Seq(Requests)
      /\ total \in Nat /\ n \in Nat /\ n > total
    BY PoolAssumption, LenProperties DEF PoolInv, TypeOK, Grow
<1>2. served \in 0..Len(waiters)
    BY <1>1
<1>3. /\ target' = n /\ total' = n
      /\ waiters' = SubSeq(waiters, served + 1, Len(waiters))
      /\ phase' = [s \in Requests |-> IF s \in Served THEN "granted" ELSE phase[s]]
    BY DEF Grow
<1> HIDE DEF added, served
<1>4. Served \subseteq Requests
    <2>1. \A i \in 1..served : i \in 1..Len(waiters)
        BY <1>1, <1>2
    <2> QED
        BY <1>1, <2>1, ElementOfSeq
<1>5. Holders' = Holders \cup Served
    <2>1. \A s \in Requests : s \in Served => s \in Holders'
        BY <1>3 DEF Holders
    <2>2. \A s \in Requests : s \notin Served => (s \in Holders' <=> s \in Holders)
        BY <1>3 DEF Holders
    <2>3. \A s \in Served : phase[s] = "queued"
        <3>1. DOMAIN waiters = 1..Len(waiters) /\ 1..served \subseteq 1..Len(waiters)
            BY <1>1, <1>2, LenProperties
        <3> QED
            BY <1>4, <3>1 DEF PoolInv, QueueIsPending
    <2> QED
        BY <1>4, <2>1, <2>2, <2>3 DEF Holders
<1>6. PoolInv' /\ Room'
    <2>1. PoolInv'
        BY GrowPreserves
    <2> QED
        BY <2>1, RoomFacts, PTL
<1>7. /\ Len(idle') \in Nat /\ Cardinality(Holders') \in Nat
      /\ n = Len(idle') + Cardinality(Holders')
      /\ waiters' # <<>> => Len(idle') = 0
    BY <1>3, <1>6 DEF Room
<1>8. Cardinality(Holders') <= n /\ (waiters' # <<>> => Cardinality(Holders') >= n)
    BY <1>1, <1>7
<1> QED
    BY <1>2, <1>3, <1>5, <1>8, SameOperators DEF Admission!Resize

\* Idle workers leave; whoever is admitted stays admitted.
LEMMA ShrinkResizes ==
    ASSUME PoolInv, NEW n \in MinWorkers..MaxWorkers, Shrink(n)
    PROVE  Admission!Resize(n)
<1>1. Len(waiters) \in Nat /\ waiters \in Seq(Requests)
    BY LenProperties DEF PoolInv, TypeOK
<1>2. target' = n /\ waiters' = waiters /\ Holders' = Holders /\ n \in Nat
    BY PoolAssumption DEF Shrink, Holders
<1>3. PoolInv' /\ Room'
    <2>1. PoolInv'
        BY ShrinkPreserves
    <2> QED
        BY <2>1, RoomFacts, PTL
<1>4. /\ Len(idle') \in Nat /\ Cardinality(Holders') \in Nat /\ total' \in Nat
      /\ total' = Len(idle') + Cardinality(Holders')
      /\ target' <= total'
      /\ waiters' # <<>> => Len(idle') = 0
    BY <1>3 DEF Room
<1>5. waiters' # <<>> => Cardinality(Holders') >= n
    BY <1>2, <1>4
<1>6. SubSeq(waiters, 0 + 1, Len(waiters)) = waiters
    BY <1>1
<1>7. {waiters[i] : i \in 1..0} = {} /\ 0 \in 0..Len(waiters)
    BY <1>1
<1> QED
    BY <1>2, <1>5, <1>6, <1>7, SameOperators DEF Admission!Resize

LEMMA InitAdmission == Init => Admission!AInit
BY PoolAssumption DEF Init, Holders, Admission!AInit

\* Every step of the pool is a step of the abstract admission control, or
\* changes nothing it sees.
LEMMA NextAdmission == PoolInv /\ [Next]_vars => [Admission!ANext]_(Admission!avars)
<1> SUFFICES ASSUME PoolInv, [Next]_vars
             PROVE  Admission!ANext \/ UNCHANGED Admission!avars
    OBVIOUS
<1>1. ASSUME NEW r \in Requests, Acquire(r) PROVE Admission!ANext
    BY <1>1, TakeIdleAdmits, EnqueueWaits DEF Acquire, Admission!ANext
<1>2. ASSUME NEW r \in Requests, RemoveAndReject(r) PROVE Admission!ANext
    BY <1>2, RejectGivesUp DEF Admission!ANext
<1>3. ASSUME NEW r \in Holders, Release(r) PROVE Admission!ANext
    BY <1>3, ReleaseFinishes DEF Admission!ANext, Holders
<1>4. ASSUME NEW r \in Holders, NEW p \in {"task", "streaming"},
             phase' = [phase EXCEPT ![r] = p], UNCHANGED <<waiters, target>>
      PROVE  UNCHANGED Admission!avars
    BY <1>4 DEF Holders, PoolInv, TypeOK, Admission!avars
<1>5. ASSUME NEW r \in Requests, Resume(r) \/ TaskEnds(r) \/ HoldForStream(r) \/ StreamEnds(r)
      PROVE  Admission!ANext \/ UNCHANGED Admission!avars
    <2>1. r \in Holders
        BY <1>5 DEF Resume, TaskEnds, HoldForStream, StreamEnds, Holders
    <2> QED
        BY <1>3, <1>4, <1>5, <2>1 DEF Resume, TaskEnds, HoldForStream, StreamEnds
<1>6. ASSUME NEW r \in Requests, Abort(r)
      PROVE  Admission!ANext \/ UNCHANGED Admission!avars
    <2>1. CASE phase[r] = "streaming" /\ Release(r)
        BY <1>3, <2>1 DEF Holders
    <2>2. CASE UNCHANGED <<phase, waiters, target>>
        BY <2>2 DEF Holders, Admission!avars
    <2> QED
        BY <1>2, <1>6, <2>1, <2>2 DEF Abort
<1>7. ASSUME NEW n \in MinWorkers..MaxWorkers, SetWorkerCount(n) PROVE Admission!ANext
    BY <1>7, GrowResizes, ShrinkResizes DEF SetWorkerCount, Admission!ANext
<1>8. CASE UNCHANGED vars
    BY <1>8 DEF vars, Holders, Admission!avars
<1> QED
    BY <1>1, <1>2, <1>5, <1>6, <1>7, <1>8 DEF Next, QueueTimeout

\* The pool, with its worker numbers, stack and counters, implements the
\* abstract admission control: room is given in order of arrival, never
\* beyond the target, and never withheld while somebody waits.
THEOREM PoolImplementsAdmission == Spec => ImplementsAdmission
<1>1. Spec => []PoolInv
    BY PoolInvariant
<1> QED
    BY <1>1, InitAdmission, NextAdmission, PTL
    DEF Spec, ImplementsAdmission, Admission!ASpec

-----------------------------------------------------------------------------
(* AdaptiveWorkers: whatever the bounds of the pool, the controller keeps   *)
(* the number of workers between them, leaves no request waiting beside a  *)
(* worker, and never cuts an idle pool below what is busy.                 *)

\* No request waits while the number of busy workers is below the target.
NobodyWaitsInVain == waiting > 0 => active >= count

-----------------------------------------------------------------------------
(* The arithmetic of the controller.                                       *)

\* Three quarters of the workers are no more than the workers.
LEMMA PressureBound ==
  ASSUME AdaptiveConfig, NEW w \in MinCount..MaxCount
  PROVE  UnderPressure(w) \in MinCount..MaxCount
  BY DEF AdaptiveConfig, UnderPressure, Larger

\* An increase for demand stops at the upper bound and lowers nothing.
LEMMA DemandBound ==
  ASSUME AdaptiveConfig, NEW w \in MinCount..MaxCount, NEW a \in Nat, NEW n \in Nat
  PROVE  ForDemand(w, a, n) \in MinCount..MaxCount
  <1> DEFINE half == DivUp(3 * w, 2)
             twice == Smaller(a + n, 2 * w)
  <1>1. half \in Int /\ twice \in Int
    BY DEF AdaptiveConfig, DivUp, Smaller
  <1>2. ForDemand(w, a, n) = Smaller(MaxCount, Larger(Larger(w + 16, half), twice))
    BY DEF ForDemand
  <1> HIDE DEF half, twice
  <1> QED BY <1>1, <1>2 DEF AdaptiveConfig, Smaller, Larger

\* A reduction for idleness leaves four fifths, and more than are busy.
LEMMA IdlenessBound ==
  ASSUME AdaptiveConfig, NEW w \in MinCount..MaxCount, NEW a \in Nat, 20 * a < 7 * w
  PROVE  /\ AfterIdleness(w, a) \in MinCount..MaxCount
         /\ a < AfterIdleness(w, a)
  <1> DEFINE busy == DivUp(5 * a, 4)
             kept == DivUp(4 * w, 5)
  <1>1. busy \in Int /\ 4 * busy <= 5 * a + 3
    BY DEF DivUp
  <1>2. kept \in Int /\ 5 * kept <= 4 * w + 4 /\ 5 * kept >= 4 * w
    BY DEF AdaptiveConfig, DivUp
  <1>3. AfterIdleness(w, a) = Larger(MinCount, Larger(busy, kept))
    BY DEF AfterIdleness
  <1> HIDE DEF busy, kept
  <1>4. busy <= w /\ kept <= w /\ a < kept
    BY <1>1, <1>2 DEF AdaptiveConfig
  <1> QED BY <1>1, <1>2, <1>3, <1>4 DEF AdaptiveConfig, Larger

\* Whatever the readings say, the next number is within the bounds.
LEMMA NextCountBound ==
  ASSUME AdaptiveConfig, NEW w \in MinCount..MaxCount, NEW a \in Nat, NEW n \in Nat,
         NEW l \in Loads, NEW q \in Nat
  PROVE  NextCount(w, a, n, l, q) \in MinCount..MaxCount
  <1>1. UnderPressure(w) \in MinCount..MaxCount
    BY PressureBound
  <1>2. ForDemand(w, a, n) \in MinCount..MaxCount
    BY DemandBound
  <1>3. 20 * a < 7 * w => AfterIdleness(w, a) \in MinCount..MaxCount
    BY IdlenessBound
  <1> QED BY <1>1, <1>2, <1>3 DEF NextCount

-----------------------------------------------------------------------------

LEMMA InitAdaptive == AdaptiveConfig /\ AdaptiveInit => AdaptiveTypeOK /\ NobodyWaitsInVain
  BY DEF AdaptiveConfig, AdaptiveInit, AdaptiveTypeOK, NobodyWaitsInVain, Loads

\* A sample sets a number within the bounds and puts the line to work.
LEMMA SampleKeeps ==
  ASSUME AdaptiveConfig, AdaptiveTypeOK, NobodyWaitsInVain, Sample
  PROVE  AdaptiveTypeOK' /\ NobodyWaitsInVain'
  <1> DEFINE q == IF waiting > 0 \/ 5 * active >= 4 * count THEN 0
                  ELSE Smaller(quiet + 1, IdleSamples)
             next == NextCount(count, active, waiting, load, q)
             free == Larger(0, next - Larger(count, active))
             served == Smaller(waiting, free)
  <1>0. /\ count \in MinCount..MaxCount /\ active \in Nat /\ waiting \in 0..MaxWaiting
        /\ load \in Loads
        /\ MinCount \in Nat \ {0} /\ MaxCount \in Nat /\ MaxWaiting \in Nat
    BY DEF AdaptiveTypeOK, AdaptiveConfig
  <1>1. q \in 0..IdleSamples /\ q \in Nat
    BY DEF AdaptiveConfig, AdaptiveTypeOK, Smaller
  <1>2. /\ count' = next /\ quiet' = q /\ active' = active + served
        /\ waiting' = waiting - served /\ load' = load
    BY DEF Sample
  <1>3. next \in MinCount..MaxCount
    <2> HIDE DEF q
    <2> QED BY <1>0, <1>1, NextCountBound
  <1> HIDE DEF q, next
  <1>4. /\ free \in Nat
        /\ active >= count => (next > active => free = next - active)
    BY <1>0, <1>3 DEF Larger
  <1> HIDE DEF free
  <1>5. /\ served \in 0..waiting
        /\ served < waiting => served = free
    BY <1>0, <1>4 DEF Smaller
  <1> HIDE DEF served
  <1>6. waiting > 0 => active >= count
    BY DEF NobodyWaitsInVain
  <1>7. AdaptiveTypeOK'
    BY <1>0, <1>1, <1>2, <1>3, <1>5 DEF AdaptiveTypeOK
  <1>8. waiting - served > 0 => active + served >= next
    BY <1>0, <1>3, <1>4, <1>5, <1>6
  <1>9. NobodyWaitsInVain'
    BY <1>2, <1>8 DEF NobodyWaitsInVain
  <1> QED BY <1>7, <1>9

LEMMA NextAdaptive ==
  AdaptiveConfig /\ AdaptiveTypeOK /\ NobodyWaitsInVain /\ [AdaptiveNext]_adaptiveVars
  => AdaptiveTypeOK' /\ NobodyWaitsInVain'
  <1> SUFFICES ASSUME AdaptiveConfig, AdaptiveTypeOK, NobodyWaitsInVain,
                      [AdaptiveNext]_adaptiveVars
               PROVE  AdaptiveTypeOK' /\ NobodyWaitsInVain'
    OBVIOUS
  <1> USE DEF AdaptiveTypeOK, NobodyWaitsInVain, AdaptiveConfig
  <1>1. CASE Request
    BY <1>1 DEF Request
  <1>2. CASE GiveBack
    BY <1>2 DEF GiveBack
  <1>3. CASE GiveUp
    BY <1>3 DEF GiveUp
  <1>4. CASE LoadChanges
    BY <1>4 DEF LoadChanges
  <1>5. CASE Sample
    BY <1>5, SampleKeeps
  <1>6. CASE UNCHANGED adaptiveVars
    BY <1>6 DEF adaptiveVars
  <1> QED BY <1>1, <1>2, <1>3, <1>4, <1>5, <1>6 DEF AdaptiveNext

\* What is wanted of a resize follows from the bounds and the line.
LEMMA RoomIsLeft ==
  ASSUME AdaptiveConfig, AdaptiveTypeOK, NobodyWaitsInVain
  PROVE  ResizeLeavesRoom
  <1> DEFINE cut == NextCount(count, active, 0, "low", IdleSamples)
  <1>1. /\ count \in MinCount..MaxCount /\ active \in Nat
        /\ waiting > 0 => active >= count
        /\ MinCount \in Nat \ {0} /\ MaxCount \in Nat /\ IdleSamples \in Nat
    BY DEF AdaptiveTypeOK, AdaptiveConfig, NobodyWaitsInVain
  <1>2. cut = IF 20 * active < 7 * count THEN AfterIdleness(count, active) ELSE count
    BY <1>1 DEF NextCount
  <1>3. 20 * active < 7 * count => active < AfterIdleness(count, active)
    BY <1>1, IdlenessBound
  <1>4. cut < count => active < cut
    <2> HIDE DEF cut
    <2> QED BY <1>1, <1>2, <1>3
  <1> QED BY <1>1, <1>4 DEF ResizeLeavesRoom

\* For every configuration, the controller keeps its number within the bounds,
\* lets nobody wait in vain and cuts no busy worker for idleness.
THEOREM AdaptiveRoom ==
  ASSUME AdaptiveConfig
  PROVE  AdaptiveSpec => []ResizeLeavesRoom
  <1>1. AdaptiveInit => AdaptiveTypeOK /\ NobodyWaitsInVain
    BY InitAdaptive
  <1>2. AdaptiveTypeOK /\ NobodyWaitsInVain /\ [AdaptiveNext]_adaptiveVars
        => (AdaptiveTypeOK /\ NobodyWaitsInVain)'
    BY NextAdaptive
  <1>3. AdaptiveTypeOK /\ NobodyWaitsInVain => ResizeLeavesRoom
    BY RoomIsLeft
  <1> QED BY <1>1, <1>2, <1>3, PTL DEF AdaptiveSpec

=============================================================================
