---------------------------- MODULE IpPoolProofs ----------------------------
(***************************************************************************)
(* Proofs about IpPlan and IpPool.  A plan is two loops, written as         *)
(* recursive functions; what they keep is PlanInv, and the induction over   *)
(* the accounts and the regions is by the least counterexample              *)
(* (LeastNumber).  The pool adds that one planner at a time holds bindings  *)
(* that nobody but a deletion has changed since.                            *)
(***************************************************************************)
EXTENDS IpPool, FiniteSetTheorems, WellFoundedInduction, TLAPS

-----------------------------------------------------------------------------
(* Least numbers, in place of induction over a formula.                     *)

LEMMA LeastNumber ==
  ASSUME NEW T, T \subseteq Nat, T # {}
  PROVE  \E m \in T : \A k \in T : m <= k
<1> DEFINE R == {ss \in Nat \X Nat : ss[1] < ss[2]}
<1>1. IsWellFoundedOn(R, Nat)
  BY NatLessThanWellFounded DEF OpToRel
<1> HIDE DEF R
<1>2. PICK x \in T : \A y \in T : ~ (<<y, x>> \in R)
  BY <1>1, WFMin
<1>3. \A y \in T : ~(y < x)
  BY <1>2 DEF R
<1> QED
  BY <1>3

\* A finite set of numbers has a bound.
LEMMA FiniteIsBounded ==
  ASSUME NEW ids, ids \subseteq Nat, IsFiniteSet(ids)
  PROVE  \E b \in Nat : \A x \in ids : x <= b
<1> DEFINE Bounded(X) == \E b \in Nat : \A x \in X : x <= b
           T == {n \in Nat : \E X \in SUBSET ids : Cardinality(X) = n /\ ~Bounded(X)}
<1>1. SUFFICES ASSUME ~Bounded(ids) PROVE FALSE
  OBVIOUS
<1>2. Cardinality(ids) \in T
  BY <1>1, FS_CardinalityType
<1>3. PICK n \in T : \A k \in T : n <= k
  <2>1. T \subseteq Nat /\ T # {}
    BY <1>2
  <2> HIDE DEF T
  <2> QED
    BY <2>1, LeastNumber
<1>4. PICK X \in SUBSET ids : Cardinality(X) = n /\ ~Bounded(X)
  BY <1>3
<1>5. PICK x \in X : TRUE
  BY <1>4
<1>6. IsFiniteSet(X) /\ IsFiniteSet(X \ {x}) /\ Cardinality(X \ {x}) = n - 1 /\ n - 1 \in Nat
  <2>1. IsFiniteSet(X)
    BY FS_Subset
  <2>2. IsFiniteSet(X \ {x}) /\ Cardinality(X \ {x}) = n - 1
    BY <1>4, <1>5, <2>1, FS_RemoveElement
  <2> QED
    BY <2>1, <2>2, FS_CardinalityType
<1>7. Bounded(X \ {x})
  <2>1. n - 1 \notin T
    BY <1>3, <1>6
  <2> QED
    BY <1>6, <2>1
<1>8. PICK b \in Nat : \A y \in X \ {x} : y <= b
  BY <1>7
<1>9. x \in Nat /\ \A y \in X : y <= IF x <= b THEN b ELSE x
  BY <1>5, <1>8
<1> QED
  BY <1>4, <1>9

LEMMA HighestIs ==
  ASSUME NEW ids, ids \subseteq Nat, IsFiniteSet(ids)
  PROVE  Highest(ids) \in Nat /\ \A x \in ids : x <= Highest(ids)
<1> DEFINE U == {b \in Nat : \A x \in ids : x <= b}
<1>1. PICK m \in U : \A k \in U : m <= k
  <2>1. U \subseteq Nat /\ U # {}
    BY FiniteIsBounded
  <2> HIDE DEF U
  <2> QED
    BY <2>1, LeastNumber
<1>2. m \in ids \cup {0}
  <2>1. SUFFICES ASSUME m \notin ids, m # 0 PROVE FALSE
    OBVIOUS
  <2>2. m - 1 \in U
    BY <1>1, <2>1
  <2> QED
    BY <1>1, <2>2
<1>3. \E i \in ids \cup {0} : \A j \in ids : j <= i
  BY <1>1, <1>2
<1> HIDE DEF U
<1>4. Highest(ids) \in ids \cup {0} /\ \A j \in ids : j <= Highest(ids)
  BY <1>3 DEF Highest
<1>5. ids \cup {0} \subseteq Nat
  OBVIOUS
<1> QED
  BY <1>4, <1>5

-----------------------------------------------------------------------------
(* The two loops of the plan, unfolded.                                     *)

PlacedFrom(f, p, accounts, candidates, size, i) ==
  IF i = 0 THEN [p EXCEPT !.left = 0]
  ELSE IF i \in accounts THEN Place(f[i - 1], i, candidates, size)
  ELSE f[i - 1]

IsPlaced(f, p, accounts, candidates, size, n) ==
  /\ f = [i \in 0..n |-> f[i]]
  /\ \A i \in 0..n : f[i] = PlacedFrom(f, p, accounts, candidates, size, i)

LEMMA PlacedExists ==
  ASSUME NEW p, NEW accounts, NEW candidates, NEW size, NEW N \in Nat
  PROVE  \E f : IsPlaced(f, p, accounts, candidates, size, N)
<1> USE DEF IsPlaced
<1> DEFINE Is(f, n) == IsPlaced(f, p, accounts, candidates, size, n)
           T == {n \in Nat : ~ \E f : Is(f, n)}
<1>1. SUFFICES ASSUME ~ \E f : Is(f, N) PROVE FALSE
  OBVIOUS
<1>2. PICK n \in T : \A k \in T : n <= k
  <2>1. T \subseteq Nat /\ T # {}
    BY <1>1
  <2> HIDE DEF T
  <2> QED
    BY <2>1, LeastNumber
<1>3. n # 0
  <2>1. SUFFICES ASSUME n = 0 PROVE FALSE
    OBVIOUS
  <2> DEFINE g == [i \in 0..0 |-> [p EXCEPT !.left = 0]]
  <2>2. Is(g, 0)
    <3>1. \A i \in 0..0 : PlacedFrom(g, p, accounts, candidates, size, i) = [p EXCEPT !.left = 0]
      BY DEF PlacedFrom
    <3>2. \A i \in 0..0 : g[i] = [p EXCEPT !.left = 0]
      OBVIOUS
    <3>3. g = [i \in 0..0 |-> g[i]]
      OBVIOUS
    <3> QED
      BY <3>1, <3>2, <3>3
  <2> QED
    BY <1>2, <2>1, <2>2
<1>4. n - 1 \in Nat /\ n - 1 \notin T
  BY <1>2, <1>3
<1>5. PICK f : Is(f, n - 1)
  BY <1>4
<1> DEFINE last == IF n \in accounts THEN Place(f[n - 1], n, candidates, size) ELSE f[n - 1]
           g == [i \in 0..n |-> IF i = n THEN last ELSE f[i]]
<1>6. Is(g, n)
  <2>1. ASSUME NEW i \in 0..n PROVE g[i] = PlacedFrom(g, p, accounts, candidates, size, i)
    <3>1. CASE i = n
      <4>1. g[n] = last /\ g[n - 1] = f[n - 1]
        BY <1>2, <1>4
      <4> HIDE DEF g
      <4> QED
        BY <1>3, <3>1, <4>1 DEF PlacedFrom
    <3>2. CASE i # n
      <4>1. i \in 0..(n - 1) /\ g[i] = f[i] /\ (i # 0 => g[i - 1] = f[i - 1])
        BY <1>2, <1>4, <3>2
      <4>2. f[i] = PlacedFrom(f, p, accounts, candidates, size, i)
        BY <1>5, <4>1
      <4> HIDE DEF g
      <4> QED
        BY <4>1, <4>2 DEF PlacedFrom
    <3> QED
      BY <3>1, <3>2
  <2>2. g = [i \in 0..n |-> g[i]]
    OBVIOUS
  <2> QED
    BY <2>1, <2>2
<1> QED
  BY <1>2, <1>6

LEMMA ChunkedIs ==
  ASSUME NEW p, NEW accounts, NEW candidates, NEW size, Highest(accounts) \in Nat
  PROVE  \E f : /\ \A i \in 0..Highest(accounts) :
                     f[i] = PlacedFrom(f, p, accounts, candidates, size, i)
                /\ AssignChunked(p, accounts, candidates, size) = f[Highest(accounts)]
<1> DEFINE placed[i \in 0..Highest(accounts)] ==
             IF i = 0 THEN [p EXCEPT !.left = 0]
             ELSE IF i \in accounts THEN Place(placed[i - 1], i, candidates, size)
             ELSE placed[i - 1]
           last == Highest(accounts)
<1>0. last \in Nat
  OBVIOUS
<1> HIDE DEF placed, last
<1>1. \E f : f = [i \in 0..last |-> PlacedFrom(f, p, accounts, candidates, size, i)]
  <2>0. PICK f : IsPlaced(f, p, accounts, candidates, size, last)
    BY <1>0, PlacedExists
  <2>1. /\ f = [i \in 0..last |-> f[i]]
        /\ \A i \in 0..last : f[i] = PlacedFrom(f, p, accounts, candidates, size, i)
    BY <2>0 DEF IsPlaced
  <2>2. [i \in 0..last |-> f[i]] = [i \in 0..last |-> PlacedFrom(f, p, accounts, candidates, size, i)]
    BY <2>1
  <2> QED
    BY <2>1, <2>2
<1>2. placed = [i \in 0..Highest(accounts) |-> PlacedFrom(placed, p, accounts, candidates, size, i)]
  BY <1>1 DEF PlacedFrom, placed, last
<1>3. AssignChunked(p, accounts, candidates, size) = placed[Highest(accounts)]
  BY DEF AssignChunked, placed
<1> QED
  BY <1>2, <1>3

NearFrom(f, p, bound, available, region, size, r) ==
  IF r = 0 THEN p
  ELSE IF r \in Regions
       THEN AssignChunked(f[r - 1], From(r, bound, available, region),
                          {n \in available : region[n] = r}, size)
  ELSE f[r - 1]

IsNear(f, p, bound, available, region, size, n) ==
  /\ f = [i \in 0..n |-> f[i]]
  /\ \A i \in 0..n : f[i] = NearFrom(f, p, bound, available, region, size, i)

LEMMA NearExists ==
  ASSUME NEW p, NEW bound, NEW available, NEW region, NEW size, NEW N \in Nat
  PROVE  \E f : IsNear(f, p, bound, available, region, size, N)
<1> USE DEF IsNear
<1> DEFINE Is(f, n) == IsNear(f, p, bound, available, region, size, n)
           T == {n \in Nat : ~ \E f : Is(f, n)}
<1>1. SUFFICES ASSUME ~ \E f : Is(f, N) PROVE FALSE
  OBVIOUS
<1>2. PICK n \in T : \A k \in T : n <= k
  <2>1. T \subseteq Nat /\ T # {}
    BY <1>1
  <2> HIDE DEF T
  <2> QED
    BY <2>1, LeastNumber
<1>3. n # 0
  <2>1. SUFFICES ASSUME n = 0 PROVE FALSE
    OBVIOUS
  <2> DEFINE g == [i \in 0..0 |-> p]
  <2>2. Is(g, 0)
    <3>1. \A i \in 0..0 : NearFrom(g, p, bound, available, region, size, i) = p
      BY DEF NearFrom
    <3>2. \A i \in 0..0 : g[i] = p
      OBVIOUS
    <3>3. g = [i \in 0..0 |-> g[i]]
      OBVIOUS
    <3> QED
      BY <3>1, <3>2, <3>3
  <2> QED
    BY <1>2, <2>1, <2>2
<1>4. n - 1 \in Nat /\ n - 1 \notin T
  BY <1>2, <1>3
<1>5. PICK f : Is(f, n - 1)
  BY <1>4
<1> DEFINE last == IF n \in Regions
                   THEN AssignChunked(f[n - 1], From(n, bound, available, region),
                                      {m \in available : region[m] = n}, size)
                   ELSE f[n - 1]
           g == [i \in 0..n |-> IF i = n THEN last ELSE f[i]]
<1>6. Is(g, n)
  <2>1. ASSUME NEW i \in 0..n PROVE g[i] = NearFrom(g, p, bound, available, region, size, i)
    <3>1. CASE i = n
      <4>1. g[n] = last /\ g[n - 1] = f[n - 1]
        BY <1>2, <1>4
      <4> HIDE DEF g
      <4> QED
        BY <1>3, <3>1, <4>1 DEF NearFrom
    <3>2. CASE i # n
      <4>1. i \in 0..(n - 1) /\ g[i] = f[i] /\ (i # 0 => g[i - 1] = f[i - 1])
        BY <1>2, <1>4, <3>2
      <4>2. f[i] = NearFrom(f, p, bound, available, region, size, i)
        BY <1>5, <4>1
      <4> HIDE DEF g
      <4> QED
        BY <4>1, <4>2 DEF NearFrom
    <3> QED
      BY <3>1, <3>2
  <2>2. g = [i \in 0..n |-> g[i]]
    OBVIOUS
  <2> QED
    BY <2>1, <2>2
<1> QED
  BY <1>2, <1>6

LEMMA NearIs ==
  ASSUME NEW p, NEW bound, NEW available, NEW region, NEW size, Highest(Regions) \in Nat
  PROVE  \E f : /\ \A i \in 0..Highest(Regions) :
                     f[i] = NearFrom(f, p, bound, available, region, size, i)
                /\ AssignNear(p, bound, available, region, size) = f[Highest(Regions)]
<1> DEFINE near[r \in 0..Highest(Regions)] ==
             IF r = 0 THEN p
             ELSE IF r \in Regions
                  THEN AssignChunked(near[r - 1], From(r, bound, available, region),
                                     {n \in available : region[n] = r}, size)
             ELSE near[r - 1]
           last == Highest(Regions)
<1>0. last \in Nat
  OBVIOUS
<1> HIDE DEF near, last
<1>1. \E f : f = [i \in 0..last |-> NearFrom(f, p, bound, available, region, size, i)]
  <2>0. PICK f : IsNear(f, p, bound, available, region, size, last)
    BY <1>0, NearExists
  <2>1. /\ f = [i \in 0..last |-> f[i]]
        /\ \A i \in 0..last : f[i] = NearFrom(f, p, bound, available, region, size, i)
    BY <2>0 DEF IsNear
  <2>2. [i \in 0..last |-> f[i]] = [i \in 0..last |-> NearFrom(f, p, bound, available, region, size, i)]
    BY <2>1
  <2> QED
    BY <2>1, <2>2
<1>2. near = [i \in 0..Highest(Regions) |-> NearFrom(near, p, bound, available, region, size, i)]
  BY <1>1 DEF NearFrom, near, last
<1>3. AssignNear(p, bound, available, region, size) = near[Highest(Regions)]
  BY DEF AssignNear, near
<1> QED
  BY <1>2, <1>3

-----------------------------------------------------------------------------
(* One account is placed.                                                   *)

LEMMA LeastLoadedIs ==
  ASSUME NEW available, available \subseteq Nat, NEW count \in [available -> Nat],
         NEW candidates \in SUBSET available, candidates # {}
  PROVE  /\ LeastLoaded(count, candidates) \in candidates
         /\ \A m \in candidates : count[LeastLoaded(count, candidates)] <= count[m]
<1> DEFINE C == {count[n] : n \in candidates}
<1>1. PICK least \in C : \A k \in C : least <= k
  <2>1. C \subseteq Nat /\ C # {}
    OBVIOUS
  <2> HIDE DEF C
  <2> QED
    BY <2>1, LeastNumber
<1> DEFINE B == {n \in candidates : count[n] = least}
<1>2. PICK first \in B : \A k \in B : first <= k
  <2>1. B \subseteq Nat /\ B # {}
    BY <1>1
  <2> HIDE DEF B
  <2> QED
    BY <2>1, LeastNumber
<1>3. ASSUME NEW m \in candidates
      PROVE  count[first] < count[m] \/ (count[first] = count[m] /\ first <= m)
  <2>1. count[first] = least /\ least <= count[m] /\ least \in Nat /\ count[m] \in Nat
    BY <1>1, <1>2, <1>3
  <2>2. CASE count[m] = least
    BY <2>1, <2>2, <1>2, <1>3
  <2> QED
    BY <2>1, <2>2
<1>4. first \in candidates
  BY <1>2
<1> HIDE DEF B, C
<1>5. LET n == LeastLoaded(count, candidates)
      IN  /\ n \in candidates
          /\ \A m \in candidates : count[n] < count[m] \/ (count[n] = count[m] /\ n <= m)
  BY <1>3, <1>4 DEF LeastLoaded
<1> DEFINE n == LeastLoaded(count, candidates)
<1>6. n \in candidates
  BY <1>5
<1> HIDE DEF n
<1>7. ASSUME NEW m \in candidates PROVE count[n] <= count[m]
  <2>1. count[n] < count[m] \/ (count[n] = count[m] /\ n <= m)
    BY <1>5 DEF n
  <2>2. count[n] \in Nat /\ count[m] \in Nat
    BY <1>6
  <2> QED
    BY <2>1, <2>2
<1> QED
  BY <1>6, <1>7 DEF n

LEMMA RestOfBlock ==
  ASSUME NEW c \in Nat, NEW size \in Nat \ {0}
  PROVE  size - (c % size) \in 1..size
OBVIOUS

(* What the plan is made from: D the accounts, N the nodes of the pool.     *)
GoodInput(D, N, bound, available, region, size) ==
  /\ D \subseteq Nat \ {0} /\ IsFiniteSet(D)
  /\ N \subseteq Nat \ {0}
  /\ bound \in [D -> N \cup {NoNode}]
  /\ available \in SUBSET N
  /\ region \in [N -> Regions \cup {NoRegion}]
  /\ size \in Nat \ {0}

(* What the loops keep: p is the state of a plan that has placed the        *)
(* accounts in done.                                                        *)
Rows(D, N, available) ==
  [plan   : [D -> N \cup {NoNode}],
   count  : [available -> Nat],
   target : Nat,
   left   : Nat]

KeepsOthers(p, done, D, bound) == \A a \in D \ done : p.plan[a] = bound[a]

PlacesNear(p, done, bound, available, region) ==
  \A a \in done :
    /\ p.plan[a] \in available
    /\ RegionToKeep(bound, available, region, a) # NoRegion
         => region[p.plan[a]] = RegionToKeep(bound, available, region, a)

CountsAll(p, D, available) ==
  \A n \in available : p.count[n] = Cardinality({a \in D : p.plan[a] = n})

Room(p, n) == IF n = p.target THEN p.left ELSE 0

Receives(p, done, n) ==
  (\E a \in done : p.plan[a] = n) \/ (n = p.target /\ p.left # 0)

StaysEven(p, done, available, region, size) ==
  \A n, m \in available :
    (Receives(p, done, n) /\ region[n] = region[m])
      => p.count[n] + Room(p, n) <= p.count[m] + size

PlanInv(p, done, D, N, bound, available, region, size) ==
  /\ p \in Rows(D, N, available)
  /\ done \subseteq Pending(bound, available)
  /\ KeepsOthers(p, done, D, bound)
  /\ PlacesNear(p, done, bound, available, region)
  /\ CountsAll(p, D, available)
  /\ StaysEven(p, done, available, region, size)

Filling(p, candidates, size) ==
  p.left <= size /\ (p.left # 0 => p.target \in candidates)

(* Candidates that may serve the accounts.                                  *)
Serves(candidates, accounts, bound, available, region) ==
  /\ candidates \subseteq available
  /\ accounts # {} => candidates # {}
  /\ \A n \in candidates, m \in available : region[n] = region[m] => m \in candidates
  /\ \A a \in accounts, n \in candidates :
       RegionToKeep(bound, available, region, a) # NoRegion
         => region[n] = RegionToKeep(bound, available, region, a)

LEMMA PlaceKeeps ==
  ASSUME NEW D, NEW N, NEW bound, NEW available, NEW region, NEW size,
         GoodInput(D, N, bound, available, region, size),
         NEW candidates, NEW accounts,
         Serves(candidates, accounts, bound, available, region),
         NEW p, NEW done, NEW a \in accounts,
         a \in Pending(bound, available), a \notin done,
         PlanInv(p, done, D, N, bound, available, region, size),
         Filling(p, candidates, size)
  PROVE  /\ PlanInv(Place(p, a, candidates, size), done \cup {a}, D, N, bound, available, region, size)
         /\ Filling(Place(p, a, candidates, size), candidates, size)
<1> DEFINE n    == IF p.left = 0 THEN LeastLoaded(p.count, candidates) ELSE p.target
           left == IF p.left = 0 THEN size - (p.count[n] % size) ELSE p.left
           q    == Place(p, a, candidates, size)
<1>1. /\ D \subseteq Nat /\ IsFiniteSet(D) /\ available \subseteq N /\ N \subseteq Nat
      /\ size \in Nat \ {0} /\ a \in D /\ bound[a] \notin available /\ DOMAIN bound = D
  BY DEF GoodInput, Pending
<1>2. /\ p.plan \in [D -> N \cup {NoNode}] /\ p.count \in [available -> Nat]
      /\ p.target \in Nat /\ p.left \in Nat
  BY DEF PlanInv, Rows
<1>3. /\ candidates \subseteq available /\ candidates # {}
  BY DEF Serves
<1>4. n \in candidates /\ (p.left = 0 => \A m \in candidates : p.count[n] <= p.count[m])
  <2>1. CASE p.left = 0
    <3>1. /\ LeastLoaded(p.count, candidates) \in candidates
          /\ \A m \in candidates : p.count[LeastLoaded(p.count, candidates)] <= p.count[m]
      BY <1>1, <1>2, <1>3, LeastLoadedIs
    <3> QED
      BY <2>1, <3>1
  <2>2. CASE p.left # 0
    BY <2>2 DEF Filling
  <2> QED
    BY <2>1, <2>2
<1> HIDE DEF n
<1>5. n \in available /\ n \in N /\ p.count[n] \in Nat
  BY <1>1, <1>2, <1>3, <1>4
<1>6. left \in 1..size
  <2>1. CASE p.left = 0
    BY <1>1, <1>5, <2>1, RestOfBlock
  <2>2. CASE p.left # 0
    BY <1>1, <1>2, <2>2 DEF Filling
  <2> QED
    BY <2>1, <2>2
<1>7. left = p.left \/ p.left = 0
  OBVIOUS
<1>8. q = [plan |-> [p.plan EXCEPT ![a] = n], count |-> [p.count EXCEPT ![n] = @ + 1],
           target |-> n, left |-> left - 1]
  BY DEF Place, n
<1>8a. n = p.target \/ p.left = 0
  BY DEF n
<1> HIDE DEF left, q
<1>9. /\ q.plan = [p.plan EXCEPT ![a] = n] /\ q.count = [p.count EXCEPT ![n] = @ + 1]
      /\ q.target = n /\ q.left = left - 1
  BY <1>8
<1>10. /\ \A m \in available : q.count[m] = IF m = n THEN p.count[m] + 1 ELSE p.count[m]
       /\ \A b \in D : q.plan[b] = IF b = a THEN n ELSE p.plan[b]
  BY <1>2, <1>9
<1>11. p.plan[a] = bound[a]
  BY <1>1 DEF PlanInv, KeepsOthers
<1>12. q \in Rows(D, N, available)
  <2>1. left - 1 \in Nat
    BY <1>1, <1>6
  <2>2. [p.plan EXCEPT ![a] = n] \in [D -> N \cup {NoNode}]
    BY <1>1, <1>2, <1>5
  <2>3. [p.count EXCEPT ![n] = @ + 1] \in [available -> Nat]
    BY <1>2, <1>5
  <2>4. n \in Nat
    BY <1>1, <1>5
  <2> QED
    BY <1>8, <2>1, <2>2, <2>3, <2>4 DEF Rows
<1>13. done \cup {a} \subseteq Pending(bound, available) /\ done \subseteq D
  BY DEF PlanInv, Pending, GoodInput
<1>14. KeepsOthers(q, done \cup {a}, D, bound)
  BY <1>10 DEF PlanInv, KeepsOthers
<1>15. PlacesNear(q, done \cup {a}, bound, available, region)
  <2>1. ASSUME NEW b \in done \cup {a}
        PROVE  /\ q.plan[b] \in available
               /\ RegionToKeep(bound, available, region, b) # NoRegion
                    => region[q.plan[b]] = RegionToKeep(bound, available, region, b)
    <3>1. CASE b = a
      BY <1>1, <1>4, <1>5, <1>10, <3>1 DEF Serves
    <3>2. CASE b # a
      BY <1>10, <1>13, <2>1, <3>2 DEF PlanInv, PlacesNear
    <3> QED
      BY <3>1, <3>2
  <2> QED
    BY <2>1 DEF PlacesNear
<1>16. CountsAll(q, D, available)
  <2>1. ASSUME NEW m \in available
        PROVE  q.count[m] = Cardinality({b \in D : q.plan[b] = m})
    <3> DEFINE P == {b \in D : p.plan[b] = m}
    <3>1. p.count[m] = Cardinality(P)
      BY <2>1 DEF PlanInv, CountsAll
    <3>2. IsFiniteSet(P) /\ a \notin P
      <4>1. P \subseteq D
        OBVIOUS
      <4>2. a \notin P
        BY <1>1, <1>11, <2>1
      <4> QED
        BY <1>1, <4>1, <4>2, FS_Subset
    <3>3. {b \in D : q.plan[b] = m} = IF m = n THEN P \cup {a} ELSE P
      BY <1>1, <1>10, <3>2
    <3> HIDE DEF P
    <3>4. Cardinality(P \cup {a}) = Cardinality(P) + 1
      BY <3>2, FS_AddElement
    <3> QED
      BY <1>10, <2>1, <3>1, <3>3, <3>4
  <2> QED
    BY <2>1 DEF CountsAll
<1>17. StaysEven(q, done \cup {a}, available, region, size)
  <2>1. SUFFICES ASSUME NEW k \in available, NEW m \in available,
                        Receives(q, done \cup {a}, k), region[k] = region[m]
                 PROVE  q.count[k] + Room(q, k) <= q.count[m] + size
    BY DEF StaysEven
  <2>2. /\ p.count[k] \in Nat /\ p.count[m] \in Nat /\ left \in Nat /\ size \in Nat
        /\ p.count[m] <= q.count[m] /\ q.count[m] \in Nat /\ q.count[k] \in Nat
    BY <1>1, <1>2, <1>6, <1>10
  <2>3. CASE k = n
    <3>1. q.count[k] + Room(q, k) = p.count[n] + left
      BY <1>9, <1>10, <2>2, <2>3 DEF Room
    <3>2. CASE p.left = 0
      <4>1. p.count[n] <= p.count[m]
        BY <1>4, <2>1, <2>3, <3>2 DEF Serves
      <4> QED
        BY <1>6, <2>2, <2>3, <3>1, <4>1
    <3>3. CASE p.left # 0
      <4>1. Receives(p, done, n) /\ n = p.target /\ left = p.left
        BY <1>7, <1>8a, <3>3 DEF Receives
      <4>2. p.count[n] + Room(p, n) <= p.count[m] + size
        BY <2>1, <2>3, <4>1, <1>5 DEF PlanInv, StaysEven
      <4> QED
        BY <2>2, <2>3, <3>1, <4>1, <4>2 DEF Room
    <3> QED
      BY <3>2, <3>3
  <2>4. CASE k # n
    <3>1. q.count[k] = p.count[k] /\ Room(q, k) = 0
      BY <1>9, <1>10, <2>4 DEF Room
    <3>2. Receives(p, done, k)
      BY <1>9, <1>10, <1>13, <2>1, <2>4, <1>1 DEF Receives
    <3>3. p.count[k] + Room(p, k) <= p.count[m] + size
      BY <2>1, <3>2 DEF PlanInv, StaysEven
    <3>4. Room(p, k) \in Nat
      BY <1>2 DEF Room
    <3> QED
      BY <2>2, <3>1, <3>3, <3>4
  <2> QED
    BY <2>3, <2>4
<1>18. Filling(q, candidates, size)
  BY <1>1, <1>4, <1>6, <1>9 DEF Filling
<1> QED
  BY <1>12, <1>13, <1>14, <1>15, <1>16, <1>17, <1>18 DEF PlanInv, q

-----------------------------------------------------------------------------
(* All of them are placed.                                                  *)

LEMMA RestKeeps ==
  ASSUME NEW D, NEW N, NEW bound, NEW available, NEW region, NEW size,
         NEW candidates, NEW p, NEW done, size \in Nat,
         PlanInv(p, done, D, N, bound, available, region, size)
  PROVE  /\ PlanInv([p EXCEPT !.left = 0], done, D, N, bound, available, region, size)
         /\ Filling([p EXCEPT !.left = 0], candidates, size)
<1> DEFINE q == [p EXCEPT !.left = 0]
<1>1. p \in Rows(D, N, available)
  BY DEF PlanInv
<1>2. /\ q \in Rows(D, N, available) /\ q.plan = p.plan /\ q.count = p.count
      /\ q.target = p.target /\ q.left = 0
  BY <1>1 DEF Rows
<1> HIDE DEF q
<1>3. StaysEven(q, done, available, region, size)
  <2>1. SUFFICES ASSUME NEW k \in available, NEW m \in available,
                        Receives(q, done, k), region[k] = region[m]
                 PROVE  q.count[k] + Room(q, k) <= q.count[m] + size
    BY DEF StaysEven
  <2>2. Receives(p, done, k)
    BY <1>2, <2>1 DEF Receives
  <2>3. p.count[k] + Room(p, k) <= p.count[m] + size
    BY <2>1, <2>2 DEF PlanInv, StaysEven
  <2>4. p.count[k] \in Nat /\ p.count[m] \in Nat /\ Room(p, k) \in Nat
    BY <1>1 DEF Rows, Room
  <2>5. Room(q, k) = 0
    BY <1>2 DEF Room
  <2> QED
    BY <1>2, <2>3, <2>4, <2>5
<1>4. KeepsOthers(q, done, D, bound) /\ PlacesNear(q, done, bound, available, region)
      /\ CountsAll(q, D, available)
  BY <1>2 DEF PlanInv, KeepsOthers, PlacesNear, CountsAll
<1>5. Filling(q, candidates, size)
  BY <1>2 DEF Filling
<1> QED
  BY <1>2, <1>3, <1>4, <1>5 DEF PlanInv, q

LEMMA ChunkedKeeps ==
  ASSUME NEW D, NEW N, NEW bound, NEW available, NEW region, NEW size,
         GoodInput(D, N, bound, available, region, size),
         NEW candidates, NEW accounts,
         Serves(candidates, accounts, bound, available, region),
         accounts \subseteq Pending(bound, available),
         NEW p, NEW done, done \cap accounts = {},
         PlanInv(p, done, D, N, bound, available, region, size)
  PROVE  PlanInv(AssignChunked(p, accounts, candidates, size), done \cup accounts,
                 D, N, bound, available, region, size)
<1>1. /\ accounts \subseteq Nat /\ IsFiniteSet(accounts) /\ 0 \notin accounts /\ size \in Nat
  <2>1. accounts \subseteq D /\ D \subseteq Nat \ {0} /\ IsFiniteSet(D) /\ size \in Nat
    BY DEF GoodInput, Pending
  <2> QED
    BY <2>1, FS_Subset
<1> DEFINE H == Highest(accounts)
<1>2. H \in Nat /\ \A x \in accounts : x <= H
  BY <1>1, HighestIs
<1>3. PICK f : /\ \A i \in 0..H : f[i] = PlacedFrom(f, p, accounts, candidates, size, i)
               /\ AssignChunked(p, accounts, candidates, size) = f[H]
  BY <1>2, ChunkedIs
<1> HIDE DEF H
<1> DEFINE Upto(i) == done \cup {x \in accounts : x <= i}
<1>a. Upto(0) = done
  <2>1. \A x \in accounts : ~(x <= 0)
    BY <1>1
  <2> QED
    BY <2>1
<1>b. ASSUME NEW i \in Nat \ {0}
      PROVE  /\ Upto(i) = Upto(i - 1) \cup {x \in accounts : x = i}
             /\ i \in accounts => i \notin Upto(i - 1)
  <2>1. \A x \in accounts : /\ x <= i <=> (x <= i - 1 \/ x = i)
                             /\ ~(i <= i - 1)
    BY <1>1
  <2> QED
    BY <2>1
<1> DEFINE Keeps(i) == /\ PlanInv(f[i], Upto(i), D, N, bound, available, region, size)
                       /\ Filling(f[i], candidates, size)
           T == {i \in 0..H : ~Keeps(i)}
<1>4. T = {}
  <2>1. SUFFICES ASSUME T # {} PROVE FALSE
    OBVIOUS
  <2>2. PICK i \in T : \A k \in T : i <= k
    <3>1. T \subseteq Nat
      BY <1>2
    <3> HIDE DEF T
    <3> QED
      BY <2>1, <3>1, LeastNumber
  <2>3. i \in 0..H /\ i \in Nat /\ ~Keeps(i) /\ f[i] = PlacedFrom(f, p, accounts, candidates, size, i)
    BY <1>2, <1>3, <2>2
  <2>4. CASE i = 0
    <3>1. Upto(0) = done
      BY <1>a
    <3>2. f[0] = [p EXCEPT !.left = 0]
      BY <2>3, <2>4 DEF PlacedFrom
    <3>3. Keeps(0)
      BY <1>1, <3>1, <3>2, RestKeeps
    <3> QED
      BY <2>3, <2>4, <3>3
  <2>5. CASE i # 0
    <3>1. i - 1 \in 0..H /\ i - 1 \notin T
      BY <1>2, <2>2, <2>3, <2>5
    <3>2. Keeps(i - 1)
      BY <3>1
    <3>3. CASE i \in accounts
      <4>1. f[i] = Place(f[i - 1], i, candidates, size)
        BY <2>3, <2>5, <3>3 DEF PlacedFrom
      <4>2. Upto(i) = Upto(i - 1) \cup {i} /\ i \notin Upto(i - 1) /\ i \in Pending(bound, available)
        <5>1. {x \in accounts : x = i} = {i}
          BY <3>3
        <5> HIDE DEF Upto, T
        <5> QED
          BY <1>b, <2>3, <2>5, <3>3, <5>1
      <4> DEFINE before == Upto(i - 1)
                 g == f[i - 1]
      <4>3. PlanInv(g, before, D, N, bound, available, region, size) /\ Filling(g, candidates, size)
            /\ i \notin before
        BY <3>2, <4>2
      <4> HIDE DEF before, g, Keeps, Upto, T
      <4>4. /\ PlanInv(Place(g, i, candidates, size), before \cup {i}, D, N, bound, available, region, size)
            /\ Filling(Place(g, i, candidates, size), candidates, size)
        BY <3>3, <4>2, <4>3, PlaceKeeps
      <4>5. Keeps(i)
        BY <4>1, <4>2, <4>4 DEF Keeps, before, g
      <4> QED
        BY <2>3, <4>5
    <3>4. CASE i \notin accounts
      <4>1. f[i] = f[i - 1]
        BY <2>3, <2>5, <3>4 DEF PlacedFrom
      <4>2. Upto(i) = Upto(i - 1)
        <5>1. {x \in accounts : x = i} = {}
          BY <3>4
        <5> HIDE DEF Upto, T
        <5> QED
          BY <1>b, <2>3, <2>5, <5>1
      <4> HIDE DEF Upto
      <4> QED
        BY <2>3, <3>2, <4>1, <4>2
    <3> QED
      BY <3>3, <3>4
  <2> QED
    BY <2>4, <2>5
<1>5. Keeps(H)
  BY <1>2, <1>4
<1>6. Upto(H) = done \cup accounts
  BY <1>2
<1> QED
  BY <1>3, <1>5, <1>6

LEMMA RegionToKeepIs ==
  ASSUME NEW D, NEW N, NEW bound, NEW available, NEW region, NEW size,
         GoodInput(D, N, bound, available, region, size), NEW a \in D
  PROVE  /\ RegionToKeep(bound, available, region, a) \in Regions \cup {NoRegion}
         /\ RegionToKeep(bound, available, region, a) # NoRegion
              => \E n \in available : region[n] = RegionToKeep(bound, available, region, a)
<1>1. /\ bound[a] \in N \cup {NoNode} /\ region \in [N -> Regions \cup {NoRegion}]
  BY DEF GoodInput
<1> QED
  BY <1>1 DEF RegionToKeep

LEMMA NearKeeps ==
  ASSUME NEW D, NEW N, NEW bound, NEW available, NEW region, NEW size,
         GoodInput(D, N, bound, available, region, size),
         NEW p, PlanInv(p, {}, D, N, bound, available, region, size)
  PROVE  PlanInv(AssignNear(p, bound, available, region, size),
                 {a \in Pending(bound, available) :
                    RegionToKeep(bound, available, region, a) # NoRegion},
                 D, N, bound, available, region, size)
<1> DEFINE H == Highest(Regions)
           Keep(a) == RegionToKeep(bound, available, region, a)
           All == Pending(bound, available)
<1>1. Regions \subseteq Nat /\ 0 \notin Regions /\ IsFiniteSet(Regions)
  BY PlanAssumption
<1>2. H \in Nat /\ \A x \in Regions : x <= H
  BY <1>1, HighestIs
<1>3. PICK f : /\ \A i \in 0..H : f[i] = NearFrom(f, p, bound, available, region, size, i)
               /\ AssignNear(p, bound, available, region, size) = f[H]
  BY <1>2, NearIs
<1>4. \A a \in All : /\ Keep(a) \in Regions \cup {0}
                     /\ Keep(a) # 0 => \E n \in available : region[n] = Keep(a)
  <2>1. SUFFICES ASSUME NEW a \in All PROVE Keep(a) \in Regions \cup {0}
                         /\ (Keep(a) # 0 => \E n \in available : region[n] = Keep(a))
    OBVIOUS
  <2>2. a \in D
    BY DEF Pending, GoodInput
  <2> QED
    BY <2>2, RegionToKeepIs DEF NoRegion
<1> HIDE DEF H, Keep, All
<1> DEFINE Upto(i) == {a \in All : Keep(a) # 0 /\ Keep(a) <= i}
<1>4a. ASSUME NEW a \in All PROVE Keep(a) \in Nat
  <2>1. Keep(a) \in Regions \cup {0}
    BY <1>4
  <2>2. Regions \cup {0} \subseteq Nat
    BY <1>1
  <2> QED
    BY <2>1, <2>2
<1>a. Upto(0) = {}
  <2>1. ASSUME NEW a \in All PROVE ~(Keep(a) # 0 /\ Keep(a) <= 0)
    BY <1>4a
  <2> QED
    BY <2>1
<1>b. ASSUME NEW i \in Nat \ {0}
      PROVE  /\ Upto(i) = Upto(i - 1) \cup {a \in All : Keep(a) = i}
             /\ Upto(i - 1) \cap {a \in All : Keep(a) = i} = {}
  <2>1. ASSUME NEW a \in All
        PROVE  /\ Keep(a) <= i <=> (Keep(a) <= i - 1 \/ Keep(a) = i)
               /\ Keep(a) = i => (Keep(a) # 0 /\ ~(Keep(a) <= i - 1))
    BY <1>4a
  <2> QED
    BY <2>1
<1> DEFINE Keeps(i) == PlanInv(f[i], Upto(i), D, N, bound, available, region, size)
           T == {i \in 0..H : ~Keeps(i)}
<1>5. T = {}
  <2>1. SUFFICES ASSUME T # {} PROVE FALSE
    OBVIOUS
  <2>2. PICK i \in T : \A k \in T : i <= k
    <3>1. T \subseteq Nat
      BY <1>2
    <3> HIDE DEF T
    <3> QED
      BY <2>1, <3>1, LeastNumber
  <2>3. i \in 0..H /\ i \in Nat /\ ~Keeps(i)
        /\ f[i] = NearFrom(f, p, bound, available, region, size, i)
    BY <1>2, <1>3, <2>2
  <2>4. CASE i = 0
    <3>1. Upto(0) = {}
      BY <1>a
    <3>2. f[0] = p
      BY <2>3, <2>4 DEF NearFrom
    <3> QED
      BY <2>3, <2>4, <3>1, <3>2
  <2>5. CASE i # 0
    <3>1. i - 1 \in 0..H /\ i - 1 \notin T
      BY <1>2, <2>2, <2>3, <2>5
    <3>2. Keeps(i - 1)
      BY <3>1
    <3>3. CASE i \in Regions
      <4> DEFINE here == {n \in available : region[n] = i}
                 these == From(i, bound, available, region)
                 before == Upto(i - 1)
                 g == f[i - 1]
      <4>1. f[i] = AssignChunked(g, these, here, size)
        BY <2>3, <2>5, <3>3 DEF NearFrom
      <4>2. these = {a \in All : Keep(a) = i}
        BY DEF From, Keep, All
      <4>3. Upto(i) = before \cup these /\ before \cap these = {}
        <5> HIDE DEF Upto, T, these
        <5> QED
          BY <1>b, <2>3, <2>5, <4>2
      <4>4. these \subseteq Pending(bound, available)
        BY <4>2 DEF All
      <4>5. Serves(here, these, bound, available, region)
        <5>1. \A a \in these : RegionToKeep(bound, available, region, a) = i
          BY DEF From
        <5>2. these # {} => here # {}
          BY <1>4, <2>5, <4>2
        <5> HIDE DEF these
        <5> QED
          BY <5>1, <5>2 DEF Serves
      <4>6. PlanInv(g, before, D, N, bound, available, region, size)
        BY <3>2
      <4> HIDE DEF here, these, before, g, Upto, Keeps, T
      <4>7. PlanInv(AssignChunked(g, these, here, size), before \cup these,
                    D, N, bound, available, region, size)
        BY <4>3, <4>4, <4>5, <4>6, ChunkedKeeps
      <4>8. Keeps(i)
        BY <4>1, <4>3, <4>7 DEF Keeps
      <4> QED
        BY <2>3, <4>8
    <3>4. CASE i \notin Regions
      <4>1. f[i] = f[i - 1]
        BY <2>3, <2>5, <3>4 DEF NearFrom
      <4>2. Upto(i) = Upto(i - 1)
        <5>1. {a \in All : Keep(a) = i} = {}
          BY <1>4, <2>5, <3>4
        <5> HIDE DEF Upto, T
        <5> QED
          BY <1>b, <2>3, <2>5, <5>1
      <4> HIDE DEF Upto
      <4> QED
        BY <2>3, <3>2, <4>1, <4>2
    <3> QED
      BY <3>3, <3>4
  <2> QED
    BY <2>4, <2>5
<1>6. Keeps(H)
  BY <1>2, <1>5
<1>7. Upto(H) = {a \in All : Keep(a) # NoRegion}
  BY <1>1, <1>2, <1>4 DEF NoRegion
<1> QED
  BY <1>3, <1>6, <1>7 DEF Keep, All

-----------------------------------------------------------------------------
(* The whole plan.                                                          *)

LEMMA LoadIs ==
  ASSUME NEW D, NEW N, NEW bound, NEW available, NEW region, NEW size,
         GoodInput(D, N, bound, available, region, size)
  PROVE  PlanInv([plan |-> bound, count |-> Load(bound, available), target |-> NoNode, left |-> 0],
                 {}, D, N, bound, available, region, size)
<1> DEFINE p == [plan |-> bound, count |-> Load(bound, available), target |-> NoNode, left |-> 0]
<1>1. /\ IsFiniteSet(D) /\ bound \in [D -> N \cup {NoNode}] /\ DOMAIN bound = D
  BY DEF GoodInput
<1>2. ASSUME NEW n PROVE Cardinality({a \in D : bound[a] = n}) \in Nat
  <2>1. {a \in D : bound[a] = n} \subseteq D
    OBVIOUS
  <2> QED
    BY <1>1, <2>1, FS_Subset, FS_CardinalityType
<1>3. Load(bound, available) = [n \in available |-> Cardinality({a \in D : bound[a] = n})]
  BY <1>1 DEF Load
<1>4. Load(bound, available) \in [available -> Nat]
  BY <1>2, <1>3
<1>5. \A n \in available : Load(bound, available)[n] = Cardinality({a \in D : bound[a] = n})
  BY <1>3
<1>6. p \in Rows(D, N, available)
  BY <1>1, <1>4 DEF Rows, NoNode
<1>7. p.plan = bound /\ p.count = Load(bound, available) /\ p.left = 0
  OBVIOUS
<1> HIDE DEF p
<1>8. KeepsOthers(p, {}, D, bound) /\ PlacesNear(p, {}, bound, available, region)
  BY <1>7 DEF KeepsOthers, PlacesNear
<1>9. CountsAll(p, D, available)
  BY <1>5, <1>7 DEF CountsAll
<1>10. StaysEven(p, {}, available, region, size)
  BY <1>7 DEF StaysEven, Receives
<1> QED
  BY <1>6, <1>8, <1>9, <1>10 DEF PlanInv, p

LEMMA AllServe ==
  ASSUME NEW D, NEW N, NEW bound, NEW available, NEW region, NEW size,
         GoodInput(D, N, bound, available, region, size), available # {}
  PROVE  Serves(available, From(NoRegion, bound, available, region), bound, available, region)
BY DEF Serves, From

\* What a plan from good input promises: plan is the result of Plan.
Promises(plan, D, bound, available, region, size) ==
  /\ \A a \in D :
       /\ bound[a] \in available => plan[a] = bound[a]
       /\ bound[a] \notin available /\ available = {} => plan[a] = NoNode
       /\ bound[a] \notin available /\ available # {} => plan[a] \in available
  /\ \A a \in Pending(bound, available) :
       RegionToKeep(bound, available, region, a) # NoRegion
         => region[plan[a]] = RegionToKeep(bound, available, region, a)
  /\ \A n, m \in available :
       ((\E a \in D : plan[a] = n /\ bound[a] # n) /\ region[n] = region[m])
         => Cardinality({a \in D : plan[a] = n}) <= Cardinality({a \in D : plan[a] = m}) + size

LEMMA PlanSettles ==
  ASSUME NEW D, NEW N, NEW bound, NEW available, NEW region, NEW size,
         GoodInput(D, N, bound, available, region, size)
  PROVE  /\ Plan(bound, available, region, size) \in [D -> N \cup {NoNode}]
         /\ Promises(Plan(bound, available, region, size), D, bound, available, region, size)
<1> DEFINE result == Plan(bound, available, region, size)
<1>1. /\ bound \in [D -> N \cup {NoNode}] /\ DOMAIN bound = D /\ available \subseteq N
  BY DEF GoodInput
<1>2. CASE available = {}
  <2>1. result = [a \in D |-> NoNode]
    BY <1>1, <1>2 DEF Plan
  <2>2. result \in [D -> N \cup {NoNode}] /\ \A a \in D : result[a] = NoNode
    BY <2>1
  <2> HIDE DEF result
  <2>3. Promises(result, D, bound, available, region, size)
    <3>1. \A a \in Pending(bound, available) : RegionToKeep(bound, available, region, a) = NoRegion
      BY <1>2 DEF RegionToKeep
    <3> QED
      BY <1>2, <2>2, <3>1 DEF Promises
  <2> QED
    BY <2>2, <2>3 DEF result
<1>3. CASE available # {}
  <2> DEFINE start == [plan |-> bound, count |-> Load(bound, available), target |-> NoNode, left |-> 0]
             near  == AssignNear(start, bound, available, region, size)
             rest  == From(NoRegion, bound, available, region)
             last  == AssignChunked(near, rest, available, size)
             kept  == {a \in Pending(bound, available) :
                         RegionToKeep(bound, available, region, a) # NoRegion}
             all   == Pending(bound, available)
  <2>1. result = last.plan
    BY <1>3 DEF Plan
  <2>2. PlanInv(start, {}, D, N, bound, available, region, size)
    BY LoadIs
  <2> HIDE DEF start
  <2>3. PlanInv(near, kept, D, N, bound, available, region, size)
    BY <2>2, NearKeeps
  <2>4. Serves(available, rest, bound, available, region)
    BY <1>3, AllServe
  <2>5. kept \cup rest = all /\ kept \cap rest = {} /\ rest \subseteq Pending(bound, available)
    BY DEF From
  <2> HIDE DEF near, rest, kept
  <2>6. PlanInv(last, kept \cup rest, D, N, bound, available, region, size)
    BY <2>3, <2>4, <2>5, ChunkedKeeps
  <2> HIDE DEF last, all
  <2>7. PlanInv(last, all, D, N, bound, available, region, size)
    BY <2>5, <2>6
  <2>8. last \in Rows(D, N, available) /\ last.left \in Nat /\ last.target \in Nat
        /\ last.plan \in [D -> N \cup {NoNode}] /\ last.count \in [available -> Nat]
    BY <2>7 DEF PlanInv, Rows
  <2>9. ASSUME NEW a \in D
        PROVE  /\ bound[a] \in available => last.plan[a] = bound[a]
               /\ bound[a] \notin available => last.plan[a] \in available
    <3>1. bound[a] \in available => a \notin all
      BY DEF all, Pending
    <3>2. bound[a] \notin available => a \in all
      BY <1>1 DEF all, Pending
    <3> QED
      BY <2>7, <3>1, <3>2 DEF PlanInv, KeepsOthers, PlacesNear
  <2>10. ASSUME NEW a \in all, RegionToKeep(bound, available, region, a) # NoRegion
         PROVE  region[last.plan[a]] = RegionToKeep(bound, available, region, a)
    BY <2>7, <2>10 DEF PlanInv, PlacesNear
  <2>11. ASSUME NEW n \in available, NEW m \in available,
                \E a \in D : last.plan[a] = n /\ bound[a] # n, region[n] = region[m]
         PROVE  Cardinality({a \in D : last.plan[a] = n})
                  <= Cardinality({a \in D : last.plan[a] = m}) + size
    <3>1. PICK a \in D : last.plan[a] = n /\ bound[a] # n
      BY <2>11
    <3>2. a \in all
      BY <1>1, <2>9, <3>1 DEF all, Pending
    <3>3. Receives(last, all, n)
      BY <3>1, <3>2 DEF Receives
    <3>4. last.count[n] + Room(last, n) <= last.count[m] + size
      BY <2>7, <2>11, <3>3 DEF PlanInv, StaysEven
    <3>5. last.count[n] \in Nat /\ last.count[m] \in Nat /\ Room(last, n) \in Nat /\ size \in Nat
      BY <2>8 DEF Room, GoodInput
    <3>6. last.count[n] <= last.count[m] + size
      BY <3>4, <3>5
    <3>7. last.count[n] = Cardinality({b \in D : last.plan[b] = n})
          /\ last.count[m] = Cardinality({b \in D : last.plan[b] = m})
      BY <2>7 DEF PlanInv, CountsAll
    <3> QED
      BY <3>6, <3>7
  <2>12. Promises(last.plan, D, bound, available, region, size)
    BY <1>3, <2>9, <2>10, <2>11 DEF Promises, all
  <2> QED
    BY <2>1, <2>8, <2>12
<1> QED
  BY <1>2, <1>3

-----------------------------------------------------------------------------
(* The calls.                                                               *)

IInputs == input \in Inputs
ResultInv == output = NotPlanned \/ output = Plan(input.bound, input.available, input.region, input.block)

LEMMA InputsAreGood ==
  ASSUME NEW call \in Inputs
  PROVE  GoodInput(PlanAccounts, PlanNodes, call.bound, call.available, call.region, call.block)
BY PlanAssumption DEF Inputs, GoodInput

PlanInvariant == IInputs /\ ResultInv

LEMMA PlanInitInv == PlanInit => PlanInvariant
BY DEF PlanInit, PlanInvariant, IInputs, ResultInv

LEMMA PlanStep == PlanInvariant /\ [PlanNext]_planVars => PlanInvariant'
<1> SUFFICES ASSUME PlanInvariant, [PlanNext]_planVars PROVE PlanInvariant'
  OBVIOUS
<1>1. CASE Compute
  BY <1>1 DEF Compute, PlanInvariant, IInputs, ResultInv
<1>2. CASE CallAgain
  <2>1. PICK open \in SUBSET PlanNodes :
          input' = [input EXCEPT !.bound = output, !.available = open]
    BY <1>2 DEF CallAgain
  <2>2. output = Plan(input.bound, input.available, input.region, input.block)
    BY <1>2 DEF CallAgain, PlanInvariant, ResultInv
  <2>3. input \in Inputs
    BY DEF PlanInvariant, IInputs
  <2>4. output \in [PlanAccounts -> PlanNodes \cup {NoNode}]
    BY <2>2, <2>3, InputsAreGood, PlanSettles
  <2>5. input' \in Inputs
    BY <2>1, <2>3, <2>4 DEF Inputs
  <2>6. output' = NotPlanned
    BY <1>2 DEF CallAgain
  <2> QED
    BY <2>5, <2>6 DEF PlanInvariant, IInputs, ResultInv
<1>3. CASE UNCHANGED planVars
  BY <1>3 DEF planVars, PlanInvariant, IInputs, ResultInv
<1> QED
  BY <1>1, <1>2, <1>3 DEF PlanNext

LEMMA PlanInvSound == PlanInvariant => PlanIsSound
<1> SUFFICES ASSUME PlanInvariant, output # NotPlanned
             PROVE  Settled /\ StaysNear /\ Balanced /\ Stable
  BY DEF PlanIsSound
<1> DEFINE D == PlanAccounts
           bound == input.bound
           available == input.available
           region == input.region
           size == input.block
<1>1. GoodInput(D, PlanNodes, bound, available, region, size)
  BY InputsAreGood DEF PlanInvariant, IInputs
<1>2. output = Plan(bound, available, region, size)
  BY DEF PlanInvariant, ResultInv
<1>3. /\ output \in [D -> PlanNodes \cup {NoNode}]
      /\ Promises(output, D, bound, available, region, size)
  <2> HIDE DEF D, bound, available, region, size
  <2> QED
    BY <1>1, <1>2, PlanSettles
<1>4. DOMAIN bound = D
  BY <1>1 DEF GoodInput
<1>5. Settled
  BY <1>3 DEF Settled, Promises
<1>6. StaysNear
  BY <1>3 DEF StaysNear, Promises
<1>7. Balanced
  <2>1. SUFFICES ASSUME NEW n \in available, NEW m \in available,
                        Newcomers(n) # {}, region[n] = region[m]
                 PROVE  Total(n) <= Total(m) + size
    BY DEF Balanced
  <2>2. \E a \in D : output[a] = n /\ bound[a] # n
    BY <2>1 DEF Newcomers
  <2>3. Cardinality({a \in D : output[a] = n}) <= Cardinality({a \in D : output[a] = m}) + size
    BY <1>3, <2>1, <2>2 DEF Promises
  <2> QED
    BY <2>3 DEF Total
<1>8. Stable
  <2> DEFINE again == Plan(output, available, region, size)
  <2>1. GoodInput(D, PlanNodes, output, available, region, size)
    BY <1>1, <1>3 DEF GoodInput
  <2>2. /\ again \in [D -> PlanNodes \cup {NoNode}]
        /\ Promises(again, D, output, available, region, size)
    <3> HIDE DEF D, available, region, size
    <3> QED
      BY <2>1, PlanSettles
  <2> HIDE DEF again
  <2>3. ASSUME NEW a \in D PROVE again[a] = output[a]
    BY <1>3, <2>2 DEF Promises
  <2>4. again = output
    BY <1>3, <2>2, <2>3
  <2> QED
    BY <2>4 DEF Stable, again
<1> QED
  BY <1>5, <1>6, <1>7, <1>8

\* Whatever the bindings, the available nodes, their regions and the block
\* size, a plan keeps who is well placed, places the others on available nodes
\* of their region, fills nodes evenly, and is its own plan
\* (planStableIpAssignments).
THEOREM PlansAreSound == PlanInit /\ [][PlanNext]_planVars => []PlanIsSound
BY PlanInitInv, PlanStep, PlanInvSound, PTL

-----------------------------------------------------------------------------
(* The pool.                                                                *)

Bindings == [Accounts -> Nodes \cup {NoNode}]
RegionMaps == [Nodes -> Regions \cup {NoRegion}]

Reading ==
  [read   : SUBSET {"accounts", "nodes"},
   bound  : Bindings \cup {<<>>},
   open   : SUBSET Nodes,
   region : RegionMaps \cup {<<>>},
   size   : BlockSizes \cup {0}]

(* The rows that the planner reads.                                         *)
RowTypes ==
  /\ binding \in Bindings
  /\ block \in BlockSizes

(* One planner at a time, and only it has read anything.                    *)
OnePlanner ==
  /\ planning \subseteq Actors
  /\ \A x, y \in planning : x = y
  /\ \A x \in Actors : seen[x].read # {} => x \in planning

(* What a planner has read is what a plan can be made from.                 *)
SeenTypes ==
  /\ seen \in [Actors -> Reading] /\ \A x \in Actors :
       /\ "accounts" \in seen[x].read => seen[x].bound \in Bindings
       /\ "nodes" \in seen[x].read =>
            seen[x].region \in RegionMaps /\ seen[x].size \in BlockSizes

(* Nobody has moved an account since the planner read it: at most its node  *)
(* was deleted.                                                             *)
BoundIsFresh ==
  \A x \in Actors, a \in Accounts :
    "accounts" \in seen[x].read => binding[a] \in {seen[x].bound[a], NoNode}

PoolInv == RowTypes /\ OnePlanner /\ SeenTypes /\ BoundIsFresh

LEMMA PoolInitInv == PoolInit => PoolInv
<1> SUFFICES ASSUME PoolInit PROVE PoolInv
  OBVIOUS
<1>1. NotRead \in Reading /\ NotRead.read = {}
  BY DEF NotRead, Reading
<1>2. seen = [x \in Actors |-> NotRead] /\ planning = {}
  BY DEF PoolInit
<1>3. RowTypes
  BY DEF PoolInit, RowTypes, Bindings
<1>4. \A x \in Actors : seen[x].read = {}
  BY <1>1, <1>2
<1> QED
  BY <1>1, <1>2, <1>3, <1>4 DEF PoolInv, OnePlanner, SeenTypes, BoundIsFresh

\* Steps that plan nothing and bind nothing.
LEMMA ElsewhereKeeps ==
  ASSUME PoolInv, UNCHANGED <<binding, planning, seen>>, block' \in BlockSizes
  PROVE  PoolInv'
BY DEF PoolInv, RowTypes, OnePlanner, SeenTypes, BoundIsFresh

LEMMA ForgetsAll ==
  ASSUME PoolInv, seen' = [x \in Actors |-> NotRead], planning' = {},
         binding' = binding, block' = block
  PROVE  PoolInv'
<1>1. NotRead \in Reading /\ NotRead.read = {}
  BY DEF NotRead, Reading
<1>2. \A x \in Actors : seen'[x].read = {}
  BY <1>1
<1>3. RowTypes'
  BY DEF PoolInv, RowTypes
<1> QED
  BY <1>1, <1>2, <1>3 DEF PoolInv, OnePlanner, SeenTypes, BoundIsFresh

LEMMA DeleteKeeps == PoolInv /\ Delete => PoolInv'
<1> SUFFICES ASSUME PoolInv, Delete PROVE PoolInv'
  OBVIOUS
<1>1. PICK n \in Nodes :
        binding' = [a \in Accounts |-> IF binding[a] = n THEN NoNode ELSE binding[a]]
  BY DEF Delete
<1>2. UNCHANGED <<block, planning, seen>>
  BY DEF Delete
<1>3. binding \in Bindings
  BY DEF PoolInv, RowTypes
<1>4. binding' \in Bindings /\ \A a \in Accounts : binding'[a] \in {binding[a], NoNode}
  BY <1>1, <1>3 DEF Bindings
<1>5. RowTypes'
  BY <1>2, <1>4 DEF PoolInv, RowTypes
<1>6. BoundIsFresh'
  BY <1>2, <1>4 DEF PoolInv, BoundIsFresh
<1> QED
  BY <1>2, <1>5, <1>6 DEF PoolInv, OnePlanner, SeenTypes

LEMMA LockKeeps ==
  ASSUME NEW x \in Actors, PoolInv, Lock(x)
  PROVE  PoolInv'
<1>1. planning' = {x} /\ UNCHANGED <<binding, block, seen>>
  BY DEF Lock, MayLock
<1>2. OnePlanner'
  BY <1>1 DEF Lock, MayLock, PoolInv, OnePlanner
<1> QED
  BY <1>1, <1>2 DEF PoolInv, RowTypes, SeenTypes, BoundIsFresh

LEMMA ReadAccountsKeeps ==
  ASSUME NEW x \in Actors, PoolInv, ReadAccounts(x)
  PROVE  PoolInv'
<1>1. /\ x \in planning /\ UNCHANGED <<binding, block, planning>>
      /\ seen' = [seen EXCEPT ![x].read = @ \cup {"accounts"}, ![x].bound = binding]
  BY DEF ReadAccounts
<1>2. seen \in [Actors -> Reading] /\ binding \in Bindings
  BY DEF PoolInv, SeenTypes, RowTypes
<1> DEFINE next == [seen[x] EXCEPT !.read = @ \cup {"accounts"}, !.bound = binding]
<1>3. /\ next \in Reading
      /\ next.read = seen[x].read \cup {"accounts"} /\ next.bound = binding
      /\ next.region = seen[x].region /\ next.size = seen[x].size
  BY <1>2 DEF Reading
<1>4. seen' = [seen EXCEPT ![x] = next]
  BY <1>1, <1>2
<1> HIDE DEF next
<1>5. SeenTypes'
  <2>1. ASSUME NEW y \in Actors
        PROVE  /\ "accounts" \in seen'[y].read => seen'[y].bound \in Bindings
               /\ "nodes" \in seen'[y].read =>
                    seen'[y].region \in RegionMaps /\ seen'[y].size \in BlockSizes
    BY <1>2, <1>3, <1>4 DEF PoolInv, SeenTypes
  <2>2. seen' \in [Actors -> Reading]
    BY <1>2, <1>3, <1>4
  <2> QED
    BY <2>1, <2>2 DEF SeenTypes
<1>6. OnePlanner'
  BY <1>1, <1>2, <1>3, <1>4 DEF PoolInv, OnePlanner
<1>7. BoundIsFresh'
  BY <1>1, <1>2, <1>3, <1>4 DEF PoolInv, BoundIsFresh
<1>8. RowTypes'
  BY <1>1 DEF PoolInv, RowTypes
<1> QED
  BY <1>5, <1>6, <1>7, <1>8 DEF PoolInv

LEMMA ReadNodesKeeps ==
  ASSUME NEW x \in Actors, PoolInv, ReadNodes(x)
  PROVE  PoolInv'
<1> DEFINE open == {n \in Nodes : Available(n)}
           region == [n \in Nodes |-> RegionOf(n)]
<1>1. /\ x \in planning /\ UNCHANGED <<binding, block, planning>>
      /\ seen' = [seen EXCEPT ![x].read = @ \cup {"nodes"}, ![x].open = open,
                              ![x].region = region, ![x].size = block]
  BY DEF ReadNodes
<1>2. seen \in [Actors -> Reading] /\ block \in BlockSizes
  BY DEF PoolInv, SeenTypes, RowTypes
<1>3. open \in SUBSET Nodes /\ region \in RegionMaps
  BY PoolAssumption DEF RegionMaps, RegionOf
<1> HIDE DEF open, region
<1> DEFINE next == [seen[x] EXCEPT !.read = @ \cup {"nodes"}, !.open = open,
                                   !.region = region, !.size = block]
<1>4. /\ next \in Reading
      /\ next.read = seen[x].read \cup {"nodes"} /\ next.bound = seen[x].bound
      /\ next.region = region /\ next.size = block
  BY <1>2, <1>3 DEF Reading
<1>5. seen' = [seen EXCEPT ![x] = next]
  BY <1>1, <1>2
<1> HIDE DEF next
<1>6. SeenTypes'
  <2>1. ASSUME NEW y \in Actors
        PROVE  /\ "accounts" \in seen'[y].read => seen'[y].bound \in Bindings
               /\ "nodes" \in seen'[y].read =>
                    seen'[y].region \in RegionMaps /\ seen'[y].size \in BlockSizes
    BY <1>2, <1>3, <1>4, <1>5 DEF PoolInv, SeenTypes
  <2>2. seen' \in [Actors -> Reading]
    BY <1>2, <1>4, <1>5
  <2> QED
    BY <2>1, <2>2 DEF SeenTypes
<1>7. OnePlanner'
  BY <1>1, <1>2, <1>4, <1>5 DEF PoolInv, OnePlanner
<1>8. BoundIsFresh'
  BY <1>1, <1>2, <1>4, <1>5 DEF PoolInv, BoundIsFresh
<1>9. RowTypes'
  BY <1>1 DEF PoolInv, RowTypes
<1> QED
  BY <1>6, <1>7, <1>8, <1>9 DEF PoolInv

LEMMA ReadIsPlannable ==
  ASSUME NEW x \in Actors, PoolInv, seen[x].read = {"accounts", "nodes"}
  PROVE  GoodInput(Accounts, Nodes, seen[x].bound, seen[x].open, seen[x].region, seen[x].size)
<1>1. /\ seen[x].bound \in Bindings /\ seen[x].region \in RegionMaps
      /\ seen[x].size \in BlockSizes /\ seen[x].open \in SUBSET Nodes
  BY DEF PoolInv, SeenTypes, Reading
<1> QED
  BY <1>1, PoolAssumption, PlanAssumption DEF GoodInput, Bindings, RegionMaps

LEMMA WriteKeeps ==
  ASSUME NEW x \in Actors, PoolInv, WritePlan(x)
  PROVE  /\ PoolInv'
         /\ \A a \in Accounts, n \in Nodes :
              Leaves(a, n) => x \in planning /\ n \notin seen[x].open
<1>1. /\ x \in planning /\ seen[x].read = {"accounts", "nodes"}
      /\ \/ binding' = [a \in Accounts |-> IF a \in Changes(x) THEN Planned(x)[a] ELSE binding[a]]
         \/ binding' = binding
      /\ planning' = planning \ {x}
      /\ seen' = [seen EXCEPT ![x] = NotRead]
      /\ block' = block
  BY DEF WritePlan, PlanEnds
<1> DEFINE plan == Planned(x)
<1>2. plan \in Bindings /\ \A a \in Accounts : seen[x].bound[a] \in seen[x].open => plan[a] = seen[x].bound[a]
  <2>1. GoodInput(Accounts, Nodes, seen[x].bound, seen[x].open, seen[x].region, seen[x].size)
    BY <1>1, ReadIsPlannable
  <2>2. /\ plan \in [Accounts -> Nodes \cup {NoNode}]
        /\ Promises(plan, Accounts, seen[x].bound, seen[x].open, seen[x].region, seen[x].size)
    BY <2>1, PlanSettles DEF Planned
  <2> QED
    BY <2>2 DEF Promises, Bindings
<1>3. Changes(x) = {a \in Accounts : plan[a] # seen[x].bound[a]}
  BY DEF Changes
<1> HIDE DEF plan
<1>4. binding \in Bindings /\ \A a \in Accounts : binding[a] \in {seen[x].bound[a], NoNode}
  BY <1>1 DEF PoolInv, RowTypes, BoundIsFresh
<1>5. binding' \in Bindings
  BY <1>1, <1>2, <1>4 DEF Bindings, plan
<1>6. NotRead \in Reading /\ NotRead.read = {}
  BY DEF NotRead, Reading
<1>7. /\ seen \in [Actors -> Reading] /\ \A y \in Actors : y # x => seen[y].read = {}
  BY <1>1 DEF PoolInv, SeenTypes, OnePlanner
<1>8. \A y \in Actors : seen'[y].read = {}
  BY <1>1, <1>6, <1>7
<1>9. PoolInv'
  <2>1. RowTypes'
    BY <1>1, <1>5 DEF PoolInv, RowTypes
  <2>2. OnePlanner'
    BY <1>1, <1>8 DEF PoolInv, OnePlanner
  <2>3. SeenTypes'
    BY <1>1, <1>6, <1>7, <1>8 DEF SeenTypes
  <2>4. BoundIsFresh'
    BY <1>8 DEF BoundIsFresh
  <2> QED
    BY <2>1, <2>2, <2>3, <2>4 DEF PoolInv
<1>10. ASSUME NEW a \in Accounts, NEW n \in Nodes, Leaves(a, n)
       PROVE  n \notin seen[x].open
  <2>1. n # NoNode
    BY PoolAssumption DEF NoNode
  <2>2. seen[x].bound[a] = n /\ binding'[a] # n /\ binding[a] = n
    BY <1>4, <1>10, <2>1 DEF Leaves
  <2>3. a \in Changes(x)
    BY <1>1, <2>2
  <2> QED
    BY <1>2, <1>3, <2>2, <2>3
<1> QED
  BY <1>1, <1>9, <1>10

LEMMA PersistKeeps == PoolInv /\ Persist => PoolInv'
<1> SUFFICES ASSUME PoolInv, Persist PROVE PoolInv'
  OBVIOUS
<1>1. UNCHANGED <<binding, block, planning, seen>>
  BY DEF Persist
<1> QED
  BY <1>1, ElsewhereKeeps DEF PoolInv, RowTypes

(* ip_pool is a table by id.                                                *)
NodeTable == node = [n \in Nodes |-> node[n]]

LEMMA EditKeepsTable ==
  ASSUME NodeTable, NEW n \in Nodes, NEW row, node' = [node EXCEPT ![n] = row]
  PROVE  NodeTable'
BY DEF NodeTable

LEMMA TableStep == NodeTable /\ [PoolNext]_poolVars => NodeTable'
<1> SUFFICES ASSUME NodeTable, [PoolNext]_poolVars PROVE NodeTable'
  OBVIOUS
<1>1. ASSUME node' = node PROVE NodeTable'
  BY <1>1 DEF NodeTable
<1>2. CASE Create
  <2>1. PICK new \in SUBSET Nodes : node' = [n \in Nodes |-> IF n \in new THEN Fresh ELSE node[n]]
    BY <1>2 DEF Create
  <2> QED
    BY <2>1 DEF NodeTable
<1>3. CASE Patch
  <2>1. PICK n \in Nodes : node' = Toggle(n) \/ node' = EditUrl(n)
    BY <1>3 DEF Patch
  <2> QED
    BY <2>1 DEF NodeTable, Toggle, EditUrl
<1>4. CASE Delete
  <2>1. PICK n \in Nodes : node' = [node EXCEPT ![n] = NoRow("deleted")]
    BY <1>4 DEF Delete
  <2> QED
    BY <2>1, EditKeepsTable
<1>5. CASE Record
  <2>1. node' = node \/ node' = [node EXCEPT ![probe.id].health = "healthy"]
    BY <1>5 DEF Record
  <2> QED
    BY <1>1, <2>1 DEF NodeTable
<1>6. CASE Persist
  <2>1. PICK n, health : node' = node \/ node' = [node EXCEPT ![n].health = health]
    BY <1>6 DEF Persist
  <2> QED
    BY <1>1, <2>1 DEF NodeTable
<1>7. CASE SaveSettings \/ Probe \/ RoundStarts \/ Dies \/ Fluctuate
           \/ (\E a \in Accounts : RefreshAsks(a))
           \/ (\E x \in Actors : Lock(x) \/ ReadAccounts(x) \/ ReadNodes(x) \/ WritePlan(x))
           \/ UNCHANGED poolVars
  BY <1>1, <1>7 DEF SaveSettings, Probe, RoundStarts, Dies, Fluctuate, RefreshAsks,
                    Lock, ReadAccounts, ReadNodes, WritePlan, PlanEnds, poolVars
<1> QED
  BY <1>2, <1>3, <1>4, <1>5, <1>6, <1>7 DEF PoolNext

LEMMA PoolStep ==
  ASSUME PoolInv, NodeTable, [PoolNext]_poolVars
  PROVE  /\ PoolInv'
         /\ \A a \in Accounts, n \in Nodes :
              (Leaves(a, n) /\ Exists(n)') => \E x \in planning : n \notin seen[x].open
<1> DEFINE Stays == binding' = binding
           Moves == \A a \in Accounts, n \in Nodes :
                      (Leaves(a, n) /\ Exists(n)') => \E x \in planning : n \notin seen[x].open
<1>0. block \in BlockSizes
  BY DEF PoolInv, RowTypes
<1>1. Stays => Moves
  BY DEF Leaves
<1>2. CASE Create \/ Patch \/ SaveSettings \/ Probe \/ Record \/ RoundStarts \/ Fluctuate
           \/ (\E a \in Accounts : RefreshAsks(a)) \/ UNCHANGED poolVars
  <2>1. UNCHANGED <<binding, planning, seen>> /\ block' \in BlockSizes
    BY <1>0, <1>2 DEF Create, Patch, SaveSettings, Probe, Record, RoundStarts, Fluctuate,
                      RefreshAsks, poolVars
  <2> QED
    BY <1>1, <2>1, ElsewhereKeeps
<1>3. CASE Persist
  <2>1. Stays
    BY <1>3 DEF Persist
  <2> QED
    BY <1>1, <1>3, <2>1, PersistKeeps
<1>4. CASE Delete
  <2>1. PICK n \in Nodes :
          /\ node' = [node EXCEPT ![n] = NoRow("deleted")]
          /\ binding' = [a \in Accounts |-> IF binding[a] = n THEN NoNode ELSE binding[a]]
    BY <1>4 DEF Delete
  <2>2. Moves
    <3>1. SUFFICES ASSUME NEW a \in Accounts, NEW m \in Nodes, Leaves(a, m)
                   PROVE  ~ Exists(m)'
      OBVIOUS
    <3>2. m = n
      BY <2>1, <3>1 DEF Leaves
    <3> QED
      BY <2>1, <3>2 DEF NodeTable, Exists, NoRow
  <2> QED
    BY <1>4, <2>2, DeleteKeeps
<1>5. CASE Dies
  <2>1. /\ seen' = [x \in Actors |-> NotRead] /\ planning' = {}
        /\ binding' = binding /\ block' = block
    BY <1>5 DEF Dies
  <2> QED
    BY <1>1, <2>1, ForgetsAll
<1>6. ASSUME NEW x \in Actors, Lock(x) PROVE PoolInv' /\ Moves
  <2>1. Stays
    BY <1>6 DEF Lock
  <2> QED
    BY <1>1, <1>6, <2>1, LockKeeps
<1>7. ASSUME NEW x \in Actors, ReadAccounts(x) PROVE PoolInv' /\ Moves
  <2>1. Stays
    BY <1>7 DEF ReadAccounts
  <2> QED
    BY <1>1, <1>7, <2>1, ReadAccountsKeeps
<1>8. ASSUME NEW x \in Actors, ReadNodes(x) PROVE PoolInv' /\ Moves
  <2>1. Stays
    BY <1>8 DEF ReadNodes
  <2> QED
    BY <1>1, <1>8, <2>1, ReadNodesKeeps
<1>9. ASSUME NEW x \in Actors, WritePlan(x) PROVE PoolInv' /\ Moves
  BY <1>9, WriteKeeps
<1> QED
  BY <1>2, <1>3, <1>4, <1>5, <1>6, <1>7, <1>8, <1>9 DEF PoolNext

\* However plans, edits, deletions, health rounds and stops interleave, an
\* account leaves a node that stays only by a plan that saw it closed or down
\* (ensureStableIpAssignments).
THEOREM PlacementsStay == PoolInit /\ [][PoolNext]_poolVars => PlacementIsStable
<1>1. PoolInit => PoolInv /\ NodeTable
  <2>1. PoolInit => NodeTable
    BY DEF PoolInit, NodeTable
  <2> QED
    BY <2>1, PoolInitInv
<1>2. PoolInv /\ NodeTable /\ [PoolNext]_poolVars => PoolInv' /\ NodeTable'
  BY PoolStep, TableStep
<1>3. PoolInv /\ NodeTable /\ [PoolNext]_poolVars
        => [\A a \in Accounts, n \in Nodes :
              (Leaves(a, n) /\ Exists(n)') => \E x \in planning : n \notin seen[x].open]_poolVars
  BY PoolStep
<1> QED
  BY <1>1, <1>2, <1>3, PTL DEF PlacementIsStable
=============================================================================
