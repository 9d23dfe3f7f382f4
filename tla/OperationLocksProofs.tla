------------------------ MODULE OperationLocksProofs ------------------------
(***************************************************************************)
(* Proofs about OperationLocks, for every number of instances, accounts,   *)
(* operations and connections: exclusion under the locks and within the    *)
(* chain of an account, and that operations never wait in a circle.        *)
(***************************************************************************)
EXTENDS OperationLocks, SequenceTheorems, WellFoundedInduction, TLAPS

-----------------------------------------------------------------------------
(* Facts about the constants and about the order of keys.                  *)

LEMMA KindFacts ==
    ASSUME NEW o \in Ops
    PROVE  /\ InstanceOf[o] \in Instances /\ KindOf[o] \in Kinds
           /\ KeysOf[o] \subseteq Keys /\ KeysOf[o] # {}
           /\ Queued(o) => AccountOf(o) \in Accounts /\ KeysOf[o] = {AccountOf(o)}
           /\ Assigns(o) => AssignmentKey \notin KeysOf[o]
           /\ Keys \subseteq Nat /\ AssignmentKey \in Keys
<1>1. /\ InstanceOf[o] \in Instances /\ KindOf[o] \in Kinds
      /\ KeysOf[o] \subseteq Keys /\ KeysOf[o] # {}
    BY LockAssumption
<1>2. Keys \subseteq Nat /\ AssignmentKey \in Keys
    BY LockAssumption DEF Keys
<1>3. ASSUME Queued(o)
      PROVE  AccountOf(o) \in Accounts /\ KeysOf[o] = {AccountOf(o)}
  <2>1. PICK a \in Accounts : KeysOf[o] = {a}
      BY <1>3, LockAssumption DEF Queued
  <2> QED
      BY <2>1 DEF AccountOf
<1>4. ASSUME Assigns(o) PROVE AssignmentKey \notin KeysOf[o]
  <2>1. \E k \in TaskNames \cup Accounts : KeysOf[o] = {k}
      BY <1>4, LockAssumption DEF Assigns
  <2>2. \A k \in TaskNames \cup Accounts : k \in Nat /\ k < AssignmentKey
      BY LockAssumption
  <2>3. AssignmentKey \in Nat
      BY LockAssumption
  <2> QED
      BY <2>1, <2>2, <2>3
<1> QED
    BY <1>1, <1>2, <1>3, <1>4

\* A set of natural numbers that is not empty has a least element.
LEMMA LeastNumber ==
    ASSUME NEW S \in SUBSET Nat, S # {}
    PROVE  \E m \in S : \A n \in S : m <= n
<1>1. PICK m \in S : \A n \in S : ~ (<<n, m>> \in OpToRel(<, Nat))
    BY NatLessThanWellFounded, WFMin
<1>2. \A n \in S : ~ (n < m)
    BY <1>1 DEF OpToRel
<1> QED
    BY <1>2

\* The next lock is the first of those that are missing.
LEMMA NextKeyFacts ==
    ASSUME NEW o \in Ops, Missing(o) # {}
    PROVE  /\ NextKey(o) \in Missing(o) /\ NextKey(o) \in KeysOf[o] /\ NextKey(o) \in Nat
           /\ \A j \in Missing(o) : NextKey(o) <= j
<1>1. Missing(o) \in SUBSET Nat /\ Missing(o) \subseteq KeysOf[o]
    BY KindFacts DEF Missing
<1>2. \E m \in Missing(o) : \A n \in Missing(o) : m <= n
    BY <1>1, LeastNumber
<1> QED
    BY <1>1, <1>2 DEF NextKey

-----------------------------------------------------------------------------
(* The chains.                                                             *)

\* An operation joins the end of a chain.
LEMMA AppendFacts ==
    ASSUME NEW s \in Seq(Ops), NEW o \in Ops
    PROVE  /\ Append(s, o) \in Seq(Ops)
           /\ InChain(Append(s, o), o)
           /\ \A p : InChain(s, p) => InChain(Append(s, o), p)
           /\ \A p : First(s, p) => First(Append(s, o), p)
           /\ \A i, a : GoodChain(s, i, a) /\ Queued(o) /\ InstanceOf[o] = i /\ KeysOf[o] = {a}
                           => GoodChain(Append(s, o), i, a)
<1>1. /\ Len(s) \in Nat /\ Append(s, o) \in Seq(Ops) /\ Len(Append(s, o)) = Len(s) + 1
      /\ \A n \in 1..Len(s) : Append(s, o)[n] = s[n]
      /\ Append(s, o)[Len(s) + 1] = o
    BY AppendProperties, LenProperties
<1>2. /\ Len(s) + 1 \in 1..Len(Append(s, o))
      /\ \A n \in 1..Len(s) : n \in 1..Len(Append(s, o))
      /\ \A n \in 1..Len(Append(s, o)) : n \in 1..Len(s) \/ n = Len(s) + 1
      /\ Len(s) >= 1 => 1 \in 1..Len(s)
      /\ Len(s) >= 1 => Len(Append(s, o)) >= 1
    BY <1>1
<1> QED
    BY <1>1, <1>2, Zenon DEF GoodChain, InChain, First

\* The first operation of a chain leaves it.
LEMMA TailFacts ==
    ASSUME NEW s \in Seq(Ops), NEW o \in Ops, First(s, o)
    PROVE  /\ Tail(s) \in Seq(Ops)
           /\ \A p : InChain(s, p) /\ p # o => InChain(Tail(s), p)
           /\ \A i, a : GoodChain(s, i, a) => GoodChain(Tail(s), i, a)
<1>1. Len(s) \in Nat /\ Len(s) >= 1 /\ s # <<>> /\ s[1] = o
    BY LenProperties, EmptySeq DEF First
<1>2. /\ Tail(s) \in Seq(Ops) /\ Len(Tail(s)) = Len(s) - 1
      /\ \A n \in 1..Len(Tail(s)) : Tail(s)[n] = s[n + 1]
    BY <1>1, HeadTailProperties
<1>3. /\ \A n \in 1..Len(Tail(s)) : n + 1 \in 1..Len(s)
      /\ \A n \in 1..Len(s) : n = 1 \/ n - 1 \in 1..Len(Tail(s))
      /\ \A n \in 1..Len(s) : n - 1 + 1 = n
    BY <1>1, <1>2
<1>4. ASSUME NEW p, InChain(s, p), p # o PROVE InChain(Tail(s), p)
  <2>1. PICK n \in 1..Len(s) : s[n] = p
      BY <1>4 DEF InChain
  <2>2. n - 1 \in 1..Len(Tail(s))
      BY <1>1, <1>3, <1>4, <2>1
  <2>3. Tail(s)[n - 1] = p
      BY <1>2, <1>3, <2>1, <2>2
  <2> QED
      BY <2>2, <2>3 DEF InChain
<1>5. ASSUME NEW i, NEW a, GoodChain(s, i, a) PROVE GoodChain(Tail(s), i, a)
    BY <1>2, <1>3, <1>5, Zenon DEF GoodChain
<1> QED
    BY <1>2, <1>4, <1>5

\* Steps that leave the chains alone and begin nothing.
LEMMA ChainKept ==
    ASSUME TypeOK, ChainInOrder, UNCHANGED chain,
           \A o \in Ops : at'[o] = "queued" => at[o] = "queued",
           \A o \in Ops : Queued(o) /\ at'[o] \in Begun => at[o] \in Begun
    PROVE  ChainInOrder'
BY Zenon DEF ChainInOrder, ChainOf

\* An operation that was idle joins its chain.
LEMMA ChainEnqueue ==
    ASSUME TypeOK, ChainInOrder, NEW o \in Ops, Queued(o), at[o] = "idle", Enqueue(o)
    PROVE  ChainInOrder'
<1> DEFINE i == InstanceOf[o]
           a == AccountOf(o)
           s == chain[i][a]
<1>1. i \in Instances /\ a \in Accounts /\ KeysOf[o] = {a}
    BY KindFacts
<1>2. s \in Seq(Ops)
    BY <1>1 DEF TypeOK
<1>3. /\ \A j \in Instances, b \in Accounts :
            chain'[j][b] = IF j = i /\ b = a THEN Append(s, o) ELSE chain[j][b]
      /\ \A p \in Ops : at'[p] = IF p = o THEN "queued" ELSE at[p]
    BY <1>1 DEF Enqueue, TypeOK
<1>4. \A p \in Ops : Queued(p) =>
         ChainOf(p)' = IF InstanceOf[p] = i /\ AccountOf(p) = a THEN Append(s, o) ELSE ChainOf(p)
    BY <1>3, KindFacts DEF ChainOf
<1>5. \A p \in Ops : InstanceOf[p] = i /\ AccountOf(p) = a => ChainOf(p) = s
    BY DEF ChainOf
<1> HIDE DEF i, a, s
<1>9. /\ InChain(Append(s, o), o)
      /\ \A p \in Ops : InChain(s, p) => InChain(Append(s, o), p)
      /\ \A p \in Ops : First(s, p) => First(Append(s, o), p)
    BY <1>2, AppendFacts
<1>6. ASSUME NEW j \in Instances, NEW b \in Accounts PROVE GoodChain(chain'[j][b], j, b)
  <2>1. CASE j = i /\ b = a
    <3>1. GoodChain(s, i, a)
        BY <1>1 DEF ChainInOrder, i, a, s
    <3>2. GoodChain(Append(s, o), i, a)
        BY <1>1, <1>2, <3>1, AppendFacts DEF i
    <3> QED BY <1>3, <2>1, <3>2
  <2>2. CASE ~(j = i /\ b = a)
      BY <1>3, <2>2 DEF ChainInOrder
  <2> QED BY <2>1, <2>2
<1>7. ASSUME NEW p \in Ops, at'[p] = "queued" PROVE Queued(p) /\ InChain(ChainOf(p)', p)
  <2>1. CASE p = o
      BY <1>4, <1>9, <2>1 DEF i, a
  <2>2. CASE p # o
    <3>1. Queued(p) /\ InChain(ChainOf(p), p)
        BY <1>3, <1>7, <2>2 DEF ChainInOrder
    <3> QED BY <1>4, <1>5, <1>9, <3>1, Zenon
  <2> QED BY <2>1, <2>2
<1>8. ASSUME NEW p \in Ops, Queued(p), at'[p] \in Begun PROVE First(ChainOf(p)', p)
  <2>1. p # o
      BY <1>3, <1>8 DEF Begun, Inside
  <2>2. First(ChainOf(p), p)
      BY <1>3, <1>8, <2>1 DEF ChainInOrder
  <2> QED BY <1>4, <1>5, <1>8, <1>9, <2>2, Zenon
<1> QED
    BY <1>6, <1>7, <1>8 DEF ChainInOrder

\* The first operation of a chain leaves it; nothing else begins.
LEMMA ChainAdvance ==
    ASSUME TypeOK, ChainInOrder, NEW o \in Ops, at[o] \in Begun, Advance(o),
           at'[o] \in {"idle", "settling"},
           \A p \in Ops : at'[p] = "queued" => at[p] = "queued",
           \A p \in Ops : Queued(p) /\ at'[p] \in Begun => at[p] \in Begun
    PROVE  ChainInOrder'
<1>1. CASE ~Queued(o)
    BY <1>1, ChainKept DEF Advance
<1>2. CASE Queued(o)
  <2> DEFINE i == InstanceOf[o]
             a == AccountOf(o)
             s == chain[i][a]
  <2>1. i \in Instances /\ a \in Accounts /\ KeysOf[o] = {a}
      BY <1>2, KindFacts
  <2>2. s \in Seq(Ops)
      BY <2>1 DEF TypeOK
  <2>3. \A j \in Instances, b \in Accounts :
            chain'[j][b] = IF j = i /\ b = a THEN Tail(s) ELSE chain[j][b]
    <3>1. chain' = [chain EXCEPT ![i][a] = Tail(s)]
        BY <1>2, Zenon DEF Advance
    <3>2. chain \in [Instances -> [Accounts -> Seq(Ops)]]
        BY DEF TypeOK
    <3> HIDE DEF s, i, a
    <3> QED BY <2>1, <3>1, <3>2
  <2>4. \A p \in Ops : Queued(p) =>
           ChainOf(p)' = IF InstanceOf[p] = i /\ AccountOf(p) = a THEN Tail(s) ELSE ChainOf(p)
      BY <2>3, KindFacts DEF ChainOf
  <2>5. \A p \in Ops : InstanceOf[p] = i /\ AccountOf(p) = a => ChainOf(p) = s
      BY DEF ChainOf
  <2>6. First(s, o)
      BY <1>2, <2>5 DEF ChainInOrder
  <2> HIDE DEF i, a, s
  <2>7. ASSUME NEW j \in Instances, NEW b \in Accounts PROVE GoodChain(chain'[j][b], j, b)
    <3>1. GoodChain(chain[j][b], j, b)
        BY DEF ChainInOrder
    <3>2. CASE j = i /\ b = a
        BY <2>2, <2>3, <2>6, <3>1, <3>2, TailFacts DEF s
    <3>3. CASE ~(j = i /\ b = a)
        BY <2>3, <3>1, <3>3
    <3> QED BY <3>2, <3>3
  <2>8. ASSUME NEW p \in Ops, at'[p] = "queued" PROVE Queued(p) /\ InChain(ChainOf(p)', p)
    <3>1. Queued(p) /\ InChain(ChainOf(p), p)
        BY <2>8 DEF ChainInOrder
    <3>2. p # o
        BY <2>8
    <3> QED BY <2>2, <2>4, <2>5, <2>6, <3>1, <3>2, TailFacts
  <2>9. ASSUME NEW p \in Ops, Queued(p), at'[p] \in Begun PROVE First(ChainOf(p)', p)
    <3>1. p # o
        BY <2>9 DEF Begun, Inside
    <3>2. First(ChainOf(p), p)
        BY <2>9 DEF ChainInOrder
    <3>3. ~(InstanceOf[p] = i /\ AccountOf(p) = a)
        BY <2>5, <2>6, <3>1, <3>2 DEF First
    <3> QED BY <2>4, <2>9, <3>2, <3>3
  <2> QED
      BY <2>7, <2>8, <2>9 DEF ChainInOrder
<1> QED
    BY <1>1, <1>2

-----------------------------------------------------------------------------
(* The locks.                                                              *)

\* An operation that a step of another leaves where it is, or rejects.
LEMMA OtherKept ==
    ASSUME NEW p \in Ops, NothingLeft(p), HoldsKeys(p),
           \/ at'[p] = at[p]
           \/ at[p] = "ready" /\ at'[p] = "closing" /\ KindOf[p] = "task",
           conn'[p] = conn[p], nested'[p] = nested[p],
           awaiting'[p] \subseteq awaiting[p] \/ KindOf[p] = "task",
           \A k \in Keys : owner'[k] = p <=> owner[k] = p
    PROVE  NothingLeft(p)' /\ HoldsKeys(p)'
<1>1. KeysOf[p] \subseteq Keys /\ AssignmentKey \in Keys
    BY KindFacts
<1>2. Missing(p)' = Missing(p)
    BY <1>1 DEF Missing
<1>3. NothingLeft(p)'
    BY <1>1 DEF NothingLeft, Inside
<1>4. HoldsKeys(p)'
    BY <1>1, <1>2 DEF HoldsKeys, Inside
<1> QED
    BY <1>3, <1>4

\* An operation that is over and holds nothing.
LEMMA OverFacts ==
    ASSUME NEW p \in Ops, at'[p] = "idle" \/ (at'[p] = "settling" /\ KindOf[p] = "refresh"),
           conn'[p] = "none", nested'[p] = "none",
           awaiting'[p] # {} => KindOf[p] = "task",
           \A k \in Keys : owner'[k] # p
    PROVE  NothingLeft(p)' /\ HoldsKeys(p)'
<1>1. NothingLeft(p)'
    BY DEF NothingLeft
<1>2. HoldsKeys(p)'
    BY DEF HoldsKeys, Inside
<1> QED
    BY <1>1, <1>2

\* The answer of refresh o touches the tasks that wait for it.
LEMMA AnswerFacts ==
    ASSUME TypeOK, KeysHeld, NEW o \in Ops, NEW ok \in BOOLEAN, Answer(o, ok, "idle")
    PROVE  /\ at' \in [Ops -> Places]
           /\ todo' \in [Ops -> SUBSET Accounts]
           /\ awaiting' \in [Ops -> SUBSET Refreshes]
           /\ failures' \in [Ops -> Nat]
           /\ at'[o] = "idle"
           /\ \A p \in Ops \ {o} : \/ at'[p] = at[p]
                                   \/ at[p] = "ready" /\ at'[p] = "closing" /\ KindOf[p] = "task"
           /\ \A p \in Ops : awaiting'[p] \subseteq awaiting[p]
<1> DEFINE rejected(x) == o \in awaiting[x] /\ ~ok /\ at[x] = "ready"
<1>1. /\ at' = [x \in Ops |-> IF x = o THEN "idle"
                              ELSE IF rejected(x) THEN "closing" ELSE at[x]]
      /\ awaiting' = [x \in Ops |-> awaiting[x] \ {o}]
      /\ failures' = [x \in Ops |->
                         IF o \in awaiting[x] /\ ~ok THEN failures[x] + 1 ELSE failures[x]]
      /\ todo' = todo
    BY DEF Answer
<1>2. \A x \in Ops : rejected(x) => at[x] = "ready" /\ KindOf[x] = "task"
    BY DEF KeysHeld, HoldsKeys
<1> HIDE DEF rejected
<1> QED
    BY <1>1, <1>2 DEF TypeOK, Places, Inside

\* However an operation ends, the invariant is kept.
LEMMA EndStep ==
    ASSUME LockInv, NEW o \in Ops, NEW ok \in BOOLEAN, at[o] \in Begun, End(o, ok)
    PROVE  LockInv'
<1> USE DEF LockInv
<1>1. /\ at' \in [Ops -> Places]
      /\ todo' \in [Ops -> SUBSET Accounts]
      /\ awaiting' \in [Ops -> SUBSET Refreshes]
      /\ failures' \in [Ops -> Nat]
      /\ at'[o] = "idle" \/ (at'[o] = "settling" /\ KindOf[o] = "refresh")
      /\ \A p \in Ops \ {o} : \/ at'[p] = at[p]
                              \/ at[p] = "ready" /\ at'[p] = "closing" /\ KindOf[p] = "task"
      /\ \A p \in Ops : awaiting'[p] \subseteq awaiting[p]
  <2>1. CASE KindOf[o] = "refresh" /\ ok
      BY <2>1 DEF End, TypeOK, Places, taskVars
  <2>2. CASE ~(KindOf[o] = "refresh" /\ ok)
    <3>1. Answer(o, ok, "idle")
        BY <2>2 DEF End
    <3> QED BY <3>1, AnswerFacts
  <2> QED BY <2>1, <2>2
<1>2. /\ owner' = [k \in Keys |-> IF owner[k] = o THEN Nobody ELSE owner[k]]
      /\ conn' = [conn EXCEPT ![o] = "none"]
      /\ nested' = [nested EXCEPT ![o] = "none"]
      /\ Advance(o)
    BY DEF End, Unlock
<1>3. ChainInOrder'
  <2>1. \A p \in Ops : at'[p] = "queued" => at[p] = "queued"
      BY <1>1
  <2>2. \A p \in Ops : at'[p] \in Begun => at[p] \in Begun
      BY <1>1 DEF Begun, Inside
  <2> QED BY <1>1, <1>2, <2>1, <2>2, ChainAdvance
<1>4. TypeOK'
  <2>1. chain' \in [Instances -> [Accounts -> Seq(Ops)]]
    <3>1. CASE ~Queued(o)
        BY <1>2, <3>1 DEF Advance, TypeOK
    <3>2. CASE Queued(o)
      <4>1. /\ InstanceOf[o] \in Instances /\ AccountOf(o) \in Accounts
            /\ First(chain[InstanceOf[o]][AccountOf(o)], o)
          BY <3>2, KindFacts, Zenon DEF ChainInOrder, ChainOf
      <4>2. Tail(chain[InstanceOf[o]][AccountOf(o)]) \in Seq(Ops)
          BY <4>1, TailFacts DEF TypeOK
      <4>3. chain' = [chain EXCEPT ![InstanceOf[o]][AccountOf(o)]
                                     = Tail(chain[InstanceOf[o]][AccountOf(o)])]
          BY <1>2, <3>2, Zenon DEF Advance
      <4> QED BY <4>1, <4>2, <4>3 DEF TypeOK
    <3> QED BY <3>1, <3>2
  <2>2. owner' \in [Keys -> Ops \cup {Nobody, Gone}]
      BY <1>2 DEF TypeOK
  <2>3. conn' \in [Ops -> ConnStates] /\ nested' \in [Ops -> ConnStates]
      BY <1>2 DEF TypeOK, ConnStates
  <2> QED BY <1>1, <2>1, <2>2, <2>3 DEF TypeOK
<1>5. ASSUME NEW p \in Ops PROVE NothingLeft(p)' /\ HoldsKeys(p)'
  <2>1. NothingLeft(p) /\ HoldsKeys(p)
      BY DEF NothingLeaks, KeysHeld
  <2>2. CASE p = o
    <3>1. conn'[o] = "none" /\ nested'[o] = "none" /\ \A k \in Keys : owner'[k] # o
        BY <1>2, LockAssumption DEF TypeOK
    <3>2. awaiting'[o] # {} => KindOf[o] = "task"
        BY <1>1, <2>1, <2>2 DEF HoldsKeys
    <3> QED BY <1>1, <2>2, <3>1, <3>2, OverFacts
  <2>3. CASE p # o
    <3>1. conn'[p] = conn[p] /\ nested'[p] = nested[p]
        BY <1>2, <2>3 DEF TypeOK
    <3>2. \A k \in Keys : owner'[k] = p <=> owner[k] = p
        BY <1>2, <2>3, LockAssumption DEF TypeOK
    <3> QED BY <1>1, <2>1, <2>3, <3>1, <3>2, OtherKept
  <2> QED BY <2>2, <2>3
<1> QED
    BY <1>3, <1>4, <1>5 DEF NothingLeaks, KeysHeld

\* A step of one operation that leaves the others as they are.
LEMMA StepOf ==
    ASSUME LockInv, NEW o \in Ops, TypeOK', ChainInOrder', NothingLeft(o)', HoldsKeys(o)',
           \A p \in Ops \ {o} :
              /\ at'[p] = at[p] /\ conn'[p] = conn[p] /\ nested'[p] = nested[p]
              /\ awaiting'[p] = awaiting[p]
              /\ \A k \in Keys : owner'[k] = p <=> owner[k] = p
    PROVE  LockInv'
<1>1. ASSUME NEW p \in Ops \ {o} PROVE NothingLeft(p)' /\ HoldsKeys(p)'
    BY OtherKept DEF LockInv, NothingLeaks, KeysHeld
<1> QED
    BY <1>1 DEF LockInv, NothingLeaks, KeysHeld

\* An operation that has begun is told apart by its place.
LEMMA PlaceFacts ==
    ASSUME NEW o \in Ops, NothingLeft(o)
    PROVE  at[o] \in {"idle", "queued", "connecting", "settling"} =>
              /\ conn[o] = "none" /\ nested[o] = "none"
              /\ \A k \in Keys : owner[k] # o
<1> QED
    BY DEF NothingLeft, Inside

LEMMA EnqueueType ==
    ASSUME TypeOK, NEW o \in Ops, Queued(o), Enqueue(o)
    PROVE  /\ at' \in [Ops -> Places]
           /\ chain' \in [Instances -> [Accounts -> Seq(Ops)]]
           /\ at'[o] = "queued" /\ \A p \in Ops \ {o} : at'[p] = at[p]
<1>1. InstanceOf[o] \in Instances /\ AccountOf(o) \in Accounts
    BY KindFacts
<1>2. Append(chain[InstanceOf[o]][AccountOf(o)], o) \in Seq(Ops)
    BY <1>1, AppendFacts DEF TypeOK
<1> QED
    BY <1>1, <1>2 DEF TypeOK, Enqueue, Places

LEMMA StartStep ==
    ASSUME LockInv, NEW o \in Ops, Start(o)
    PROVE  LockInv'
<1> USE DEF LockInv
<1>1. NothingLeft(o) /\ HoldsKeys(o) /\ at[o] = "idle" /\ TypeOK
    BY DEF NothingLeaks, KeysHeld, Start
<1>2. UNCHANGED <<conn, nested, owner, todo, awaiting, failures>>
    BY DEF Start, taskVars
<1>3. /\ at'[o] \in {"queued", "connecting"} /\ \A p \in Ops \ {o} : at'[p] = at[p]
      /\ at' \in [Ops -> Places] /\ chain' \in [Instances -> [Accounts -> Seq(Ops)]]
      /\ ChainInOrder'
  <2>1. CASE Queued(o)
    <3>1. Enqueue(o)
        BY <2>1 DEF Start
    <3> QED BY <1>1, <2>1, <3>1, EnqueueType, ChainEnqueue
  <2>2. CASE ~Queued(o)
    <3>1. at' = [at EXCEPT ![o] = "connecting"] /\ UNCHANGED chain
        BY <2>2 DEF Start
    <3>2. /\ at'[o] = "connecting" /\ \A p \in Ops \ {o} : at'[p] = at[p]
          /\ at' \in [Ops -> Places]
        BY <1>1, <3>1 DEF TypeOK, Places
    <3>3. ChainInOrder'
      <4>1. \A p \in Ops : at'[p] = "queued" => at[p] = "queued"
          BY <3>2
      <4>2. \A p \in Ops : Queued(p) /\ at'[p] \in Begun => at[p] \in Begun
          BY <2>2, <3>2
      <4> QED BY <3>1, <4>1, <4>2, ChainKept
    <3> QED BY <1>1, <3>1, <3>2, <3>3 DEF TypeOK
  <2> QED BY <2>1, <2>2
<1>4. TypeOK'
    BY <1>1, <1>2, <1>3 DEF TypeOK
<1>5. NothingLeft(o)' /\ HoldsKeys(o)'
  <2>1. NothingLeft(o)'
      BY <1>1, <1>2, <1>3, PlaceFacts DEF NothingLeft
  <2>2. HoldsKeys(o)'
      BY <1>1, <1>2, <1>3 DEF HoldsKeys, Inside
  <2> QED BY <2>1, <2>2
<1> QED
    BY <1>2, <1>3, <1>4, <1>5, StepOf

\* Steps that change neither chains nor what tasks wait for, and keep operations
\* that have begun so.
LEMMA PlainStep ==
    ASSUME LockInv, NEW o \in Ops, at[o] \in Begun, UNCHANGED <<chain, awaiting>>,
           NEW place \in Begun, at' = [at EXCEPT ![o] = place],
           TypeOK', NothingLeft(o)', HoldsKeys(o)',
           \A p \in Ops \ {o} :
              /\ conn'[p] = conn[p] /\ nested'[p] = nested[p]
              /\ \A k \in Keys : owner'[k] = p <=> owner[k] = p
    PROVE  LockInv'
<1>1. at'[o] = place /\ \A p \in Ops \ {o} : at'[p] = at[p]
    BY DEF LockInv, TypeOK
<1>2. \A p \in Ops : at'[p] = "queued" => at[p] = "queued"
    BY <1>1 DEF Begun, Inside
<1>3. \A p \in Ops : Queued(p) /\ at'[p] \in Begun => at[p] \in Begun
    BY <1>1
<1>4. ChainInOrder'
    BY <1>2, <1>3, ChainKept DEF LockInv
<1> QED
    BY <1>1, <1>4, StepOf

LEMMA BeginStep ==
    ASSUME LockInv, NEW o \in Ops, Begin(o)
    PROVE  LockInv'
<1> USE DEF LockInv
<1>1. /\ at[o] = "queued" /\ Head(ChainOf(o)) = o
      /\ at' = [at EXCEPT ![o] = "connecting"]
      /\ UNCHANGED <<chain, conn, nested, owner, todo, awaiting, failures>>
    BY DEF Begin, taskVars
<1>2. at'[o] = "connecting" /\ \A p \in Ops \ {o} : at'[p] = at[p]
    BY <1>1 DEF TypeOK
<1>3. NothingLeft(o) /\ HoldsKeys(o) /\ TypeOK
    BY DEF NothingLeaks, KeysHeld
<1>4. TypeOK'
    BY <1>1, <1>3 DEF TypeOK, Places
<1>5. ChainInOrder'
  <2>1. Queued(o) /\ InChain(ChainOf(o), o) /\ ChainOf(o) \in Seq(Ops)
      BY <1>1, KindFacts DEF ChainInOrder, ChainOf, TypeOK
  <2>2. Len(ChainOf(o)) >= 1 /\ ChainOf(o) # <<>>
      BY <2>1, LenProperties, EmptySeq DEF InChain
  <2>3. First(ChainOf(o), o)
      BY <1>1, <2>1, <2>2 DEF First
  <2>4. \A p \in Ops : ChainOf(p)' = ChainOf(p)
      BY <1>1 DEF ChainOf
  <2>5. ASSUME NEW p \in Ops, Queued(p), at'[p] \in Begun PROVE First(ChainOf(p)', p)
      BY <1>2, <2>3, <2>4, <2>5 DEF ChainInOrder
  <2>6. ASSUME NEW p \in Ops, at'[p] = "queued" PROVE Queued(p) /\ InChain(ChainOf(p)', p)
      BY <1>2, <2>4, <2>6 DEF ChainInOrder
  <2>7. ASSUME NEW i \in Instances, NEW a \in Accounts PROVE GoodChain(chain'[i][a], i, a)
      BY <1>1 DEF ChainInOrder
  <2> QED BY <2>5, <2>6, <2>7 DEF ChainInOrder
<1>6. NothingLeft(o)'
    BY <1>1, <1>2, <1>3, PlaceFacts DEF NothingLeft
<1>7. HoldsKeys(o)'
    BY <1>1, <1>2, <1>3 DEF HoldsKeys, Inside
<1> QED
    BY <1>1, <1>2, <1>4, <1>5, <1>6, <1>7, StepOf

LEMMA SettleStep ==
    ASSUME LockInv, NEW o \in Ops, NEW ok \in BOOLEAN, Settle(o, ok)
    PROVE  LockInv'
<1> USE DEF LockInv
<1>1. at[o] = "settling" /\ Answer(o, ok, "idle") /\ UNCHANGED <<chain, conn, nested, owner>>
    BY DEF Settle
<1>2. /\ at' \in [Ops -> Places]
      /\ todo' \in [Ops -> SUBSET Accounts]
      /\ awaiting' \in [Ops -> SUBSET Refreshes]
      /\ failures' \in [Ops -> Nat]
      /\ at'[o] = "idle"
      /\ \A p \in Ops \ {o} : \/ at'[p] = at[p]
                              \/ at[p] = "ready" /\ at'[p] = "closing" /\ KindOf[p] = "task"
      /\ \A p \in Ops : awaiting'[p] \subseteq awaiting[p]
    BY <1>1, AnswerFacts
<1>3. TypeOK'
    BY <1>1, <1>2 DEF TypeOK
<1>4. \A p \in Ops : at'[p] = "queued" => at[p] = "queued"
    BY <1>2
<1>5. \A p \in Ops : at'[p] \in Begun => at[p] \in Begun
    BY <1>2 DEF Begun, Inside
<1>6. ChainInOrder'
    BY <1>1, <1>4, <1>5, ChainKept
<1>7. ASSUME NEW p \in Ops PROVE NothingLeft(p)' /\ HoldsKeys(p)'
  <2>1. NothingLeft(p) /\ HoldsKeys(p)
      BY DEF NothingLeaks, KeysHeld
  <2>2. CASE p = o
    <3>1. conn'[o] = "none" /\ nested'[o] = "none" /\ \A k \in Keys : owner'[k] # o
        BY <1>1, <2>1, <2>2, PlaceFacts
    <3>2. awaiting'[o] # {} => KindOf[o] = "task"
        BY <1>2, <2>1, <2>2 DEF HoldsKeys
    <3> QED BY <1>2, <2>2, <3>1, <3>2, OverFacts
  <2>3. CASE p # o
      BY <1>1, <1>2, <2>1, <2>3, OtherKept
  <2> QED BY <2>2, <2>3
<1> QED
    BY <1>3, <1>6, <1>7 DEF NothingLeaks, KeysHeld

LEMMA ConnectStep ==
    ASSUME LockInv, NEW o \in Ops, Connect(o)
    PROVE  LockInv'
<1>1. /\ at[o] = "connecting"
      /\ at' = [at EXCEPT ![o] = "locking"] /\ conn' = [conn EXCEPT ![o] = "open"]
      /\ UNCHANGED <<chain, nested, owner, todo, awaiting, failures>>
    BY DEF Connect, taskVars
<1>2. NothingLeft(o) /\ HoldsKeys(o) /\ TypeOK
    BY DEF LockInv, NothingLeaks, KeysHeld
<1>3. TypeOK' /\ at'[o] = "locking" /\ conn'[o] = "open"
    BY <1>1, <1>2 DEF TypeOK, Places, ConnStates
<1>4. \A k \in Keys : owner'[k] # o
    BY <1>1, <1>2, PlaceFacts
<1>5. Missing(o)' = KeysOf[o] /\ KeysOf[o] # {} /\ KeysOf[o] \subseteq Keys
    BY <1>4, KindFacts DEF Missing
<1>6. NothingLeft(o)'
    BY <1>1, <1>2, <1>3, <1>4, PlaceFacts DEF NothingLeft
<1>7. HoldsKeys(o)'
    BY <1>1, <1>2, <1>3, <1>4, <1>5 DEF HoldsKeys, Inside
<1>8. \A p \in Ops \ {o} : conn'[p] = conn[p]
    BY <1>1, <1>2 DEF TypeOK
<1>9. "locking" \in Begun /\ at[o] \in Begun
    BY <1>1 DEF Begun
<1> QED
    BY <1>1, <1>3, <1>6, <1>7, <1>8, <1>9, PlainStep

LEMMA LockStep ==
    ASSUME LockInv, NEW o \in Ops, Lock(o)
    PROVE  LockInv'
<1> DEFINE k == NextKey(o)
           last == Missing(o) = {k}
           place == IF last THEN "ready" ELSE "locking"
<1>1. /\ at[o] = "locking" /\ conn[o] = "open" /\ owner[k] = Nobody
      /\ owner' = [owner EXCEPT ![k] = o]
      /\ at' = [at EXCEPT ![o] = place]
      /\ awaiting' = awaiting /\ UNCHANGED <<chain, conn, nested>>
    BY DEF Lock, taskVars
<1>2. NothingLeft(o) /\ HoldsKeys(o) /\ TypeOK
    BY DEF LockInv, NothingLeaks, KeysHeld
<1>3. Missing(o) # {}
    BY <1>1, <1>2 DEF HoldsKeys
<1>4. /\ k \in Missing(o) /\ k \in KeysOf[o] /\ k \in Nat
      /\ \A j \in Missing(o) : k <= j
    BY <1>3, NextKeyFacts
<1>5. KeysOf[o] \subseteq Keys /\ Keys \subseteq Nat
    BY KindFacts
<1> HIDE DEF k, last
<1>6. owner' \in [Keys -> Ops \cup {Nobody, Gone}]
    BY <1>1, <1>2 DEF TypeOK
<1>7. todo' \in [Ops -> SUBSET Accounts] /\ failures' \in [Ops -> Nat]
  <2>1. CASE KindOf[o] = "task"
    <3>1. /\ \E due \in SUBSET Refreshable(InstanceOf[o]) : todo' = [todo EXCEPT ![o] = due]
          /\ failures' = [failures EXCEPT ![o] = 0]
        BY <2>1 DEF Lock
    <3>2. Refreshable(InstanceOf[o]) \subseteq Accounts
        BY DEF Refreshable
    <3> QED BY <1>2, <3>1, <3>2 DEF TypeOK
  <2>2. CASE KindOf[o] # "task"
      BY <1>2, <2>2 DEF Lock, taskVars, TypeOK
  <2> QED BY <2>1, <2>2
<1>8. TypeOK' /\ at'[o] = place /\ place \in Begun
    BY <1>1, <1>2, <1>6, <1>7 DEF TypeOK, Places, Inside, Begun
<1>9. /\ owner'[k] = o /\ \A j \in Keys \ {k} : owner'[j] = owner[j]
      /\ Missing(o)' = Missing(o) \ {k}
    BY <1>1, <1>2, <1>4, <1>5 DEF TypeOK, Missing
<1>10. NothingLeft(o)'
    BY <1>1, <1>2, <1>4, <1>8, <1>9 DEF NothingLeft, Inside
<1>11. HoldsKeys(o)'
  <2>1. \A h \in KeysOf[o], j \in Missing(o) : owner[h] = o => h < j
      BY <1>1, <1>2 DEF HoldsKeys
  <2>2. \A j \in Missing(o)' : j \in Missing(o) /\ j \in Nat /\ j # k
      BY <1>5, <1>9 DEF Missing
  <2>3. \A h \in KeysOf[o], j \in Missing(o)' : owner'[h] = o => h < j
      BY <1>4, <1>5, <1>9, <2>1, <2>2
  <2>4. last => \A h \in KeysOf[o] : owner'[h] = o
      BY <1>9 DEF last, Missing
  <2>5. ~last => Missing(o)' # {}
      BY <1>4, <1>9 DEF last
  <2>6. at[o] # "settling" /\ (awaiting[o] # {} => KindOf[o] = "task")
      BY <1>1, <1>2 DEF HoldsKeys
  <2> QED BY <1>1, <1>8, <2>3, <2>4, <2>5, <2>6 DEF HoldsKeys, Inside
<1>12. \A p \in Ops \ {o} : \A j \in Keys : owner'[j] = p <=> owner[j] = p
    BY <1>1, <1>9, LockAssumption
<1>13. at[o] \in Begun
    BY <1>1 DEF Begun
<1> QED
    BY <1>1, <1>8, <1>10, <1>11, <1>12, <1>13, PlainStep

LEMMA AskAssignmentStep ==
    ASSUME LockInv, NEW o \in Ops, AskAssignment(o)
    PROVE  LockInv'
<1>1. /\ at[o] = "ready" /\ Assigns(o)
      /\ at' = [at EXCEPT ![o] = "connectingAssign"]
      /\ UNCHANGED <<chain, conn, nested, owner, todo, awaiting, failures>>
    BY DEF AskAssignment, taskVars
<1>2. NothingLeft(o) /\ HoldsKeys(o) /\ TypeOK
    BY DEF LockInv, NothingLeaks, KeysHeld
<1>3. TypeOK' /\ at'[o] = "connectingAssign"
    BY <1>1, <1>2 DEF TypeOK, Places, Inside
<1>4. NothingLeft(o)'
    BY <1>1, <1>2, <1>3 DEF NothingLeft, Inside
<1>5. HoldsKeys(o)'
    BY <1>1, <1>2, <1>3 DEF HoldsKeys, Inside, Assigns
<1>6. "connectingAssign" \in Begun /\ at[o] \in Begun
    BY <1>1 DEF Begun, Inside
<1> QED
    BY <1>1, <1>3, <1>4, <1>5, <1>6, PlainStep

LEMMA ConnectAssignStep ==
    ASSUME LockInv, NEW o \in Ops, ConnectAssign(o)
    PROVE  LockInv'
<1>1. /\ at[o] = "connectingAssign"
      /\ at' = [at EXCEPT ![o] = "lockingAssign"] /\ nested' = [nested EXCEPT ![o] = "open"]
      /\ UNCHANGED <<chain, conn, owner, todo, awaiting, failures>>
    BY DEF ConnectAssign, taskVars
<1>2. NothingLeft(o) /\ HoldsKeys(o) /\ TypeOK
    BY DEF LockInv, NothingLeaks, KeysHeld
<1>3. /\ TypeOK' /\ at'[o] = "lockingAssign" /\ nested'[o] = "open"
      /\ \A p \in Ops \ {o} : nested'[p] = nested[p]
    BY <1>1, <1>2 DEF TypeOK, Places, Inside, ConnStates
<1>4. NothingLeft(o)'
    BY <1>1, <1>2, <1>3 DEF NothingLeft, Inside
<1>5. HoldsKeys(o)'
    BY <1>1, <1>2, <1>3 DEF HoldsKeys, Inside
<1>6. "lockingAssign" \in Begun /\ at[o] \in Begun
    BY <1>1 DEF Begun, Inside
<1> QED
    BY <1>1, <1>3, <1>4, <1>5, <1>6, PlainStep

LEMMA LockAssignStep ==
    ASSUME LockInv, NEW o \in Ops, LockAssign(o)
    PROVE  LockInv'
<1>1. /\ at[o] = "lockingAssign" /\ nested[o] = "open" /\ owner[AssignmentKey] = Nobody
      /\ at' = [at EXCEPT ![o] = "assigning"] /\ owner' = [owner EXCEPT ![AssignmentKey] = o]
      /\ UNCHANGED <<chain, conn, nested, todo, awaiting, failures>>
    BY DEF LockAssign, taskVars
<1>2. NothingLeft(o) /\ HoldsKeys(o) /\ TypeOK
    BY DEF LockInv, NothingLeaks, KeysHeld
<1>3. AssignmentKey \in Keys /\ AssignmentKey \notin KeysOf[o] /\ KeysOf[o] \subseteq Keys
    BY <1>1, <1>2, KindFacts DEF HoldsKeys
<1>4. /\ TypeOK' /\ at'[o] = "assigning" /\ owner'[AssignmentKey] = o
      /\ \A k \in Keys \ {AssignmentKey} : owner'[k] = owner[k]
    BY <1>1, <1>2, <1>3 DEF TypeOK, Places, Inside
<1>5. NothingLeft(o)'
    BY <1>1, <1>2, <1>3, <1>4 DEF NothingLeft, Inside
<1>6. HoldsKeys(o)'
    BY <1>1, <1>2, <1>3, <1>4 DEF HoldsKeys, Inside
<1>7. \A p \in Ops \ {o} : \A k \in Keys : owner'[k] = p <=> owner[k] = p
    BY <1>1, <1>4, LockAssumption
<1>8. "assigning" \in Begun /\ at[o] \in Begun
    BY <1>1 DEF Begun, Inside
<1> QED
    BY <1>1, <1>4, <1>5, <1>6, <1>7, <1>8, PlainStep

LEMMA AssignedStep ==
    ASSUME LockInv, NEW o \in Ops, Assigned(o)
    PROVE  LockInv'
<1>1. /\ at[o] = "assigning" /\ at' = [at EXCEPT ![o] = "inside"]
      /\ owner' = [owner EXCEPT ![AssignmentKey]
                      = IF owner[AssignmentKey] = o THEN Nobody ELSE owner[AssignmentKey]]
      /\ nested' = [nested EXCEPT ![o] = "none"]
      /\ UNCHANGED <<chain, conn, todo, awaiting, failures>>
    BY DEF Assigned, taskVars
<1>2. NothingLeft(o) /\ HoldsKeys(o) /\ TypeOK
    BY DEF LockInv, NothingLeaks, KeysHeld
<1>3. AssignmentKey \in Keys /\ AssignmentKey \notin KeysOf[o] /\ KeysOf[o] \subseteq Keys
    BY <1>1, <1>2, KindFacts DEF HoldsKeys
<1>4. /\ TypeOK' /\ at'[o] = "inside" /\ owner'[AssignmentKey] # o /\ nested'[o] = "none"
      /\ \A k \in Keys \ {AssignmentKey} : owner'[k] = owner[k]
      /\ \A p \in Ops \ {o} : /\ owner'[AssignmentKey] = p <=> owner[AssignmentKey] = p
                              /\ nested'[p] = nested[p]
    BY <1>1, <1>2, <1>3, LockAssumption DEF TypeOK, Places, Inside, ConnStates
<1>5. NothingLeft(o)'
    BY <1>1, <1>2, <1>3, <1>4 DEF NothingLeft, Inside
<1>6. HoldsKeys(o)'
    BY <1>1, <1>2, <1>3, <1>4 DEF HoldsKeys, Inside
<1>7. \A p \in Ops \ {o} : \A k \in Keys : owner'[k] = p <=> owner[k] = p
    BY <1>4
<1>8. "inside" \in Begun /\ at[o] \in Begun
    BY <1>1 DEF Begun, Inside
<1> QED
    BY <1>1, <1>4, <1>5, <1>6, <1>7, <1>8, PlainStep

LEMMA LaunchStep ==
    ASSUME LockInv, NEW t \in Ops, NEW a \in Accounts, NEW r \in Ops, Launch(t, a, r)
    PROVE  LockInv'
<1> USE DEF LockInv
<1>1. /\ KindOf[t] = "task" /\ KindOf[r] = "refresh"
      /\ todo' = [todo EXCEPT ![t] = todo[t] \ {a}]
      /\ awaiting' = [awaiting EXCEPT ![t] = awaiting[t] \cup {r}]
      /\ UNCHANGED <<conn, nested, owner, failures>>
    BY DEF Launch
<1>2. /\ at' \in [Ops -> Places] /\ chain' \in [Instances -> [Accounts -> Seq(Ops)]]
      /\ \/ at'[r] = at[r]
         \/ at[r] = "idle" /\ at'[r] = "queued"
      /\ \A p \in Ops \ {r} : at'[p] = at[p]
      /\ ChainInOrder'
  <2>1. CASE UNCHANGED <<at, chain>>
    <3>1. ChainInOrder'
        BY <2>1, ChainKept
    <3> QED BY <2>1, <3>1 DEF TypeOK
  <2>2. CASE ~UNCHANGED <<at, chain>>
    <3>1. Enqueue(r) /\ \A p \in Ops : ~Shared(InstanceOf[t], a, p)
        BY <2>2 DEF Launch
    <3>2. Queued(r) /\ at[r] = "idle"
        BY <1>1, <3>1 DEF Launch, Shared, Queued
    <3> QED BY <3>1, <3>2, EnqueueType, ChainEnqueue
  <2> QED BY <2>1, <2>2
<1>3. TypeOK'
    BY <1>1, <1>2 DEF TypeOK, Refreshes
<1>4. ASSUME NEW p \in Ops PROVE NothingLeft(p)' /\ HoldsKeys(p)'
  <2>1. NothingLeft(p) /\ HoldsKeys(p)
      BY DEF NothingLeaks, KeysHeld
  <2>2. awaiting'[p] \subseteq awaiting[p] \/ KindOf[p] = "task"
      BY <1>1 DEF TypeOK
  <2>3. CASE at'[p] = at[p]
      BY <1>1, <2>1, <2>2, <2>3, OtherKept
  <2>4. CASE at'[p] # at[p]
    <3>1. p = r /\ at[p] = "idle" /\ at'[p] = "queued" /\ awaiting'[p] = awaiting[p]
        BY <1>1, <1>2, <2>4 DEF TypeOK
    <3>2. NothingLeft(p)'
        BY <1>1, <2>1, <3>1, PlaceFacts DEF NothingLeft
    <3>3. HoldsKeys(p)'
        BY <1>1, <2>1, <3>1 DEF HoldsKeys, Inside
    <3> QED BY <3>2, <3>3
  <2> QED BY <2>3, <2>4
<1> QED
    BY <1>2, <1>3, <1>4 DEF NothingLeaks, KeysHeld

LEMMA LoseConnectionStep ==
    ASSUME LockInv, NEW o \in Ops, LoseConnection(o)
    PROVE  LockInv'
<1>1. /\ conn[o] = "open" /\ conn' = [conn EXCEPT ![o] = "lost"]
      /\ owner' = [k \in Keys |-> IF k \in KeysOf[o] /\ owner[k] = o THEN Gone ELSE owner[k]]
      /\ UNCHANGED <<at, chain, nested, todo, awaiting, failures>>
    BY DEF LoseConnection, taskVars
<1>2. NothingLeft(o) /\ HoldsKeys(o) /\ TypeOK
    BY DEF LockInv, NothingLeaks, KeysHeld
<1>3. at[o] \in Begun /\ at' = [at EXCEPT ![o] = at[o]]
    BY <1>1, <1>2 DEF NothingLeft, Begun, TypeOK
<1>4. TypeOK' /\ conn'[o] = "lost" /\ \A p \in Ops \ {o} : conn'[p] = conn[p]
    BY <1>1, <1>2 DEF TypeOK, ConnStates
<1>5. /\ \A k \in Keys : owner'[k] = o <=> owner[k] = o /\ k \notin KeysOf[o]
      /\ \A p \in Ops \ {o} : \A k \in Keys : owner'[k] = p <=> owner[k] = p
    BY <1>1, LockAssumption
<1>6. NothingLeft(o)'
    BY <1>1, <1>2, <1>4, <1>5 DEF NothingLeft
<1>7. HoldsKeys(o)'
    BY <1>1, <1>2, <1>4, <1>5, KindFacts DEF HoldsKeys
<1> QED
    BY <1>1, <1>3, <1>4, <1>5, <1>6, <1>7, PlainStep

LEMMA LoseNestedStep ==
    ASSUME LockInv, NEW o \in Ops, LoseNested(o)
    PROVE  LockInv'
<1>1. /\ nested[o] = "open" /\ nested' = [nested EXCEPT ![o] = "lost"]
      /\ owner' = [owner EXCEPT ![AssignmentKey]
                      = IF owner[AssignmentKey] = o THEN Gone ELSE owner[AssignmentKey]]
      /\ UNCHANGED <<at, chain, conn, todo, awaiting, failures>>
    BY DEF LoseNested, taskVars
<1>2. NothingLeft(o) /\ HoldsKeys(o) /\ TypeOK
    BY DEF LockInv, NothingLeaks, KeysHeld
<1>3. at[o] \in {"lockingAssign", "assigning"}
    BY <1>1, <1>2 DEF NothingLeft
<1>4. at[o] \in Begun /\ at' = [at EXCEPT ![o] = at[o]]
    BY <1>1, <1>2, <1>3 DEF Begun, Inside, TypeOK
<1>5. AssignmentKey \in Keys /\ AssignmentKey \notin KeysOf[o] /\ KeysOf[o] \subseteq Keys
    BY <1>2, <1>3, KindFacts DEF HoldsKeys
<1>6. TypeOK' /\ nested'[o] = "lost" /\ \A p \in Ops \ {o} : nested'[p] = nested[p]
    BY <1>1, <1>2, <1>5 DEF TypeOK, ConnStates
<1>7. /\ \A k \in Keys : owner'[k] = o <=> owner[k] = o /\ k # AssignmentKey
      /\ \A p \in Ops \ {o} : \A k \in Keys : owner'[k] = p <=> owner[k] = p
    BY <1>1, <1>2, <1>5, LockAssumption DEF TypeOK
<1>8. NothingLeft(o)'
    BY <1>1, <1>2, <1>3, <1>6, <1>7 DEF NothingLeft
<1>9. HoldsKeys(o)'
    BY <1>1, <1>2, <1>3, <1>5, <1>6, <1>7 DEF HoldsKeys, Inside
<1> QED
    BY <1>1, <1>4, <1>6, <1>7, <1>8, <1>9, PlainStep

LEMMA CrashStep ==
    ASSUME LockInv, NEW i \in Instances, Crash(i)
    PROVE  LockInv'
<1> USE DEF LockInv
<1> DEFINE Here(o) == InstanceOf[o] = i
<1>1. /\ at' = [o \in Ops |-> IF Here(o) THEN "idle" ELSE at[o]]
      /\ chain' = [chain EXCEPT ![i] = [a \in Accounts |-> <<>>]]
      /\ conn' = [o \in Ops |-> IF Here(o) THEN "none" ELSE conn[o]]
      /\ nested' = [o \in Ops |-> IF Here(o) THEN "none" ELSE nested[o]]
      /\ owner' = [k \in Keys |-> IF owner[k] \in Ops /\ Here(owner[k]) THEN Gone ELSE owner[k]]
      /\ todo' = [o \in Ops |-> IF Here(o) THEN {} ELSE todo[o]]
      /\ awaiting' = [o \in Ops |-> IF Here(o) THEN {} ELSE awaiting[o]]
      /\ failures' = [o \in Ops |-> IF Here(o) THEN 0 ELSE failures[o]]
    BY DEF Crash
<1>2. <<>> \in Seq(Ops) /\ Len(<<>>) = 0
    OBVIOUS
<1>3. \A j \in Instances, a \in Accounts :
         chain'[j][a] = IF j = i THEN <<>> ELSE chain[j][a]
    BY <1>1 DEF TypeOK
<1>4. TypeOK'
  <2>1. chain' \in [Instances -> [Accounts -> Seq(Ops)]]
      BY <1>1, <1>2 DEF TypeOK
  <2>2. owner' \in [Keys -> Ops \cup {Nobody, Gone}]
      BY <1>1 DEF TypeOK
  <2>3. /\ at' \in [Ops -> Places] /\ conn' \in [Ops -> ConnStates]
        /\ nested' \in [Ops -> ConnStates] /\ failures' \in [Ops -> Nat]
      BY <1>1 DEF TypeOK, Places, ConnStates
  <2>4. todo' \in [Ops -> SUBSET Accounts] /\ awaiting' \in [Ops -> SUBSET Refreshes]
      BY <1>1 DEF TypeOK
  <2> QED BY <2>1, <2>2, <2>3, <2>4 DEF TypeOK
<1>5. ChainInOrder'
  <2>1. ASSUME NEW j \in Instances, NEW a \in Accounts PROVE GoodChain(chain'[j][a], j, a)
      BY <1>2, <1>3 DEF ChainInOrder, GoodChain
  <2>2. \A p \in Ops : Queued(p) /\ ~Here(p) => ChainOf(p)' = ChainOf(p)
      BY <1>3, KindFacts DEF ChainOf
  <2>3. ASSUME NEW p \in Ops, at'[p] = "queued" PROVE Queued(p) /\ InChain(ChainOf(p)', p)
    <3>1. ~Here(p) /\ at[p] = "queued"
        BY <1>1, <2>3
    <3> QED BY <2>2, <3>1 DEF ChainInOrder
  <2>4. ASSUME NEW p \in Ops, Queued(p), at'[p] \in Begun PROVE First(ChainOf(p)', p)
    <3>1. ~Here(p) /\ at[p] \in Begun
        BY <1>1, <2>4 DEF Begun, Inside
    <3> QED BY <2>2, <2>4, <3>1 DEF ChainInOrder
  <2> QED BY <2>1, <2>3, <2>4 DEF ChainInOrder
<1>6. ASSUME NEW p \in Ops PROVE NothingLeft(p)' /\ HoldsKeys(p)'
  <2>1. NothingLeft(p) /\ HoldsKeys(p)
      BY DEF NothingLeaks, KeysHeld
  <2>2. CASE Here(p)
    <3>1. /\ at'[p] = "idle" /\ conn'[p] = "none" /\ nested'[p] = "none" /\ awaiting'[p] = {}
          /\ \A k \in Keys : owner'[k] # p
        BY <1>1, <2>2, LockAssumption
    <3> QED BY <3>1, OverFacts
  <2>3. CASE ~Here(p)
    <3>1. /\ at'[p] = at[p] /\ conn'[p] = conn[p] /\ nested'[p] = nested[p]
          /\ awaiting'[p] = awaiting[p]
          /\ \A k \in Keys : owner'[k] = p <=> owner[k] = p
        BY <1>1, <2>3, LockAssumption
    <3> QED BY <2>1, <3>1, OtherKept
  <2> QED BY <2>2, <2>3
<1> QED
    BY <1>4, <1>5, <1>6 DEF NothingLeaks, KeysHeld

LEMMA ReapStep ==
    ASSUME LockInv, NEW k \in Keys, Reap(k)
    PROVE  LockInv'
<1> USE DEF LockInv
<1>1. /\ owner[k] = Gone /\ owner' = [owner EXCEPT ![k] = Nobody]
      /\ UNCHANGED <<at, chain, conn, nested, todo, awaiting, failures>>
    BY DEF Reap, taskVars
<1>2. \A p \in Ops : \A j \in Keys : owner'[j] = p <=> owner[j] = p
    BY <1>1, LockAssumption DEF TypeOK
<1>3. TypeOK'
    BY <1>1 DEF TypeOK
<1>4. ChainInOrder'
    BY <1>1, ChainKept
<1>5. ASSUME NEW p \in Ops PROVE NothingLeft(p)' /\ HoldsKeys(p)'
    BY <1>1, <1>2, OtherKept DEF NothingLeaks, KeysHeld
<1> QED
    BY <1>3, <1>4, <1>5 DEF NothingLeaks, KeysHeld

-----------------------------------------------------------------------------
(* The invariant.                                                          *)

LEMMA InitLockInv == Init => LockInv
<1> SUFFICES ASSUME Init PROVE LockInv
    OBVIOUS
<1>1. TypeOK
    BY DEF Init, TypeOK, Places, ConnStates
<1>2. \A i \in Instances, a \in Accounts : chain[i][a] = <<>>
    BY DEF Init
<1>3. ChainInOrder
  <2>1. \A o \in Ops : at[o] \notin Begun /\ at[o] # "queued"
      BY DEF Init, Begun, Inside
  <2>2. \A i \in Instances, a \in Accounts : GoodChain(chain[i][a], i, a)
      BY <1>2 DEF GoodChain
  <2> QED BY <2>1, <2>2 DEF ChainInOrder
<1>4. \A o \in Ops : \A k \in Keys : owner[k] # o
    BY LockAssumption DEF Init
<1>5. NothingLeaks
    BY <1>4 DEF Init, NothingLeaks, NothingLeft
<1>6. KeysHeld
    BY <1>4 DEF Init, KeysHeld, HoldsKeys, Inside
<1> QED
    BY <1>1, <1>3, <1>5, <1>6 DEF LockInv

LEMMA OpStepKeepsLockInv ==
    ASSUME LockInv, NEW o \in Ops, OpStep(o)
    PROVE  LockInv'
<1>1. CASE Start(o)
    BY <1>1, StartStep
<1>2. CASE Begin(o)
    BY <1>2, BeginStep
<1>3. CASE Connect(o)
    BY <1>3, ConnectStep
<1>4. CASE Lock(o)
    BY <1>4, LockStep
<1>5. CASE AskAssignment(o)
    BY <1>5, AskAssignmentStep
<1>6. CASE ConnectAssign(o)
    BY <1>6, ConnectAssignStep
<1>7. CASE LockAssign(o)
    BY <1>7, LockAssignStep
<1>8. CASE Assigned(o)
    BY <1>8, AssignedStep
<1>9. CASE LoseConnection(o)
    BY <1>9, LoseConnectionStep
<1>10. CASE LoseNested(o)
    BY <1>10, LoseNestedStep
<1>11. CASE \E a \in Accounts, r \in Ops : Launch(o, a, r)
    BY <1>11, LaunchStep
<1>12. CASE \E ok \in BOOLEAN : Settle(o, ok)
    BY <1>12, SettleStep
<1>13. CASE \/ ConnectFails(o) \/ Decline(o) \/ LockFails(o) \/ AssignFails(o)
            \/ \E ok \in BOOLEAN : Finish(o, ok)
  <2>1. PICK ok \in BOOLEAN : End(o, ok)
      BY <1>13 DEF ConnectFails, Decline, LockFails, AssignFails, Finish
  <2>2. at[o] \in Begun
      BY <1>13 DEF ConnectFails, Decline, LockFails, AssignFails, Finish, Begun, Inside
  <2> QED BY <2>1, <2>2, EndStep
<1> QED
    BY <1>1, <1>2, <1>3, <1>4, <1>5, <1>6, <1>7, <1>8, <1>9, <1>10, <1>11, <1>12, <1>13,
       Zenon DEF OpStep

\* The invariant of OperationLocks holds throughout, for every set of
\* operations (withAdvisoryLocks, AccountOperationQueue, refreshAccount).
THEOREM LockInvariant == Spec => []LockInv
<1>1. LockInv /\ [Next]_vars => LockInv'
  <2> SUFFICES ASSUME LockInv, [Next]_vars PROVE LockInv'
      OBVIOUS
  <2>1. CASE \E o \in Ops : OpStep(o)
      BY <2>1, OpStepKeepsLockInv
  <2>2. CASE \E i \in Instances : Crash(i)
      BY <2>2, CrashStep
  <2>3. CASE \E k \in Keys : Reap(k)
      BY <2>3, ReapStep
  <2>4. CASE UNCHANGED vars
    <3>1. UNCHANGED <<at, chain, conn, nested, owner, todo, awaiting, failures>>
        BY <2>4 DEF vars
    <3>2. TypeOK'
        BY <3>1 DEF LockInv, TypeOK
    <3>3. ChainInOrder'
        BY <3>1, ChainKept DEF LockInv
    <3>4. ASSUME NEW p \in Ops PROVE NothingLeft(p)' /\ HoldsKeys(p)'
        BY <3>1, OtherKept DEF LockInv, NothingLeaks, KeysHeld
    <3> QED BY <3>2, <3>3, <3>4 DEF LockInv, NothingLeaks, KeysHeld
  <2> QED BY <2>1, <2>2, <2>3, <2>4 DEF Next
<1> QED
    BY <1>1, InitLockInv, PTL DEF Spec

\* No lock and no connection outlives its operation (the finally blocks of
\* withAdvisoryLocks).
THEOREM LocksDoNotLeak == Spec => []NothingLeaks
BY LockInvariant, PTL DEF LockInv

\* Two operations under one lock: one of them has lost its connection
\* (withAdvisoryLocks).
THEOREM LocksExclude == Spec => []LockIsExclusive
<1>1. LockInv => LockIsExclusive
  <2> SUFFICES ASSUME LockInv, NEW o \in Ops, NEW p \in Ops, o # p,
                      NEW k \in Uses(o) \cap Uses(p)
               PROVE  Lost(o, k) \/ Lost(p, k)
      BY DEF LockIsExclusive
  <2>1. ASSUME NEW q \in Ops, k \in Uses(q), ~Lost(q, k) PROVE owner[k] = q
    <3>1. HoldsKeys(q)
        BY DEF LockInv, KeysHeld
    <3>2. CASE k \in KeysOf[q] /\ at[q] \in Inside
        BY <2>1, <3>1, <3>2 DEF HoldsKeys, Lost
    <3>3. CASE at[q] = "assigning" /\ k = AssignmentKey
      <4>1. AssignmentKey \notin KeysOf[q]
          BY <3>1, <3>3, KindFacts DEF HoldsKeys
      <4> QED BY <2>1, <3>1, <3>3, <4>1 DEF HoldsKeys, Lost
    <3> QED BY <2>1, <3>2, <3>3 DEF Uses
  <2> QED BY <2>1
<1> QED
    BY <1>1, LockInvariant, PTL

\* Within an instance two operations of an account never overlap
\* (AccountOperationQueue.run).
THEOREM ChainsExclude == Spec => []ChainIsExclusive
<1>1. LockInv => ChainIsExclusive
  <2> SUFFICES ASSUME LockInv, NEW o \in Ops, NEW p \in Ops, o # p, Queued(o), Queued(p),
                      InstanceOf[o] = InstanceOf[p], KeysOf[o] = KeysOf[p],
                      at[o] \in Inside, at[p] \in Inside
               PROVE  FALSE
      BY DEF ChainIsExclusive
  <2>1. ChainOf(o) = ChainOf(p)
      BY DEF ChainOf, AccountOf
  <2>2. First(ChainOf(o), o) /\ First(ChainOf(p), p)
      BY DEF LockInv, ChainInOrder, Begun
  <2> QED BY <2>1, <2>2 DEF First
<1> QED
    BY <1>1, LockInvariant, PTL
-----------------------------------------------------------------------------
(* Waiting.                                                                *)

\* The keys of the kinds: the assignment is the last, tasks come first.
LEMMA KeyOrder ==
    ASSUME NEW o \in Ops
    PROVE  /\ \A k \in KeysOf[o] : k \in Nat /\ k <= AssignmentKey
           /\ Assigns(o) => \A k \in KeysOf[o] : k < AssignmentKey
           /\ ~Tries(o) => KeysOf[o] \cap TaskNames = {}
           /\ KindOf[o] = "task" => KeysOf[o] \subseteq TaskNames /\ ~Assigns(o) /\ ~Queued(o)
<1>1. /\ \A k \in Keys : k \in Nat /\ k <= AssignmentKey
      /\ \A k \in Keys \ {AssignmentKey} : k < AssignmentKey
    BY LockAssumption DEF Keys
<1>2. ASSUME ~Tries(o) PROVE KeysOf[o] \subseteq Accounts \cup {AssignmentKey}
  <2>1. KindOf[o] \in {"operation", "refresh", "deletion", "assignment"}
      BY <1>2, KindFacts DEF Kinds, Tries
  <2>2. CASE KindOf[o] \in {"operation", "refresh"}
      BY <2>2, LockAssumption
  <2>3. CASE KindOf[o] = "deletion"
      BY <2>3, LockAssumption
  <2>4. CASE KindOf[o] = "assignment"
      BY <2>4, LockAssumption
  <2> QED BY <2>1, <2>2, <2>3, <2>4
<1>3. \A t \in TaskNames : t \notin Accounts \cup {AssignmentKey}
  <2>1. \A t \in TaskNames, a \in Accounts : t < a /\ t \in Nat /\ a \in Nat
      BY LockAssumption
  <2>2. \A t \in TaskNames : t < AssignmentKey /\ t \in Nat /\ AssignmentKey \in Nat
      BY LockAssumption
  <2> QED BY <2>1, <2>2
<1>4. ASSUME KindOf[o] = "task" PROVE KeysOf[o] \subseteq TaskNames /\ ~Assigns(o) /\ ~Queued(o)
    BY <1>4, LockAssumption DEF Assigns, Queued
<1> QED
    BY <1>1, <1>2, <1>3, <1>4, KindFacts

\* How much an operation that waits has before it, at most.
Rank(o) ==
    IF KindOf[o] = "task" THEN 2 * AssignmentKey + 2
    ELSE IF at[o] = "queued" THEN 2 * (AssignmentKey - AccountOf(o)) + 1
    ELSE IF at[o] = "locking" THEN 2 * (AssignmentKey - NextKey(o))
    ELSE 0

LEMMA RankFacts ==
    ASSUME LockInv, NEW o \in Ops, NEW p \in Ops, WaitsFor(o, p)
    PROVE  Rank(o) \in Nat /\ Rank(o) <= 2 * AssignmentKey + 2
           /\ (KindOf[o] # "task" => Rank(o) < 2 * AssignmentKey + 2)
<1>1. AssignmentKey \in Nat
    BY LockAssumption
<1>2. CASE KindOf[o] = "task"
    BY <1>1, <1>2 DEF Rank
<1>3. CASE KindOf[o] # "task" /\ at[o] = "queued"
  <2>1. Queued(o)
      BY <1>3 DEF LockInv, ChainInOrder
  <2>2. AccountOf(o) \in Nat /\ AccountOf(o) < AssignmentKey
      BY <2>1, KindFacts, LockAssumption
  <2>3. Rank(o) = 2 * (AssignmentKey - AccountOf(o)) + 1
      BY <1>3 DEF Rank
  <2> QED BY <1>1, <2>2, <2>3
<1>4. CASE KindOf[o] # "task" /\ at[o] = "locking"
  <2>1. HoldsKeys(o) /\ awaiting[o] = {}
      BY <1>4 DEF LockInv, KeysHeld, HoldsKeys
  <2>2. conn[o] = "open"
      BY <1>4, <2>1 DEF WaitsFor
  <2>3. Missing(o) # {}
      BY <1>4, <2>1, <2>2 DEF HoldsKeys
  <2>4. NextKey(o) \in Nat /\ NextKey(o) <= AssignmentKey
      BY <2>3, NextKeyFacts, KeyOrder
  <2>5. Rank(o) = 2 * (AssignmentKey - NextKey(o))
      BY <1>4 DEF Rank
  <2> QED BY <1>1, <2>4, <2>5
<1>5. CASE KindOf[o] # "task" /\ at[o] # "queued" /\ at[o] # "locking"
    BY <1>1, <1>5 DEF Rank
<1> QED
    BY <1>2, <1>3, <1>4, <1>5

\* Whoever holds a lock is in its section, or on the way to it.
LEMMA HolderFacts ==
    ASSUME LockInv, NEW p \in Ops, NEW k \in Keys, owner[k] = p
    PROVE  /\ k \in KeysOf[p] \/ (k = AssignmentKey /\ at[p] = "assigning")
           /\ at[p] \in Inside \cup {"locking"}
           /\ at[p] = "locking" => Missing(p) # {} /\ k < NextKey(p)
<1>1. NothingLeft(p) /\ HoldsKeys(p)
    BY DEF LockInv, NothingLeaks, KeysHeld
<1>2. /\ k \in KeysOf[p] \/ (k = AssignmentKey /\ at[p] = "assigning")
      /\ at[p] \in Inside \cup {"locking"}
      /\ at[p] = "locking" => k \in KeysOf[p] /\ conn[p] = "open"
    BY <1>1, Zenon DEF NothingLeft, Inside
<1>3. ASSUME at[p] = "locking" PROVE Missing(p) # {} /\ k < NextKey(p)
  <2>1. Missing(p) # {} /\ \A j \in Missing(p) : k < j
      BY <1>1, <1>2, <1>3 DEF HoldsKeys
  <2>2. NextKey(p) \in Missing(p)
      BY <2>1, NextKeyFacts
  <2> QED BY <2>1, <2>2
<1> QED
    BY <1>2, <1>3

\* The first of a chain.
LEMMA HeadFacts ==
    ASSUME LockInv, NEW o \in Ops, NEW p \in Ops, at[o] = "queued", Head(ChainOf(o)) = p
    PROVE  /\ Queued(o) /\ Queued(p)
           /\ AccountOf(p) = AccountOf(o) /\ AccountOf(o) \in Accounts
           /\ KeysOf[p] = {AccountOf(o)}
           /\ ChainOf(p) = ChainOf(o)
<1> DEFINE i == InstanceOf[o]
           a == AccountOf(o)
           s == ChainOf(o)
<1>1. Queued(o) /\ InChain(s, o)
    BY DEF LockInv, ChainInOrder
<1>2. i \in Instances /\ a \in Accounts
    BY <1>1, KindFacts
<1>3. s \in Seq(Ops) /\ GoodChain(s, i, a)
    BY <1>2 DEF ChainOf, LockInv, TypeOK, ChainInOrder
<1> HIDE DEF s
<1>4. PICK n \in 1..Len(s) : s[n] = o
    BY <1>1 DEF InChain
<1>5. Len(s) \in Nat /\ 1 \in 1..Len(s)
    BY <1>3, <1>4, LenProperties
<1>6. Head(s) = s[1]
    BY <1>3
<1>7. Queued(p) /\ InstanceOf[p] = i /\ KeysOf[p] = {a}
    BY <1>3, <1>5, <1>6 DEF GoodChain, s
<1>8. AccountOf(p) = a
    BY <1>7, KindFacts
<1> QED
    BY <1>1, <1>2, <1>7, <1>8 DEF ChainOf

\* Along two waits in a row there is less and less before the operations.
LEMMA RankDecreases ==
    ASSUME LockInv, NEW o \in Ops, NEW p \in Ops, NEW q \in Ops,
           WaitsFor(o, p), WaitsFor(p, q)
    PROVE  Rank(p) < Rank(o)
<1>1. /\ HoldsKeys(o) /\ HoldsKeys(p)
      /\ AssignmentKey \in Nat /\ AssignmentKey \in Keys
    BY KindFacts DEF LockInv, KeysHeld
<1>2. /\ awaiting[o] # {} => KindOf[o] = "task"
      /\ awaiting[p] # {} => KindOf[p] = "task"
    BY <1>1 DEF HoldsKeys
<1>3. ASSUME NEW k \in Keys, owner[k] = p, k \notin TaskNames, k \in Nat
      PROVE  /\ KindOf[p] # "task" /\ k < AssignmentKey
             /\ Rank(p) < 2 * (AssignmentKey - k)
  <2>1. /\ k \in KeysOf[p] \/ (k = AssignmentKey /\ at[p] = "assigning")
        /\ at[p] \in Inside \cup {"locking"}
        /\ at[p] = "locking" => Missing(p) # {} /\ k < NextKey(p)
      BY <1>3, HolderFacts
  <2>2. KindOf[p] # "task"
    <3> SUFFICES ASSUME KindOf[p] = "task" PROVE FALSE
        OBVIOUS
    <3>1. KeysOf[p] \subseteq TaskNames /\ ~Assigns(p)
        BY KeyOrder
    <3>2. at[p] # "assigning"
        BY <1>1, <3>1 DEF HoldsKeys
    <3> QED BY <1>3, <2>1, <3>1, <3>2
  <2>3. at[p] = "locking" \/ at[p] = "lockingAssign"
      BY <1>2, <2>1, <2>2 DEF WaitsFor, Inside
  <2>4. CASE at[p] = "locking"
    <3>1. k \in Nat /\ k < NextKey(p) /\ NextKey(p) \in Nat /\ NextKey(p) <= AssignmentKey
        BY <1>3, <2>1, <2>4, NextKeyFacts, KeyOrder
    <3>2. Rank(p) = 2 * (AssignmentKey - NextKey(p))
        BY <2>2, <2>4 DEF Rank
    <3> QED BY <1>1, <2>2, <3>1, <3>2
  <2>5. CASE at[p] = "lockingAssign"
    <3>1. Assigns(p)
        BY <1>1, <2>5 DEF HoldsKeys
    <3>2. k < AssignmentKey
        BY <2>1, <2>5, <3>1, KeyOrder
    <3>3. Rank(p) = 0
        BY <2>2, <2>5 DEF Rank
    <3> QED BY <1>1, <1>3, <2>2, <3>2, <3>3
  <2> QED BY <2>3, <2>4, <2>5
<1>4. CASE at[o] = "locking" /\ conn[o] = "open" /\ ~Tries(o) /\ owner[NextKey(o)] = p
  <2>1. Missing(o) # {}
      BY <1>1, <1>4 DEF HoldsKeys
  <2>2. NextKey(o) \in KeysOf[o] /\ NextKey(o) \in Nat
      BY <2>1, NextKeyFacts
  <2>3. NextKey(o) \in Keys /\ NextKey(o) \notin TaskNames
      BY <1>4, <2>2, KeyOrder, KindFacts
  <2>4. Rank(p) < 2 * (AssignmentKey - NextKey(o))
      BY <1>3, <1>4, <2>2, <2>3
  <2>5. Rank(o) = 2 * (AssignmentKey - NextKey(o))
      BY <1>4 DEF Rank, Tries
  <2> QED BY <2>4, <2>5
<1>5. CASE at[o] = "lockingAssign" /\ nested[o] = "open" /\ owner[AssignmentKey] = p
  <2>1. AssignmentKey \notin TaskNames
      BY LockAssumption
  <2>2. AssignmentKey < AssignmentKey
      BY <1>1, <1>3, <1>5, <2>1
  <2> QED BY <1>1, <2>2
<1>6. CASE at[o] = "queued" /\ Head(ChainOf(o)) = p /\ p # o
  <2>1. /\ Queued(o) /\ Queued(p)
        /\ AccountOf(p) = AccountOf(o) /\ AccountOf(o) \in Accounts
        /\ KeysOf[p] = {AccountOf(o)} /\ ChainOf(p) = ChainOf(o)
      BY <1>6, HeadFacts
  <2>2. KindOf[o] # "task" /\ KindOf[p] # "task"
      BY <2>1 DEF Queued
  <2>3. AccountOf(o) \in Nat /\ AccountOf(o) < AssignmentKey
      BY <2>1, LockAssumption
  <2>4. Rank(o) = 2 * (AssignmentKey - AccountOf(o)) + 1
      BY <1>6, <2>2 DEF Rank
  <2>5. CASE at[p] = "locking"
    <3>1. conn[p] = "open"
        BY <1>2, <2>2, <2>5 DEF WaitsFor
    <3>2. Missing(p) # {}
        BY <1>1, <2>5, <3>1 DEF HoldsKeys
    <3>3. NextKey(p) = AccountOf(o)
        BY <2>1, <3>2, NextKeyFacts
    <3>4. Rank(p) = 2 * (AssignmentKey - AccountOf(o))
        BY <2>2, <2>5, <3>3 DEF Rank
    <3> QED BY <1>1, <2>3, <2>4, <3>4
  <2>6. CASE at[p] = "lockingAssign"
    <3>1. Rank(p) = 0
        BY <2>2, <2>6 DEF Rank
    <3> QED BY <1>1, <2>3, <2>4, <3>1
  <2>7. ~(at[p] = "queued" /\ Head(ChainOf(p)) = q /\ q # p)
      BY <1>6, <2>1
  <2> QED BY <1>2, <2>2, <2>5, <2>6, <2>7 DEF WaitsFor
<1>7. CASE p \in awaiting[o]
  <2>1. KindOf[o] = "task" /\ KindOf[p] = "refresh"
      BY <1>2, <1>7 DEF LockInv, TypeOK, Refreshes
  <2>2. Rank(o) = 2 * AssignmentKey + 2
      BY <2>1 DEF Rank
  <2>3. Rank(p) < 2 * AssignmentKey + 2
      BY <2>1, RankFacts
  <2> QED BY <2>2, <2>3
<1> QED
    BY <1>4, <1>5, <1>6, <1>7 DEF WaitsFor

\* Operations never wait for each other in a circle (the sorted keys of
\* withAccountLocks, the assignment lock taken last, tasks that only try).
THEOREM NoCircle == Spec => []NoCircularWait
<1>1. LockInv => NoCircularWait
  <2> SUFFICES ASSUME LockInv, NEW S \in SUBSET Ops, S # {},
                      \A o \in S : \E p \in S : WaitsFor(o, p)
               PROVE  FALSE
      BY DEF NoCircularWait, Waiting
  <2> DEFINE Ranks == {Rank(o) : o \in S}
  <2>1. Ranks \in SUBSET Nat /\ Ranks # {}
      BY RankFacts
  <2>2. PICK m \in Ranks : \A n \in Ranks : m <= n
      BY <2>1, LeastNumber
  <2>3. PICK o \in S : Rank(o) = m
      BY <2>2
  <2>4. PICK p \in S : WaitsFor(o, p)
      OBVIOUS
  <2>5. PICK q \in S : WaitsFor(p, q)
      OBVIOUS
  <2>6. Rank(p) < m
      BY <2>3, <2>4, <2>5, RankDecreases
  <2>7. Rank(p) \in Ranks
      OBVIOUS
  <2>8. m \in Nat /\ Rank(p) \in Nat /\ m <= Rank(p)
      BY <2>1, <2>2, <2>7
  <2> QED BY <2>6, <2>8
<1> QED
    BY <1>1, LockInvariant, PTL
=============================================================================
