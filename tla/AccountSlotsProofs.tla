------------------------- MODULE AccountSlotsProofs -------------------------
(***************************************************************************)
(* For every number of accounts, slots, requests and instances, and every  *)
(* upstream timeout: a call in flight holds an unexpired lease of its own, *)
(* and so an account never carries more calls than it has slots.           *)
(***************************************************************************)
EXTENDS AccountSlots, FiniteSetTheorems, TLAPS

\* The part of TypeOK that the flow of a request changes.
FlowOK ==
    /\ at \in [Requests -> Places]
    /\ slot \in [Requests -> Slots \cup {NoSlot}]
    /\ todo \in [Requests -> SUBSET Accounts]
    /\ failed \in [Requests -> 0..ReleaseAttempts - 1]
    /\ \A r \in Requests : slot[r] = NoSlot <=> at[r] \in {"idle", "sleeping"}

\* The part that the database and the clock change.
DataOK ==
    /\ row \in [Slots -> Requests \cup {NoLease, Orphan}]
    /\ left \in [Slots -> 0..LeaseLength]
    /\ budget \in [Requests -> -MaxLag..Timeout]
    /\ eligible \in SUBSET Accounts

LEMMA TypeParts == TypeOK <=> FlowOK /\ DataOK
  BY DEF TypeOK, FlowOK, DataOK

LEMMA SlotFacts ==
  /\ NoSlot \notin Slots
  /\ \A a \in Accounts : <<a, 0>> \in Slots
  /\ \A p \in Slots : p[1] \in Accounts /\ p[2] \in 0..Concurrency - 1
  /\ \A p \in Slots : p[2] + 1 < Concurrency => <<p[1], p[2] + 1>> \in Slots
  BY SlotAssumption DEF Slots

LEMMA LengthFacts == LeaseLength \in Nat /\ LeaseLength > 0 /\ LeaseLength = Timeout + Slack
  BY SlotAssumption DEF LeaseLength

-----------------------------------------------------------------------------
(* The flow of one request.                                                *)

LEMMA LeaveFlow ==
  ASSUME FlowOK, NEW r \in Requests, Leave(r)
  PROVE  FlowOK'
  BY DEF FlowOK, Leave, Places, Waiting, ReleaseAttempts

LEMMA AskForFlow ==
  ASSUME FlowOK, NEW r \in Requests, NEW p \in Slots, NEW rest \in SUBSET Accounts,
         AskFor(r, p, rest)
  PROVE  FlowOK'
  BY SlotFacts DEF FlowOK, AskFor, Places, Waiting

LEMMA AskBestFlow ==
  ASSUME FlowOK, NEW r \in Requests, NEW accounts \in SUBSET Accounts, AskBest(r, accounts)
  PROVE  FlowOK'
  <1>1. PICK a \in accounts : AskFor(r, <<a, 0>>, accounts \ {a})
    BY DEF AskBest
  <1>2. <<a, 0>> \in Slots /\ accounts \ {a} \in SUBSET Accounts
    BY SlotFacts
  <1> QED BY <1>1, <1>2, AskForFlow

LEMMA StartRoundFlow ==
  ASSUME FlowOK, DataOK, NEW r \in Requests, StartRound(r)
  PROVE  FlowOK'
  <1>1. CASE eligible = {}
    BY <1>1, LeaveFlow DEF StartRound
  <1>2. CASE eligible # {}
    BY <1>2, AskBestFlow DEF StartRound, DataOK
  <1> QED BY <1>1, <1>2

LEMMA NextSlotFlow ==
  ASSUME FlowOK, NEW r \in Requests, at[r] \in {"asking", "acquiring"}, NextSlot(r)
  PROVE  FlowOK'
  <1> DEFINE p == slot[r]
  <1>1. p \in Slots /\ todo[r] \in SUBSET Accounts
    BY DEF FlowOK
  <1>2. CASE p[2] + 1 < Concurrency
    <2>1. <<p[1], p[2] + 1>> \in Slots
      BY <1>1, <1>2, SlotFacts
    <2>2. AskFor(r, <<p[1], p[2] + 1>>, todo[r])
      BY <1>2 DEF NextSlot
    <2> QED BY <1>1, <2>1, <2>2, AskForFlow
  <1>3. CASE ~(p[2] + 1 < Concurrency) /\ todo[r] # {}
    BY <1>1, <1>3, AskBestFlow DEF NextSlot
  <1>4. CASE ~(p[2] + 1 < Concurrency) /\ todo[r] = {}
    <2>1. /\ at' = [at EXCEPT ![r] = "sleeping"]
          /\ slot' = [slot EXCEPT ![r] = NoSlot]
          /\ UNCHANGED <<todo, failed>>
      BY <1>4 DEF NextSlot
    <2> QED BY <2>1, SlotFacts DEF FlowOK, Places, Waiting
  <1> QED BY <1>2, <1>3, <1>4

\* A request that goes on from one place to another with its slot.
LEMMA MoveFlow ==
  ASSUME FlowOK, NEW r \in Requests, at[r] \notin {"idle", "sleeping"},
         NEW place \in {"acquiring", "upstream", "settling", "releasing"},
         at' = [at EXCEPT ![r] = place], UNCHANGED <<slot, failed>>,
         todo' \in [Requests -> SUBSET Accounts]
  PROVE  FlowOK'
  BY DEF FlowOK, Places, Waiting

-----------------------------------------------------------------------------
(* The lease of a call in flight.                                          *)

\* It is kept by a step that starts no call, takes no row and no lease time
\* from one in flight, and gives it no more time than it had.
LEMMA LeaseKept ==
  ASSUME LeaseCoversUse,
         \A q \in Requests : at'[q] = "upstream" =>
            /\ at[q] = "upstream"
            /\ slot'[q] = slot[q]
            /\ row'[slot[q]] = row[slot[q]]
            /\ left'[slot[q]] = left[slot[q]]
            /\ budget[q] \in Int /\ budget'[q] \in Int /\ budget'[q] <= budget[q]
            /\ left[slot[q]] \in Int
  PROVE  LeaseCoversUse'
  <1> SUFFICES ASSUME NEW q \in Requests, at'[q] = "upstream"
               PROVE  /\ row'[slot'[q]] = q
                      /\ left'[slot'[q]] > 0
                      /\ left'[slot'[q]] >= budget'[q] + Slack
    BY DEF LeaseCoversUse
  <1>1. /\ at[q] = "upstream" /\ slot'[q] = slot[q] /\ row'[slot[q]] = row[slot[q]]
        /\ left'[slot[q]] = left[slot[q]]
        /\ budget[q] \in Int /\ budget'[q] \in Int /\ budget'[q] <= budget[q]
        /\ left[slot[q]] \in Int
    OBVIOUS
  <1>2. row[slot[q]] = q /\ left[slot[q]] > 0 /\ left[slot[q]] >= budget[q] + Slack
    BY <1>1 DEF LeaseCoversUse
  <1>3. \A x, b, c, s \in Int : x >= b + s /\ c <= b => x >= c + s
    OBVIOUS
  <1> QED BY <1>1, <1>2, <1>3, SlotAssumption

LEMMA InFlightFacts ==
  ASSUME TypeOK, NEW q \in Requests, at[q] = "upstream"
  PROVE  slot[q] \in Slots /\ left[slot[q]] \in Int /\ budget[q] \in Int
  <1>1. slot[q] \in Slots
    BY DEF TypeOK
  <1>2. left[slot[q]] \in 0..LeaseLength /\ budget[q] \in -MaxLag..Timeout
    BY <1>1 DEF TypeOK
  <1> QED BY <1>1, <1>2, LengthFacts, SlotAssumption

-----------------------------------------------------------------------------
(* Steps that leave the rows and the clock alone.                          *)

\* The flow moves on; no call starts, and budgets only shrink.
LEMMA QuietStep ==
  ASSUME SlotInv, FlowOK', UNCHANGED <<row, left>>,
         budget' \in [Requests -> -MaxLag..Timeout],
         eligible' \in SUBSET Accounts,
         \A q \in Requests : at'[q] = "upstream" =>
            at[q] = "upstream" /\ slot'[q] = slot[q] /\ budget'[q] = budget[q]
  PROVE  SlotInv'
  <1>1. TypeOK'
    BY TypeParts DEF SlotInv, FlowOK, DataOK, TypeOK
  <1>2. LeaseCoversUse'
    <2>1. \A q \in Requests : at[q] = "upstream" =>
             slot[q] \in Slots /\ left[slot[q]] \in Int /\ budget[q] \in Int
      BY InFlightFacts DEF SlotInv
    <2>2. \A x \in Int : x <= x
      OBVIOUS
    <2>3. \A q \in Requests : at'[q] = "upstream" =>
            /\ at[q] = "upstream"
            /\ slot'[q] = slot[q]
            /\ row'[slot[q]] = row[slot[q]]
            /\ left'[slot[q]] = left[slot[q]]
            /\ budget[q] \in Int /\ budget'[q] \in Int /\ budget'[q] <= budget[q]
            /\ left[slot[q]] \in Int
      BY <2>1, <2>2
    <2> QED BY <2>3, LeaseKept DEF SlotInv
  <1> QED BY <1>1, <1>2 DEF SlotInv

\* The same when the budget does not change.
LEMMA QuietFlow ==
  ASSUME SlotInv, FlowOK', UNCHANGED <<row, left, budget>>,
         eligible' \in SUBSET Accounts,
         \A q \in Requests : at'[q] = "upstream" => at[q] = "upstream" /\ slot'[q] = slot[q]
  PROVE  SlotInv'
  BY QuietStep DEF SlotInv, TypeOK

\* Where a request that is not in flight goes: nobody enters "upstream".
LEMMA LeaveStarts ==
  ASSUME FlowOK, NEW r \in Requests, Leave(r)
  PROVE  \A q \in Requests : at'[q] = "upstream" => q # r /\ at[q] = "upstream" /\ slot'[q] = slot[q]
  BY DEF Leave, FlowOK

LEMMA AskForStarts ==
  ASSUME FlowOK, NEW r \in Requests, NEW p, NEW rest, AskFor(r, p, rest)
  PROVE  \A q \in Requests : at'[q] = "upstream" => q # r /\ at[q] = "upstream" /\ slot'[q] = slot[q]
  BY DEF AskFor, FlowOK

LEMMA AskBestStarts ==
  ASSUME FlowOK, NEW r \in Requests, NEW accounts, AskBest(r, accounts)
  PROVE  \A q \in Requests : at'[q] = "upstream" => q # r /\ at[q] = "upstream" /\ slot'[q] = slot[q]
  BY AskForStarts DEF AskBest

LEMMA StartRoundStarts ==
  ASSUME FlowOK, NEW r \in Requests, StartRound(r)
  PROVE  \A q \in Requests : at'[q] = "upstream" => q # r /\ at[q] = "upstream" /\ slot'[q] = slot[q]
  BY LeaveStarts, AskBestStarts DEF StartRound

LEMMA NextSlotStarts ==
  ASSUME FlowOK, NEW r \in Requests, NextSlot(r)
  PROVE  \A q \in Requests : at'[q] = "upstream" => q # r /\ at[q] = "upstream" /\ slot'[q] = slot[q]
  <1>1. CASE slot[r][2] + 1 < Concurrency
    BY <1>1, AskForStarts DEF NextSlot
  <1>2. CASE ~(slot[r][2] + 1 < Concurrency) /\ todo[r] # {}
    BY <1>2, AskBestStarts DEF NextSlot
  <1>3. CASE ~(slot[r][2] + 1 < Concurrency) /\ todo[r] = {}
    BY <1>3 DEF NextSlot, FlowOK
  <1> QED BY <1>1, <1>2, <1>3

\* A budget that is set to a value in its range, for a request that is not
\* in flight afterwards.
LEMMA BudgetSet ==
  ASSUME SlotInv, NEW r \in Requests, NEW b \in 0..Timeout,
         budget' = [budget EXCEPT ![r] = b]
  PROVE  /\ budget' \in [Requests -> -MaxLag..Timeout]
         /\ \A q \in Requests : q # r => budget'[q] = budget[q]
  <1>1. b \in -MaxLag..Timeout
    BY SlotAssumption
  <1> QED BY <1>1 DEF SlotInv, TypeOK

LEMMA ArriveInv ==
  ASSUME SlotInv, NEW r \in Requests, NEW b \in 1..Timeout, Arrive(r, b)
  PROVE  SlotInv'
  <1>1. FlowOK /\ DataOK /\ StartRound(r) /\ UNCHANGED <<row, left, eligible>>
    BY TypeParts DEF SlotInv, Arrive
  <1>2. FlowOK'
    BY <1>1, StartRoundFlow
  <1> DEFINE n == IF eligible = {} THEN 0 ELSE b
  <1>3. n \in 0..Timeout
    BY SlotAssumption
  <1>4. budget' = [budget EXCEPT ![r] = n]
    BY DEF Arrive
  <1> HIDE DEF n
  <1> QED
    BY <1>1, <1>2, <1>3, <1>4, BudgetSet, StartRoundStarts, QuietStep DEF DataOK

LEMMA WakeInv ==
  ASSUME SlotInv, NEW r \in Requests, Wake(r)
  PROVE  SlotInv'
  <1>1. FlowOK /\ DataOK /\ StartRound(r) /\ UNCHANGED <<row, left, eligible>>
    BY TypeParts DEF SlotInv, Wake
  <1>2. FlowOK'
    BY <1>1, StartRoundFlow
  <1> DEFINE n == IF eligible = {} THEN 0 ELSE budget[r]
  <1>3. n \in 0..Timeout
    <2>1. budget[r] \in -MaxLag..Timeout /\ budget[r] > 0
      BY <1>1 DEF DataOK, Wake
    <2> QED BY <2>1, SlotAssumption
  <1>4. budget' = [budget EXCEPT ![r] = n]
    BY DEF Wake
  <1> HIDE DEF n
  <1> QED
    BY <1>1, <1>2, <1>3, <1>4, BudgetSet, StartRoundStarts, QuietStep DEF DataOK

LEMMA GiveUpInv ==
  ASSUME SlotInv, NEW r \in Requests, GiveUp(r)
  PROVE  SlotInv'
  <1>1. FlowOK /\ DataOK /\ Leave(r) /\ UNCHANGED <<row, left, budget, eligible>>
    BY TypeParts DEF SlotInv, GiveUp
  <1> QED BY <1>1, LeaveFlow, LeaveStarts, QuietFlow DEF DataOK

LEMMA AskInv ==
  ASSUME SlotInv, NEW r \in Requests, Ask(r)
  PROVE  SlotInv'
  <1>1. FlowOK /\ DataOK /\ at[r] = "asking" /\ UNCHANGED <<row, left, budget, eligible>>
    BY TypeParts DEF SlotInv, Ask
  <1>2. CASE at' = [at EXCEPT ![r] = "acquiring"] /\ UNCHANGED <<slot, todo, failed>>
    <2>1. FlowOK'
      BY <1>1, <1>2, MoveFlow DEF FlowOK
    <2>2. \A q \in Requests : at'[q] = "upstream" => at[q] = "upstream" /\ slot'[q] = slot[q]
      BY <1>1, <1>2 DEF FlowOK
    <2> QED BY <1>1, <2>1, <2>2, QuietFlow DEF DataOK
  <1>3. CASE NextSlot(r)
    BY <1>1, <1>3, NextSlotFlow, NextSlotStarts, QuietFlow DEF DataOK
  <1> QED BY <1>2, <1>3 DEF Ask

LEMMA EndsInv ==
  ASSUME SlotInv, NEW r \in Requests, UpstreamEnds(r) \/ UpstreamRejects(r)
  PROVE  SlotInv'
  <1> PICK place \in {"settling", "releasing"} :
         /\ at[r] = "upstream"
         /\ at' = [at EXCEPT ![r] = place]
         /\ budget' = [budget EXCEPT ![r] = 0]
         /\ UNCHANGED <<row, left, slot, todo, failed, eligible>>
    BY DEF UpstreamEnds, UpstreamRejects
  <1>1. FlowOK /\ DataOK /\ 0 \in 0..Timeout
    BY TypeParts, SlotAssumption DEF SlotInv
  <1>2. FlowOK'
    BY <1>1, MoveFlow DEF FlowOK
  <1>3. \A q \in Requests : at'[q] = "upstream" => q # r /\ at[q] = "upstream" /\ slot'[q] = slot[q]
    BY <1>1 DEF FlowOK
  <1> QED BY <1>1, <1>2, <1>3, BudgetSet, QuietStep DEF DataOK

LEMMA SettleInv ==
  ASSUME SlotInv, NEW r \in Requests, Settle(r)
  PROVE  SlotInv'
  <1>1. FlowOK /\ DataOK /\ at[r] = "settling" /\ at' = [at EXCEPT ![r] = "releasing"]
        /\ UNCHANGED <<row, left, slot, todo, budget, failed>>
    BY TypeParts DEF SlotInv, Settle
  <1>2. eligible' \in SUBSET Accounts
    BY <1>1 DEF DataOK, Settle
  <1>3. FlowOK'
    BY <1>1, MoveFlow DEF FlowOK
  <1>4. \A q \in Requests : at'[q] = "upstream" => at[q] = "upstream" /\ slot'[q] = slot[q]
    BY <1>1 DEF FlowOK
  <1> QED BY <1>1, <1>2, <1>3, <1>4, QuietFlow

LEMMA ClientAbortsInv ==
  ASSUME SlotInv, NEW r \in Requests, ClientAborts(r)
  PROVE  SlotInv'
  <1>1. FlowOK /\ DataOK /\ budget[r] > 0 /\ budget' = [budget EXCEPT ![r] = 0]
        /\ UNCHANGED <<row, left, at, slot, todo, failed, eligible>>
    BY TypeParts DEF SlotInv, ClientAborts
  <1>2. 0 \in -MaxLag..Timeout
    BY SlotAssumption
  <1>3. TypeOK'
    BY <1>1, <1>2 DEF SlotInv, TypeOK, FlowOK, DataOK
  <1>4. \A q \in Requests : budget'[q] \in Int /\ budget'[q] <= budget[q]
    <2> TAKE q \in Requests
    <2>1. budget[q] \in -MaxLag..Timeout /\ budget[r] \in -MaxLag..Timeout
      BY <1>1 DEF DataOK
    <2>2. budget[q] \in Int /\ budget[q] <= budget[q]
      BY <2>1, SlotAssumption
    <2>3. CASE q = r
      BY <1>1, <2>2, <2>3 DEF DataOK
    <2>4. CASE q # r
      BY <1>1, <2>2, <2>4 DEF DataOK
    <2> QED BY <2>3, <2>4
  <1>5. LeaseCoversUse'
    BY <1>1, <1>4, InFlightFacts, LeaseKept DEF SlotInv
  <1> QED BY <1>3, <1>5 DEF SlotInv

-----------------------------------------------------------------------------
(* Steps that write rows.                                                  *)

\* A slot of a call in flight is neither free nor expired, and its row names
\* a request.
LEMMA InFlightSlot ==
  ASSUME SlotInv, NEW q \in Requests, at[q] = "upstream"
  PROVE  /\ slot[q] \in Slots
         /\ row[slot[q]] = q /\ q # NoLease /\ q # Orphan
         /\ left[slot[q]] > 0 /\ left[slot[q]] # 0
         /\ ~Expired(slot[q])
  <1>1. slot[q] \in Slots /\ left[slot[q]] \in Int
    BY InFlightFacts DEF SlotInv
  <1>2. row[slot[q]] = q /\ left[slot[q]] > 0
    BY DEF SlotInv, LeaseCoversUse
  <1>3. left[slot[q]] # 0
    BY <1>1, <1>2
  <1> QED BY <1>1, <1>2, <1>3, SlotAssumption DEF Expired

\* Nothing that a call in flight relies on changes.
LEMMA DataStep ==
  ASSUME SlotInv, FlowOK', DataOK',
         \A q \in Requests : at'[q] = "upstream" =>
            /\ at[q] = "upstream" /\ slot'[q] = slot[q]
            /\ row'[slot[q]] = row[slot[q]] /\ left'[slot[q]] = left[slot[q]]
            /\ budget'[q] = budget[q]
  PROVE  SlotInv'
  <1>1. TypeOK'
    BY TypeParts DEF FlowOK, DataOK, TypeOK
  <1>2. \A q \in Requests : at[q] = "upstream" =>
           left[slot[q]] \in Int /\ budget[q] \in Int /\ budget[q] <= budget[q]
    <2> TAKE q \in Requests
    <2> HAVE at[q] = "upstream"
    <2>1. left[slot[q]] \in Int /\ budget[q] \in Int
      BY InFlightFacts DEF SlotInv
    <2> QED BY <2>1
  <1>3. LeaseCoversUse'
    BY <1>2, LeaseKept DEF SlotInv
  <1> QED BY <1>1, <1>3 DEF SlotInv

LEMMA TakeInv ==
  ASSUME SlotInv, NEW r \in Requests, at[r] = "acquiring",
         row[slot[r]] = NoLease \/ Expired(slot[r]), Take(r)
  PROVE  SlotInv'
  <1> DEFINE p == slot[r]
  <1>1. FlowOK /\ DataOK /\ p \in Slots
    BY TypeParts DEF SlotInv, FlowOK
  <1>2. /\ row' = [row EXCEPT ![p] = r] /\ left' = [left EXCEPT ![p] = LeaseLength]
        /\ at' = [at EXCEPT ![r] = "upstream"] /\ todo' = [todo EXCEPT ![r] = {}]
        /\ UNCHANGED <<slot, budget, failed, eligible>>
    BY DEF Take
  <1>3. FlowOK'
    <2>1. todo' \in [Requests -> SUBSET Accounts]
      BY <1>1, <1>2 DEF FlowOK
    <2> QED BY <1>1, <1>2, <2>1, MoveFlow
  <1>4. DataOK'
    BY <1>1, <1>2, LengthFacts DEF DataOK
  <1>5. TypeOK'
    BY <1>3, <1>4, TypeParts DEF FlowOK, DataOK, TypeOK
  <1>6. LeaseCoversUse'
    <2> SUFFICES ASSUME NEW q \in Requests, at'[q] = "upstream"
                 PROVE  /\ row'[slot'[q]] = q
                        /\ left'[slot'[q]] > 0
                        /\ left'[slot'[q]] >= budget'[q] + Slack
      BY DEF LeaseCoversUse
    <2>1. CASE q = r
      <3>1. row'[slot'[q]] = q /\ left'[slot'[q]] = LeaseLength /\ budget'[q] = budget[r]
        BY <1>1, <1>2, <2>1 DEF DataOK
      <3>2. budget[r] \in -MaxLag..Timeout
        BY <1>1 DEF DataOK
      <3>3. LeaseLength >= budget[r] + Slack
        BY <3>2, SlotAssumption, LengthFacts
      <3> QED BY <3>1, <3>3, LengthFacts
    <2>2. CASE q # r
      <3>1. at[q] = "upstream"
        BY <1>1, <1>2, <2>2 DEF FlowOK
      <3>2. slot[q] # p
        BY <3>1, InFlightSlot
      <3>3. row'[slot'[q]] = row[slot[q]] /\ left'[slot'[q]] = left[slot[q]] /\ budget'[q] = budget[q]
        BY <1>1, <1>2, <3>2 DEF DataOK, FlowOK
      <3> QED BY <3>1, <3>3 DEF SlotInv, LeaseCoversUse
    <2> QED BY <2>1, <2>2
  <1> QED BY <1>5, <1>6 DEF SlotInv

LEMMA InsertInv ==
  ASSUME SlotInv, NEW r \in Requests, Insert(r)
  PROVE  SlotInv'
  <1>1. CASE row[slot[r]] = NoLease \/ Expired(slot[r])
    BY <1>1, TakeInv DEF Insert
  <1>2. CASE ~(row[slot[r]] = NoLease \/ Expired(slot[r]))
    <2>1. /\ FlowOK /\ DataOK /\ at[r] = "acquiring" /\ NextSlot(r)
          /\ UNCHANGED <<row, left, budget, eligible>>
      BY <1>2, TypeParts DEF SlotInv, Insert
    <2> QED BY <2>1, NextSlotFlow, NextSlotStarts, QuietFlow DEF DataOK
  <1> QED BY <1>1, <1>2

\* A request leaves, and one row that no call in flight holds is written.
LEMMA LeaveInv ==
  ASSUME SlotInv, NEW r \in Requests, Leave(r), at[r] # "upstream",
         row' \in [Slots -> Requests \cup {NoLease, Orphan}],
         left' \in [Slots -> 0..LeaseLength],
         \A q \in Requests : at[q] = "upstream" =>
            row'[slot[q]] = row[slot[q]] /\ left'[slot[q]] = left[slot[q]],
         budget' = [budget EXCEPT ![r] = 0] \/ UNCHANGED budget,
         UNCHANGED eligible
  PROVE  SlotInv'
  <1>1. FlowOK /\ DataOK
    BY TypeParts DEF SlotInv
  <1>2. FlowOK'
    BY <1>1, LeaveFlow
  <1>3. 0 \in -MaxLag..Timeout
    BY SlotAssumption
  <1>4. DataOK' /\ \A q \in Requests : q # r => budget'[q] = budget[q]
    BY <1>1, <1>3 DEF DataOK
  <1> QED BY <1>1, <1>2, <1>4, LeaveStarts, DataStep

LEMMA AcquireFailsInv ==
  ASSUME SlotInv, NEW r \in Requests, AcquireFails(r)
  PROVE  SlotInv'
  <1>1. FlowOK /\ DataOK /\ slot[r] \in Slots /\ at[r] # "upstream"
    BY TypeParts DEF SlotInv, FlowOK, AcquireFails
  <1>2. /\ row' \in [Slots -> Requests \cup {NoLease, Orphan}]
        /\ left' \in [Slots -> 0..LeaseLength]
    BY <1>1, LengthFacts DEF DataOK, AcquireFails
  <1>3. \A q \in Requests : at[q] = "upstream" =>
            row'[slot[q]] = row[slot[q]] /\ left'[slot[q]] = left[slot[q]]
    <2> TAKE q \in Requests
    <2> HAVE at[q] = "upstream"
    <2> QED BY <1>1, InFlightSlot DEF AcquireFails, DataOK
  <1> QED BY <1>1, <1>2, <1>3, LeaveInv DEF AcquireFails

LEMMA ReleaseInv ==
  ASSUME SlotInv, NEW r \in Requests, Release(r)
  PROVE  SlotInv'
  <1>1. FlowOK /\ DataOK /\ slot[r] \in Slots /\ at[r] = "releasing"
    BY TypeParts DEF SlotInv, FlowOK, Release
  <1>2. row' \in [Slots -> Requests \cup {NoLease, Orphan}]
    BY <1>1 DEF DataOK, Release, DeleteRow
  <1>3. \A q \in Requests : at[q] = "upstream" => row'[slot[q]] = row[slot[q]]
    <2> TAKE q \in Requests
    <2> HAVE at[q] = "upstream"
    <2>1. row[slot[q]] = q /\ slot[q] \in Slots /\ q # r
      BY <1>1, InFlightSlot
    <2> QED BY <1>1, <2>1 DEF Release, DeleteRow, DataOK
  <1> QED BY <1>1, <1>2, <1>3, LeaveInv DEF Release, DataOK

LEMMA ReleaseFailsInv ==
  ASSUME SlotInv, NEW r \in Requests, ReleaseFails(r)
  PROVE  SlotInv'
  <1>1. FlowOK /\ DataOK /\ slot[r] \in Slots /\ at[r] = "releasing"
        /\ UNCHANGED <<left, budget, eligible>>
    BY TypeParts DEF SlotInv, FlowOK, ReleaseFails
  <1>2. \/ row[slot[r]] = r /\ row' = [row EXCEPT ![slot[r]] = NoLease]
        \/ row[slot[r]] = r /\ row' = [row EXCEPT ![slot[r]] = Orphan]
        \/ UNCHANGED row
    BY DEF ReleaseFails, DeleteRow
  <1>3. row' \in [Slots -> Requests \cup {NoLease, Orphan}]
    BY <1>1, <1>2 DEF DataOK
  <1>4. \A q \in Requests : at[q] = "upstream" => row'[slot[q]] = row[slot[q]]
    <2> TAKE q \in Requests
    <2> HAVE at[q] = "upstream"
    <2>1. row[slot[q]] = q /\ slot[q] \in Slots /\ q # r
      BY <1>1, InFlightSlot
    <2> QED BY <1>1, <1>2, <2>1 DEF DataOK
  <1>5. CASE failed[r] + 1 = ReleaseAttempts
    <2>1. Leave(r)
      BY <1>5 DEF ReleaseFails
    <2> QED BY <1>1, <1>3, <1>4, <2>1, LeaveInv DEF DataOK
  <1>6. CASE failed[r] + 1 # ReleaseAttempts
    <2>1. failed' = [failed EXCEPT ![r] = @ + 1] /\ UNCHANGED <<at, slot, todo>>
      BY <1>6 DEF ReleaseFails
    <2>2. failed[r] \in 0..ReleaseAttempts - 1
      BY <1>1 DEF FlowOK
    <2>3. failed[r] + 1 \in 0..ReleaseAttempts - 1
      BY <1>6, <2>2 DEF ReleaseAttempts
    <2>4. FlowOK'
      BY <1>1, <2>1, <2>3 DEF FlowOK
    <2>5. DataOK'
      BY <1>1, <1>3 DEF DataOK
    <2> QED BY <1>1, <1>4, <2>1, <2>4, <2>5, DataStep
  <1> QED BY <1>5, <1>6

LEMMA CrashInv ==
  ASSUME SlotInv, NEW i \in Instances, Crash(i)
  PROVE  SlotInv'
  <1> DEFINE lost == {r \in Requests : InstanceOf[r] = i /\ at[r] # "idle"}
  <1>1. FlowOK /\ DataOK /\ 0 \in -MaxLag..Timeout /\ 0 \in 0..ReleaseAttempts - 1
    BY TypeParts, SlotAssumption DEF SlotInv, ReleaseAttempts
  <1>2. /\ row' = [p \in Slots |-> IF row[p] \in lost THEN Orphan ELSE row[p]]
        /\ at' = [r \in Requests |-> IF r \in lost THEN "idle" ELSE at[r]]
        /\ slot' = [r \in Requests |-> IF r \in lost THEN NoSlot ELSE slot[r]]
        /\ todo' = [r \in Requests |-> IF r \in lost THEN {} ELSE todo[r]]
        /\ budget' = [r \in Requests |-> IF r \in lost THEN 0 ELSE budget[r]]
        /\ failed' = [r \in Requests |-> IF r \in lost THEN 0 ELSE failed[r]]
        /\ UNCHANGED <<left, eligible>>
    BY DEF Crash
  <1> HIDE DEF lost
  <1>3. FlowOK'
    BY <1>1, <1>2 DEF FlowOK, Places
  <1>4. DataOK'
    BY <1>1, <1>2 DEF DataOK
  <1>5. \A q \in Requests : at'[q] = "upstream" =>
            /\ at[q] = "upstream" /\ slot'[q] = slot[q]
            /\ row'[slot[q]] = row[slot[q]] /\ left'[slot[q]] = left[slot[q]]
            /\ budget'[q] = budget[q]
    <2> TAKE q \in Requests
    <2> HAVE at'[q] = "upstream"
    <2>1. at[q] = "upstream" /\ q \notin lost
      BY <1>2
    <2>2. row[slot[q]] = q /\ slot[q] \in Slots
      BY <2>1, InFlightSlot
    <2> QED BY <1>2, <2>1, <2>2
  <1> QED BY <1>3, <1>4, <1>5, DataStep

LEMMA CleanUpInv ==
  ASSUME SlotInv, CleanUp
  PROVE  SlotInv'
  <1> DEFINE dead == {p \in Slots : Expired(p) /\ ~Locked(p)}
  <1>1. FlowOK /\ DataOK
    BY TypeParts DEF SlotInv
  <1>2. /\ row' = [p \in Slots |-> IF p \in dead THEN NoLease ELSE row[p]]
        /\ UNCHANGED <<left, at, slot, todo, budget, failed, eligible>>
    BY DEF CleanUp
  <1>3. \A q \in Requests : at[q] = "upstream" => slot[q] \in Slots /\ slot[q] \notin dead
    BY InFlightSlot
  <1> HIDE DEF dead
  <1>4. FlowOK' /\ DataOK'
    BY <1>1, <1>2 DEF FlowOK, DataOK
  <1> QED BY <1>2, <1>3, <1>4, DataStep

LEMMA TickInv ==
  ASSUME SlotInv, Tick
  PROVE  SlotInv'
  <1>1. /\ \A r \in Requests : at[r] = "upstream" => budget[r] > -MaxLag
        /\ left' = [p \in Slots |-> IF left[p] > 0 THEN left[p] - 1 ELSE 0]
        /\ budget' = [r \in Requests |-> Less(r)]
        /\ UNCHANGED <<row, at, slot, todo, failed, eligible>>
        /\ FlowOK /\ DataOK
    BY TypeParts DEF Tick, SlotInv
  <1>2. left' \in [Slots -> 0..LeaseLength]
    <2>1. \A p \in Slots : left[p] \in 0..LeaseLength
      BY <1>1 DEF DataOK
    <2> QED BY <1>1, <2>1, LengthFacts
  <1>3. budget' \in [Requests -> -MaxLag..Timeout]
    <2>1. \A r \in Requests : Less(r) \in -MaxLag..Timeout
      <3> TAKE r \in Requests
      <3>1. budget[r] \in -MaxLag..Timeout /\ (at[r] = "upstream" => budget[r] > -MaxLag)
        BY <1>1 DEF DataOK
      <3>2. CASE budget[r] > 0 \/ at[r] = "upstream"
        BY <3>1, <3>2, SlotAssumption DEF Less
      <3>3. CASE ~(budget[r] > 0 \/ at[r] = "upstream")
        BY <3>1, <3>3 DEF Less
      <3> QED BY <3>2, <3>3
    <2> QED BY <1>1, <2>1
  <1>4. FlowOK' /\ DataOK'
    BY <1>1, <1>2, <1>3 DEF FlowOK, DataOK
  <1>5. TypeOK'
    BY <1>4, TypeParts DEF FlowOK, DataOK, TypeOK
  <1>6. LeaseCoversUse'
    <2> SUFFICES ASSUME NEW q \in Requests, at'[q] = "upstream"
                 PROVE  /\ row'[slot'[q]] = q
                        /\ left'[slot'[q]] > 0
                        /\ left'[slot'[q]] >= budget'[q] + Slack
      BY DEF LeaseCoversUse
    <2> DEFINE p == slot[q]
    <2>1. at[q] = "upstream" /\ p \in Slots /\ left[p] \in Int /\ budget[q] \in Int
      BY <1>1, InFlightFacts DEF SlotInv
    <2>2. row[p] = q /\ left[p] > 0 /\ left[p] >= budget[q] + Slack
      BY <2>1 DEF SlotInv, LeaseCoversUse
    <2>3. budget[q] > -MaxLag
      BY <1>1, <2>1
    <2>4. row'[slot'[q]] = q /\ left'[slot'[q]] = left[p] - 1 /\ budget'[q] = budget[q] - 1
      BY <1>1, <2>1, <2>2 DEF Less
    <2> HIDE DEF p
    <2>5. left[p] - 1 > 0 /\ left[p] - 1 >= budget[q] - 1 + Slack
      BY <2>1, <2>2, <2>3, SlotAssumption
    <2> QED BY <2>4, <2>5
  <1> QED BY <1>5, <1>6 DEF SlotInv

-----------------------------------------------------------------------------

LEMMA InitSlotInv == Init => SlotInv
  <1>1. Init => FlowOK
    BY DEF Init, FlowOK, Places, ReleaseAttempts
  <1>2. 0 \in -MaxLag..Timeout /\ 0 \in 0..LeaseLength
    BY SlotAssumption, LengthFacts
  <1>3. Init => DataOK
    BY <1>2 DEF Init, DataOK
  <1>4. Init => LeaseCoversUse
    BY DEF Init, LeaseCoversUse
  <1> QED BY <1>1, <1>3, <1>4, TypeParts DEF SlotInv

LEMMA NextSlotInv == SlotInv /\ [Next]_vars => SlotInv'
  <1> SUFFICES ASSUME SlotInv, [Next]_vars PROVE SlotInv'
    OBVIOUS
  <1>1. ASSUME NEW r \in Requests, NEW b \in 1..Timeout, Arrive(r, b) PROVE SlotInv'
    BY <1>1, ArriveInv
  <1>2. ASSUME NEW r \in Requests, Wake(r) \/ GiveUp(r) \/ Ask(r) \/ Insert(r) PROVE SlotInv'
    BY <1>2, WakeInv, GiveUpInv, AskInv, InsertInv
  <1>3. ASSUME NEW r \in Requests,
               AcquireFails(r) \/ UpstreamEnds(r) \/ UpstreamRejects(r) \/ Settle(r)
        PROVE  SlotInv'
    BY <1>3, AcquireFailsInv, EndsInv, SettleInv
  <1>4. ASSUME NEW r \in Requests, Release(r) \/ ReleaseFails(r) \/ ClientAborts(r)
        PROVE  SlotInv'
    BY <1>4, ReleaseInv, ReleaseFailsInv, ClientAbortsInv
  <1>5. ASSUME NEW i \in Instances, Crash(i) PROVE SlotInv'
    BY <1>5, CrashInv
  <1>6. ASSUME NEW a \in Accounts, ChangeEligibility(a) PROVE SlotInv'
    <2>1. FlowOK /\ DataOK /\ UNCHANGED <<row, left, at, slot, todo, budget, failed>>
      BY <1>6, TypeParts DEF SlotInv, ChangeEligibility
    <2>2. eligible' \in SUBSET Accounts
      BY <1>6, <2>1 DEF ChangeEligibility, DataOK
    <2>3. FlowOK'
      BY <2>1 DEF FlowOK
    <2> QED BY <2>1, <2>2, <2>3, QuietFlow
  <1>7. CASE CleanUp
    BY <1>7, CleanUpInv
  <1>8. CASE Tick
    BY <1>8, TickInv
  <1>9. CASE UNCHANGED vars
    BY <1>9 DEF vars, SlotInv, TypeOK, LeaseCoversUse
  <1> QED
    BY <1>1, <1>2, <1>3, <1>4, <1>5, <1>6, <1>7, <1>8, <1>9 DEF Next

-----------------------------------------------------------------------------

\* The inductive invariant holds in every reachable state.
THEOREM SlotInvariant == Spec => []SlotInv
  BY InitSlotInv, NextSlotInv, PTL DEF Spec

\* A call in flight always has an unexpired lease of its own.
THEOREM SlotLease == Spec => []LeaseCoversUse
  <1>1. SlotInv => LeaseCoversUse
    BY DEF SlotInv
  <1> QED BY <1>1, SlotInvariant, PTL

\* Two calls in flight on one account hold two of its slots, so there are no
\* more of them than slots.
LEMMA SlotsBoundCalls == SlotInv => SlotLimit
  <1> SUFFICES ASSUME SlotInv, NEW a \in Accounts
               PROVE  Cardinality(InFlight(a)) <= Concurrency
    BY DEF SlotLimit
  <1> DEFINE number == [r \in InFlight(a) |-> slot[r][2]]
  <1>1. \A r \in InFlight(a) :
           /\ r \in Requests /\ at[r] = "upstream" /\ slot[r] \in Slots
           /\ slot[r][1] = a /\ row[slot[r]] = r /\ slot[r][2] \in 0..Concurrency - 1
    BY InFlightSlot, SlotFacts DEF InFlight
  <1>2. \A p, q \in Slots : p[1] = q[1] /\ p[2] = q[2] => p = q
    BY DEF Slots
  <1>3. \A r, q \in InFlight(a) : slot[r][2] = slot[q][2] => r = q
    BY <1>1, <1>2
  <1>4. number \in Injection(InFlight(a), 0..Concurrency - 1)
    <2>1. number \in [InFlight(a) -> 0..Concurrency - 1]
      BY <1>1
    <2>2. \A r, q \in InFlight(a) : number[r] = number[q] => r = q
      BY <1>3
    <2>3. IsInjective(number)
      BY <2>2, Zenon DEF IsInjective
    <2> QED BY <2>1, <2>3, Zenon DEF Injection
  <1>5. IsFiniteSet(0..Concurrency - 1) /\ Cardinality(0..Concurrency - 1) = Concurrency
    <2>1. 0 \in Int /\ Concurrency - 1 \in Int /\ ~(0 > Concurrency - 1)
          /\ (Concurrency - 1) - 0 + 1 = Concurrency
      BY SlotAssumption
    <2> QED BY <2>1, FS_Interval
  <1> QED BY <1>4, <1>5, FS_Injection

\* An account never carries more upstream calls than it has slots, whatever
\* the number of instances, requests and slots.
THEOREM SlotLimitHolds == Spec => []SlotLimit
  BY SlotInvariant, SlotsBoundCalls, PTL

=============================================================================
