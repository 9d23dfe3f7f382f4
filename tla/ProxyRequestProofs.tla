------------------------- MODULE ProxyRequestProofs -------------------------
(***************************************************************************)
(* For every number of connections, workers and slots: worker and slot come *)
(* back exactly once, a chat completion is logged at most once, and an      *)
(* answer names its cause.                                                  *)
(***************************************************************************)
EXTENDS ProxyRequest, FiniteSetTheorems, SequenceTheorems, TLAPS

\* Finitely many connections at a time; numbers of workers and slots.
RequestConfig == IsFiniteSet(Connections) /\ Workers \in Nat /\ Slots \in Nat

-----------------------------------------------------------------------------
(* The inductive invariant.                                                *)

WorkerHolders == {r \in Connections : hasWorker[r]}
SlotHolders == {r \in Connections : hasSlot[r]}

LineTypes ==
    /\ pc \in [Connections -> PCs]
    /\ queue \in Seq(Connections)
    /\ spare \in Nat
    /\ hasWorker \in [Connections -> BOOLEAN]

\* The line holds requests that wait, each once, and only while no worker is
\* spare.
LineIsWaiting ==
    /\ \A k \in DOMAIN queue : pc[queue[k]] = "queued"
    /\ \A j, k \in DOMAIN queue : queue[j] = queue[k] => j = k
    /\ queue # <<>> => spare = 0
    /\ \A r \in Connections : pc[r] = "queued" => ~hasWorker[r]

LineInv ==
    /\ LineTypes
    /\ LineIsWaiting
    /\ spare + Cardinality(WorkerHolders) = Workers

SlotInv ==
    /\ free \in Nat
    /\ hasSlot \in [Connections -> BOOLEAN]
    /\ free + Cardinality(SlotHolders) = Slots

DataTypes ==
    /\ kind \in [Connections -> Kinds]
    /\ fired \in [Connections -> SUBSET {"client", "timeout"}]
    /\ error \in [Connections -> Errors]
    /\ answer \in [Connections -> Nat]
    /\ status \in [Connections -> Nat]
    /\ logs \in [Connections -> {0, 1}]

\* Where a request may hold a worker, and where a slot.
HoldsWhereItMay(r) ==
    /\ hasWorker[r] => pc[r] \in {"granted", "body", "slot", "fetch", "settle",
                                  "streaming", "sending", "closing"}
    /\ hasSlot[r] => pc[r] \in {"fetch", "settle", "streaming", "sending"}

\* What is known of a request that has no answer yet.
Unanswered(r) ==
    /\ pc[r] \in {"queued", "granted", "body", "slot", "fetch"} =>
          error[r] = "none" /\ answer[r] = 0
    /\ pc[r] = "failed" => answer[r] = 0
    /\ error[r] = "aborted" => fired[r] # {}

\* What is known of one that the upstream has answered.
Answered(r) ==
    /\ pc[r] \in {"settle", "streaming", "sending", "closing", "draining"} =>
          answer[r] \in {200, 404} /\ status[r] = answer[r]
    /\ pc[r] \in {"sending", "closing"} /\ kind[r] # "models" => logs[r] = 1

\* What the two properties say of one that is over.
Ended(r) ==
    pc[r] = "done" =>
        /\ kind[r] # "models" => logs[r] = 1 \/ (error[r] = "none" /\ answer[r] = 0)
        /\ answer[r] # 0 => status[r] = answer[r]
        /\ status[r] = 499 => fired[r] # {}
        /\ status[r] = 504 => "timeout" \in fired[r]
        /\ status[r] \in {500, 502} => "timeout" \notin fired[r]

Sound(r) == HoldsWhereItMay(r) /\ Unanswered(r) /\ Answered(r) /\ Ended(r)

RequestInv ==
    /\ LineInv
    /\ SlotInv
    /\ DataTypes
    /\ \A r \in Connections : Sound(r)

-----------------------------------------------------------------------------
(* What a step of r does to the other requests.                            *)

\* The others stand where they stood, or are handed a worker.
LineFrame(r) ==
    \A q \in Connections \ {r} :
        \/ pc'[q] = pc[q] /\ hasWorker'[q] = hasWorker[q]
        \/ pc[q] = "queued" /\ pc'[q] = "granted"

SlotFrame(r) == \A q \in Connections \ {r} : hasSlot'[q] = hasSlot[q]

DataFrame(r) ==
    \A q \in Connections \ {r} :
        /\ kind'[q] = kind[q] /\ fired'[q] = fired[q] /\ error'[q] = error[q]
        /\ answer'[q] = answer[q] /\ status'[q] = status[q] /\ logs'[q] = logs[q]

LEMMA OthersStaySound ==
    ASSUME NEW r, NEW q \in Connections \ {r}, Sound(q),
           LineFrame(r), SlotFrame(r), DataFrame(r)
    PROVE  Sound(q)'
<1>1. /\ kind'[q] = kind[q] /\ fired'[q] = fired[q] /\ error'[q] = error[q]
      /\ answer'[q] = answer[q] /\ status'[q] = status[q] /\ logs'[q] = logs[q]
      /\ hasSlot'[q] = hasSlot[q]
    BY DEF SlotFrame, DataFrame
<1>2. CASE pc'[q] = pc[q] /\ hasWorker'[q] = hasWorker[q]
    BY <1>1, <1>2 DEF Sound, HoldsWhereItMay, Unanswered, Answered, Ended
<1>3. CASE pc[q] = "queued" /\ pc'[q] = "granted"
    BY <1>1, <1>3 DEF Sound, HoldsWhereItMay, Unanswered, Answered, Ended
<1> QED
    BY <1>2, <1>3 DEF LineFrame

-----------------------------------------------------------------------------
(* The line and its workers.                                               *)

LEMMA StagesAre ==
    /\ {"idle", "queued", "granted", "body", "slot", "fetch", "settle", "streaming",
        "sending", "closing", "draining", "failed", "done"} \subseteq PCs
    /\ Open = {"streaming", "sending", "closing"}
BY DEF PCs, Open

LEMMA HoldersCounted ==
    ASSUME RequestConfig
    PROVE  /\ IsFiniteSet(WorkerHolders) /\ Cardinality(WorkerHolders) \in Nat
           /\ IsFiniteSet(SlotHolders) /\ Cardinality(SlotHolders) \in Nat
BY FS_Subset, FS_CardinalityType DEF RequestConfig, WorkerHolders, SlotHolders

\* The handler goes on without the pool.
LEMMA MoveKeepsLine ==
    ASSUME LineInv, NEW r \in Connections, NEW next \in PCs,
           pc[r] # "queued", next # "queued",
           pc' = [pc EXCEPT ![r] = next], UNCHANGED held
    PROVE  /\ LineInv' /\ LineFrame(r)
           /\ pc'[r] = next /\ hasWorker'[r] = hasWorker[r]
<1>1. LineTypes' /\ pc'[r] = next /\ \A q \in Connections \ {r} : pc'[q] = pc[q]
    BY DEF LineInv, LineTypes, held
<1>2. \A k \in DOMAIN queue : queue[k] \in Connections
    BY ElementOfSeq, LenProperties DEF LineInv, LineTypes
<1>3. LineIsWaiting'
    BY <1>1, <1>2 DEF LineInv, LineIsWaiting, held
<1>4. WorkerHolders' = WorkerHolders
    BY DEF WorkerHolders, held
<1> QED
    BY <1>1, <1>3, <1>4 DEF LineInv, LineFrame, held

\* A worker that is given back goes to the head of the line or is spare.
LEMMA WorkerBackKeepsLine ==
    ASSUME RequestConfig, LineInv, NEW r \in Connections, NEW next \in PCs,
           pc[r] # "queued", next # "queued", WorkerBack(r, next)
    PROVE  LineInv' /\ LineFrame(r) /\ pc'[r] = next /\ ~hasWorker'[r]
<1>1. CASE ~hasWorker[r]
    <2>1. pc' = [pc EXCEPT ![r] = next] /\ UNCHANGED held
        BY <1>1 DEF WorkerBack
    <2> QED
        BY <1>1, <2>1, MoveKeepsLine DEF held
<1>2. CASE hasWorker[r] /\ queue = <<>>
    <2>1. /\ pc' = [pc EXCEPT ![r] = next]
          /\ hasWorker' = [hasWorker EXCEPT ![r] = FALSE]
          /\ spare' = spare + 1 /\ queue' = queue
        BY <1>2 DEF WorkerBack
    <2>2. /\ LineTypes' /\ pc'[r] = next /\ ~hasWorker'[r]
          /\ \A q \in Connections \ {r} : pc'[q] = pc[q] /\ hasWorker'[q] = hasWorker[q]
        BY <2>1 DEF LineInv, LineTypes
    <2>3. LineIsWaiting'
        <3>1. queue' = <<>> /\ DOMAIN queue' = {}
            BY <1>2, <2>1
        <3> QED
            BY <2>2, <3>1 DEF LineInv, LineIsWaiting
    <2>4. WorkerHolders' = WorkerHolders \ {r} /\ r \in WorkerHolders
        BY <1>2, <2>2 DEF WorkerHolders
    <2>5. Cardinality(WorkerHolders') = Cardinality(WorkerHolders) - 1
        BY <2>4, HoldersCounted, FS_RemoveElement
    <2> QED
        BY <2>1, <2>2, <2>3, <2>5, HoldersCounted DEF LineInv, LineTypes, LineFrame
<1>3. CASE hasWorker[r] /\ queue # <<>>
    <2> DEFINE h == Head(queue)
    <2>1. /\ pc' = [pc EXCEPT ![r] = next, ![h] = "granted"]
          /\ hasWorker' = [hasWorker EXCEPT ![r] = FALSE, ![h] = TRUE]
          /\ queue' = Tail(queue) /\ spare' = spare
        BY <1>3 DEF WorkerBack
    <2>2. /\ queue \in Seq(Connections) /\ Len(queue) \in Nat \ {0}
          /\ DOMAIN queue = 1..Len(queue)
          /\ h = queue[1] /\ 1 \in DOMAIN queue
          /\ \A k \in DOMAIN queue : queue[k] \in Connections
        BY <1>3, EmptySeq, ElementOfSeq, LenProperties DEF LineInv, LineTypes
    <2>3. h \in Connections /\ pc[h] = "queued" /\ h # r /\ ~hasWorker[h]
        BY <2>2 DEF LineInv, LineIsWaiting
    <2>4. /\ queue' \in Seq(Connections) /\ Len(queue') = Len(queue) - 1
          /\ DOMAIN queue' = 1..(Len(queue) - 1)
          /\ \A k \in 1..(Len(queue) - 1) : queue'[k] = queue[k + 1]
        BY <1>3, <2>1, <2>2, HeadTailProperties, LenProperties
    <2> HIDE DEF h
    <2>5. /\ pc' \in [Connections -> PCs] /\ hasWorker' \in [Connections -> BOOLEAN]
          /\ pc'[r] = next /\ ~hasWorker'[r] /\ pc'[h] = "granted" /\ hasWorker'[h]
          /\ \A q \in Connections \ {r, h} : pc'[q] = pc[q] /\ hasWorker'[q] = hasWorker[q]
        <3>1. pc \in [Connections -> PCs] /\ hasWorker \in [Connections -> BOOLEAN]
            BY DEF LineInv, LineTypes
        <3>2. [pc EXCEPT ![r] = next] \in [Connections -> PCs] /\ "granted" \in PCs
            BY <3>1, StagesAre
        <3>3. pc' \in [Connections -> PCs] /\ pc'[r] = next /\ pc'[h] = "granted"
            BY <2>1, <2>3, <3>1, <3>2
        <3>4. hasWorker' \in [Connections -> BOOLEAN] /\ ~hasWorker'[r] /\ hasWorker'[h]
            BY <2>1, <2>3, <3>1
        <3>5. \A q \in Connections \ {r, h} : pc'[q] = pc[q]
            BY <2>1, <3>1
        <3>6. \A q \in Connections \ {r, h} : hasWorker'[q] = hasWorker[q]
            BY <2>1, <3>1
        <3> QED
            BY <3>3, <3>4, <3>5, <3>6
    <2>6. LineTypes'
        BY <2>1, <2>4, <2>5 DEF LineInv, LineTypes
    <2>7. LineIsWaiting'
        <3>1. \A k \in 1..(Len(queue) - 1) : k + 1 \in DOMAIN queue /\ k + 1 # 1
            BY <2>2
        <3>2. ASSUME NEW k \in 1..(Len(queue) - 1)
              PROVE  queue'[k] \in Connections \ {r, h} /\ pc[queue'[k]] = "queued"
            BY <2>2, <2>4, <3>1 DEF LineInv, LineIsWaiting
        <3>3. \A k \in DOMAIN queue' : pc'[queue'[k]] = "queued"
            BY <2>4, <2>5, <3>2
        <3>4. ASSUME NEW j \in 1..(Len(queue) - 1), NEW k \in 1..(Len(queue) - 1),
                     queue'[j] = queue'[k]
              PROVE  j = k
            <4>1. queue[j + 1] = queue[k + 1]
                BY <2>4, <3>4
            <4>2. j + 1 = k + 1
                BY <3>1, <4>1 DEF LineInv, LineIsWaiting
            <4> QED BY <4>2
        <3>5. spare' = 0
            BY <1>3, <2>1 DEF LineInv, LineIsWaiting
        <3>6. \A q \in Connections : pc'[q] = "queued" => ~hasWorker'[q]
            BY <2>3, <2>5 DEF LineInv, LineIsWaiting
        <3> QED
            BY <2>4, <3>3, <3>4, <3>5, <3>6 DEF LineIsWaiting
    <2>8. Cardinality(WorkerHolders') = Cardinality(WorkerHolders)
        <3>1. WorkerHolders' = (WorkerHolders \ {r}) \cup {h}
            BY <2>3, <2>5 DEF WorkerHolders
        <3>2. r \in WorkerHolders /\ h \notin WorkerHolders
            BY <1>3, <2>3 DEF WorkerHolders
        <3>3. /\ IsFiniteSet(WorkerHolders \ {r})
              /\ Cardinality(WorkerHolders \ {r}) = Cardinality(WorkerHolders) - 1
            BY <3>2, HoldersCounted, FS_RemoveElement
        <3>4. Cardinality((WorkerHolders \ {r}) \cup {h}) = Cardinality(WorkerHolders \ {r}) + 1
            BY <3>2, <3>3, FS_AddElement
        <3> QED
            BY <3>1, <3>3, <3>4, HoldersCounted
    <2>9. LineFrame(r)
        BY <2>3, <2>5 DEF LineFrame
    <2> QED
        BY <2>1, <2>5, <2>6, <2>7, <2>8, <2>9 DEF LineInv
<1> QED
    BY <1>1, <1>2, <1>3

-----------------------------------------------------------------------------
(* Leaving a sequence.                                                     *)

\* The first k elements of a sequence.
LEMMA PrefixFacts ==
    ASSUME NEW S, NEW s \in Seq(S), NEW k \in 0..Len(s)
    PROVE  /\ SubSeq(s, 1, k) \in Seq(S)
           /\ Len(SubSeq(s, 1, k)) = k
           /\ \A i \in 1..k : SubSeq(s, 1, k)[i] = s[i]
<1>1. Len(s) \in Nat /\ \A i \in 1..k : s[i] \in S
    BY LenProperties, ElementOfSeq
<1> QED
    BY <1>1, SubSeqProperties

\* The elements of a sequence after the first k.
LEMMA SuffixFacts ==
    ASSUME NEW S, NEW s \in Seq(S), NEW k \in 0..Len(s)
    PROVE  /\ SubSeq(s, k + 1, Len(s)) \in Seq(S)
           /\ Len(SubSeq(s, k + 1, Len(s))) = Len(s) - k
           /\ \A i \in 1..(Len(s) - k) : SubSeq(s, k + 1, Len(s))[i] = s[i + k]
<1>1. Len(s) \in Nat /\ \A i \in (k + 1)..Len(s) : s[i] \in S
    BY LenProperties, ElementOfSeq
<1> QED
    BY <1>1, SubSeqProperties

\* Deleting one entry of the queue keeps the others, in their order.
LEMMA RemoveAtFacts ==
    ASSUME NEW S, NEW s \in Seq(S), NEW k \in 1..Len(s)
    PROVE  /\ RemoveAt(s, k) \in Seq(S)
           /\ Len(RemoveAt(s, k)) = Len(s) - 1
           /\ \A i \in 1..(Len(s) - 1) :
                 RemoveAt(s, k)[i] = IF i < k THEN s[i] ELSE s[i + 1]
<1> DEFINE a == SubSeq(s, 1, k - 1)
           b == SubSeq(s, k + 1, Len(s))
<1>1. Len(s) \in Nat /\ k \in 0..Len(s) /\ k - 1 \in 0..Len(s)
    BY LenProperties
<1>2. a \in Seq(S) /\ Len(a) = k - 1 /\ \A i \in 1..(k - 1) : a[i] = s[i]
    BY <1>1, PrefixFacts
<1>3. /\ b \in Seq(S) /\ Len(b) = Len(s) - k
      /\ \A i \in 1..(Len(s) - k) : b[i] = s[i + k]
    BY <1>1, SuffixFacts
<1>4. /\ a \o b \in Seq(S)
      /\ Len(a \o b) = Len(s) - 1
      /\ \A i \in 1..(Len(s) - 1) :
            (a \o b)[i] = IF i <= k - 1 THEN a[i] ELSE b[i - (k - 1)]
    <2> HIDE DEF a, b
    <2>1. /\ a \o b \in Seq(S)
          /\ Len(a \o b) = Len(a) + Len(b)
          /\ \A i \in 1..(Len(a) + Len(b)) :
                (a \o b)[i] = IF i <= Len(a) THEN a[i] ELSE b[i - Len(a)]
        BY <1>2, <1>3, ConcatProperties
    <2>2. Len(a) + Len(b) = Len(s) - 1
        BY <1>1, <1>2, <1>3
    <2> QED BY <1>2, <2>1, <2>2
<1>5. ASSUME NEW i \in 1..(Len(s) - 1)
      PROVE  (a \o b)[i] = IF i < k THEN s[i] ELSE s[i + 1]
    <2> HIDE DEF a, b
    <2>1. CASE i < k
        <3>1. i <= k - 1 /\ i \in 1..(k - 1)
            BY <1>1, <2>1
        <3> QED BY <1>2, <1>4, <2>1, <3>1
    <2>2. CASE ~(i < k)
        <3>1. ~(i <= k - 1) /\ i - (k - 1) \in 1..(Len(s) - k) /\ i - (k - 1) + k = i + 1
            BY <1>1, <2>2
        <3>2. b[i - (k - 1)] = s[i + 1]
            BY <1>3, <3>1
        <3> QED BY <1>4, <2>2, <3>1, <3>2
    <2> QED BY <2>1, <2>2
<1> QED
    BY <1>4, <1>5 DEF RemoveAt

\* A request that gives up waiting leaves the line.
LEMMA LeaveKeepsLine ==
    ASSUME LineInv, NEW r \in Connections, NEW next \in PCs, next # "queued",
           Leave(r), pc' = [pc EXCEPT ![r] = next], UNCHANGED <<spare, hasWorker>>
    PROVE  /\ LineInv' /\ LineFrame(r)
           /\ pc'[r] = next /\ hasWorker'[r] = hasWorker[r]
<1>1. PICK k \in DOMAIN queue : queue[k] = r /\ queue' = RemoveAt(queue, k)
    BY DEF Leave
<1>2. queue \in Seq(Connections) /\ Len(queue) \in Nat /\ DOMAIN queue = 1..Len(queue)
    BY LenProperties DEF LineInv, LineTypes
<1>3. /\ queue' \in Seq(Connections) /\ DOMAIN queue' = 1..(Len(queue) - 1)
      /\ \A i \in 1..(Len(queue) - 1) :
            queue'[i] = IF i < k THEN queue[i] ELSE queue[i + 1]
    BY <1>1, <1>2, RemoveAtFacts, LenProperties
<1>4. /\ LineTypes' /\ pc'[r] = next
      /\ \A q \in Connections \ {r} : pc'[q] = pc[q]
    BY <1>3 DEF LineInv, LineTypes
<1> DEFINE from(i) == IF i < k THEN i ELSE i + 1
<1>5. ASSUME NEW i \in 1..(Len(queue) - 1)
      PROVE  /\ from(i) \in DOMAIN queue /\ from(i) # k /\ queue'[i] = queue[from(i)]
             /\ queue'[i] \in Connections \ {r} /\ pc[queue'[i]] = "queued"
    <2>1. from(i) \in DOMAIN queue /\ from(i) # k /\ queue'[i] = queue[from(i)]
        BY <1>1, <1>2, <1>3
    <2>2. queue[from(i)] # r
        BY <1>1, <2>1 DEF LineInv, LineIsWaiting
    <2>3. pc[queue[from(i)]] = "queued" /\ queue[from(i)] \in Connections
        BY <1>2, <2>1, ElementOfSeq DEF LineInv, LineIsWaiting
    <2> QED BY <2>1, <2>2, <2>3
<1>6. LineIsWaiting'
    <2>1. \A i \in DOMAIN queue' : pc'[queue'[i]] = "queued"
        BY <1>3, <1>4, <1>5
    <2>2. ASSUME NEW i \in 1..(Len(queue) - 1), NEW j \in 1..(Len(queue) - 1),
                 queue'[i] = queue'[j]
          PROVE  i = j
        <3>1. queue[from(i)] = queue[from(j)] /\ from(i) \in DOMAIN queue /\ from(j) \in DOMAIN queue
            BY <1>5, <2>2
        <3>2. from(i) = from(j)
            BY <3>1 DEF LineInv, LineIsWaiting
        <3> QED
            BY <1>1, <1>2, <3>2
    <2>3. spare' = 0
        <3>1. queue # <<>>
            BY <1>1, <1>2
        <3> QED
            BY <3>1 DEF LineInv, LineIsWaiting
    <2>4. \A q \in Connections : pc'[q] = "queued" => ~hasWorker'[q]
        BY <1>4 DEF LineInv, LineIsWaiting
    <2> QED
        BY <1>3, <2>1, <2>2, <2>3, <2>4 DEF LineIsWaiting
<1>7. WorkerHolders' = WorkerHolders
    BY DEF WorkerHolders
<1> QED
    BY <1>4, <1>6, <1>7 DEF LineInv, LineFrame

\* A request that arrives takes a spare worker.
LEMMA GrantKeepsLine ==
    ASSUME RequestConfig, LineInv, NEW r \in Connections, ~hasWorker[r],
           pc[r] # "queued", spare > 0, spare' = spare - 1,
           hasWorker' = [hasWorker EXCEPT ![r] = TRUE],
           pc' = [pc EXCEPT ![r] = "granted"], UNCHANGED queue
    PROVE  LineInv' /\ LineFrame(r) /\ pc'[r] = "granted"
<1>0. "granted" \in PCs
    BY StagesAre
<1>1. /\ LineTypes' /\ pc'[r] = "granted" /\ hasWorker'[r]
      /\ \A q \in Connections \ {r} : pc'[q] = pc[q] /\ hasWorker'[q] = hasWorker[q]
    BY <1>0 DEF LineInv, LineTypes
<1>2. queue = <<>> /\ queue' = <<>> /\ DOMAIN queue' = {}
    BY DEF LineInv, LineIsWaiting
<1>3. LineIsWaiting'
    BY <1>1, <1>2 DEF LineInv, LineIsWaiting
<1>4. WorkerHolders' = WorkerHolders \cup {r} /\ r \notin WorkerHolders
    BY <1>1 DEF WorkerHolders
<1>5. Cardinality(WorkerHolders') = Cardinality(WorkerHolders) + 1
    BY <1>4, HoldersCounted, FS_AddElement
<1> QED
    BY <1>1, <1>3, <1>5, HoldersCounted DEF LineInv, LineTypes, LineFrame

\* A request that arrives joins the line.
LEMMA EnqueueKeepsLine ==
    ASSUME LineInv, NEW r \in Connections, ~hasWorker[r], pc[r] # "queued", spare = 0,
           queue' = Append(queue, r), pc' = [pc EXCEPT ![r] = "queued"],
           UNCHANGED <<spare, hasWorker>>
    PROVE  LineInv' /\ LineFrame(r) /\ pc'[r] = "queued"
<1>0. "queued" \in PCs
    BY StagesAre
<1> DEFINE n == Len(queue)
<1>1. queue \in Seq(Connections) /\ n \in Nat /\ DOMAIN queue = 1..n
    BY LenProperties DEF LineInv, LineTypes
<1>2. /\ queue' \in Seq(Connections) /\ DOMAIN queue' = 1..(n + 1)
      /\ \A k \in 1..n : queue'[k] = queue[k]
      /\ queue'[n + 1] = r
    BY <1>1, AppendProperties, LenProperties
<1>3. /\ LineTypes' /\ pc'[r] = "queued"
      /\ \A q \in Connections \ {r} : pc'[q] = pc[q]
    BY <1>0, <1>2 DEF LineInv, LineTypes
<1>4. \A k \in 1..n : queue[k] \in Connections \ {r} /\ pc[queue[k]] = "queued"
    BY <1>1, ElementOfSeq DEF LineInv, LineIsWaiting
<1>5. LineIsWaiting'
    <2>1. \A k \in DOMAIN queue' : pc'[queue'[k]] = "queued"
        BY <1>1, <1>2, <1>3, <1>4
    <2>2. ASSUME NEW j \in 1..(n + 1), NEW k \in 1..(n + 1), queue'[j] = queue'[k]
          PROVE  j = k
        <3>1. CASE j \in 1..n /\ k \in 1..n
            BY <1>1, <1>2, <2>2, <3>1 DEF LineInv, LineIsWaiting
        <3>2. CASE ~(j \in 1..n /\ k \in 1..n)
            BY <1>1, <1>2, <1>4, <2>2, <3>2
        <3> QED BY <3>1, <3>2
    <2>3. \A q \in Connections : pc'[q] = "queued" => ~hasWorker'[q]
        BY <1>3 DEF LineInv, LineIsWaiting
    <2> QED
        BY <1>2, <2>1, <2>2, <2>3 DEF LineIsWaiting
<1>6. WorkerHolders' = WorkerHolders
    BY DEF WorkerHolders
<1> QED
    BY <1>3, <1>5, <1>6 DEF LineInv, LineFrame

-----------------------------------------------------------------------------
(* The slots.                                                              *)

LEMMA SlotBackKeepsSlots ==
    ASSUME RequestConfig, SlotInv, NEW r \in Connections, SlotBack(r)
    PROVE  SlotInv' /\ SlotFrame(r) /\ ~hasSlot'[r]
<1>1. /\ hasSlot' \in [Connections -> BOOLEAN] /\ ~hasSlot'[r]
      /\ \A q \in Connections \ {r} : hasSlot'[q] = hasSlot[q]
    BY DEF SlotInv, SlotBack
<1>2. CASE hasSlot[r]
    <2>1. SlotHolders' = SlotHolders \ {r} /\ r \in SlotHolders
        BY <1>1, <1>2 DEF SlotHolders
    <2>2. Cardinality(SlotHolders') = Cardinality(SlotHolders) - 1
        BY <2>1, HoldersCounted, FS_RemoveElement
    <2>3. free' = free + 1
        BY <1>2 DEF SlotBack
    <2> QED
        BY <1>1, <2>2, <2>3, HoldersCounted DEF SlotInv, SlotFrame
<1>3. CASE ~hasSlot[r]
    <2>1. SlotHolders' = SlotHolders
        BY <1>1, <1>3 DEF SlotHolders
    <2>2. free' = free
        BY <1>3 DEF SlotBack
    <2> QED
        BY <1>1, <2>1, <2>2 DEF SlotInv, SlotFrame
<1> QED
    BY <1>2, <1>3

LEMMA TakeKeepsSlots ==
    ASSUME RequestConfig, SlotInv, NEW r \in Connections, ~hasSlot[r],
           free > 0, free' = free - 1, hasSlot' = [hasSlot EXCEPT ![r] = TRUE]
    PROVE  SlotInv' /\ SlotFrame(r)
<1>1. /\ hasSlot' \in [Connections -> BOOLEAN] /\ hasSlot'[r]
      /\ \A q \in Connections \ {r} : hasSlot'[q] = hasSlot[q]
    BY DEF SlotInv
<1>2. SlotHolders' = SlotHolders \cup {r} /\ r \notin SlotHolders
    BY <1>1 DEF SlotHolders
<1>3. Cardinality(SlotHolders') = Cardinality(SlotHolders) + 1
    BY <1>2, HoldersCounted, FS_AddElement
<1> QED
    BY <1>1, <1>3, HoldersCounted DEF SlotInv, SlotFrame

LEMMA StillSlots ==
    ASSUME SlotInv, NEW r, UNCHANGED <<free, hasSlot>>
    PROVE  SlotInv' /\ SlotFrame(r) /\ hasSlot'[r] = hasSlot[r]
BY DEF SlotInv, SlotFrame, SlotHolders

-----------------------------------------------------------------------------
(* The steps of a request.                                                 *)

\* A step of r that keeps the line, the slots, the data and the others, and
\* leaves r sound.
Keeps(r) ==
    /\ LineInv' /\ LineFrame(r)
    /\ SlotInv' /\ SlotFrame(r)
    /\ DataTypes' /\ DataFrame(r)
    /\ Sound(r)'

LEMMA FreshData ==
    ASSUME DataTypes, NEW r \in Connections, NEW k \in Kinds, NEW e \in Errors,
           Fresh(r, k, e)
    PROVE  /\ DataTypes' /\ DataFrame(r)
           /\ fired'[r] = {} /\ error'[r] = e /\ answer'[r] = 0 /\ status'[r] = 0
<1>1. kind' \in [Connections -> Kinds] /\ error' \in [Connections -> Errors]
    BY DEF DataTypes, Fresh
<1>2. /\ fired' \in [Connections -> SUBSET {"client", "timeout"}]
      /\ answer' \in [Connections -> Nat] /\ status' \in [Connections -> Nat]
      /\ logs' \in [Connections -> {0, 1}]
    BY DEF DataTypes, Fresh
<1>3. DataFrame(r)
    BY DEF DataTypes, Fresh, DataFrame
<1>4. fired'[r] = {} /\ error'[r] = e /\ answer'[r] = 0 /\ status'[r] = 0
    BY DEF DataTypes, Fresh
<1> QED
    BY <1>1, <1>2, <1>3, <1>4 DEF DataTypes

LEMMA StillData ==
    ASSUME DataTypes, NEW r, UNCHANGED <<kind, fired, error, answer, status, logs>>
    PROVE  DataTypes' /\ DataFrame(r)
BY DEF DataTypes, DataFrame

\* The error of r alone.
LEMMA ErrorData ==
    ASSUME DataTypes, NEW r \in Connections, NEW e \in Errors,
           error' = [error EXCEPT ![r] = e],
           UNCHANGED <<kind, fired, answer, status, logs>>
    PROVE  DataTypes' /\ DataFrame(r) /\ error'[r] = e
BY DEF DataTypes, DataFrame

\* The row of call_logs of r and its status.
LEMMA LogData ==
    ASSUME DataTypes, NEW r \in Connections, NEW code \in Nat, Log(r, code),
           UNCHANGED <<kind, fired, error, answer>>
    PROVE  DataTypes' /\ DataFrame(r) /\ logs'[r] = 1 /\ status'[r] = code
BY DEF DataTypes, DataFrame, Log

LEMMA ArriveModelsKeeps ==
    ASSUME RequestInv, NEW r \in Connections, ArriveModels(r)
    PROVE  Keeps(r)
<1>1. /\ pc[r] = "idle" /\ Fresh(r, "models", "none") /\ pc' = [pc EXCEPT ![r] = "slot"]
      /\ UNCHANGED held /\ UNCHANGED <<free, hasSlot>>
    BY DEF ArriveModels
<1>2. "models" \in Kinds /\ "none" \in Errors /\ "slot" \in PCs
    BY StagesAre DEF Kinds, Errors
<1>3. LineInv' /\ LineFrame(r) /\ pc'[r] = "slot" /\ hasWorker'[r] = hasWorker[r]
    BY <1>1, <1>2, MoveKeepsLine DEF RequestInv
<1>4. SlotInv' /\ SlotFrame(r) /\ hasSlot'[r] = hasSlot[r]
    BY <1>1, StillSlots DEF RequestInv
<1>5. /\ DataTypes' /\ DataFrame(r)
      /\ fired'[r] = {} /\ error'[r] = "none" /\ answer'[r] = 0 /\ status'[r] = 0
    BY <1>1, <1>2, FreshData DEF RequestInv
<1>6. ~hasWorker[r] /\ ~hasSlot[r]
    BY <1>1 DEF RequestInv, Sound, HoldsWhereItMay
<1>7. Sound(r)'
    BY <1>3, <1>4, <1>5, <1>6 DEF Sound, HoldsWhereItMay, Unanswered, Answered, Ended
<1> QED
    BY <1>3, <1>4, <1>5, <1>7 DEF Keeps

LEMMA ArriveChatKeeps ==
    ASSUME RequestConfig, RequestInv, NEW r \in Connections, ArriveChat(r)
    PROVE  Keeps(r)
<1>1. pc[r] = "idle" /\ UNCHANGED <<free, hasSlot>>
    BY DEF ArriveChat
<1>2. /\ {"chat", "stream"} \subseteq Kinds /\ {"none", "saturated"} \subseteq Errors
      /\ {"queued", "granted", "failed"} \subseteq PCs
    BY StagesAre DEF Kinds, Errors
<1>3. SlotInv' /\ SlotFrame(r) /\ hasSlot'[r] = hasSlot[r]
    BY <1>1, StillSlots DEF RequestInv
<1>4. ~hasWorker[r] /\ ~hasSlot[r]
    BY <1>1 DEF RequestInv, Sound, HoldsWhereItMay
<1>5. PICK k \in {"chat", "stream"} :
          \/ /\ spare > 0 /\ Fresh(r, k, "none") /\ spare' = spare - 1
             /\ hasWorker' = [hasWorker EXCEPT ![r] = TRUE]
             /\ pc' = [pc EXCEPT ![r] = "granted"] /\ UNCHANGED queue
          \/ /\ spare = 0 /\ Fresh(r, k, "none")
             /\ queue' = Append(queue, r) /\ pc' = [pc EXCEPT ![r] = "queued"]
             /\ UNCHANGED <<spare, hasWorker>>
          \/ /\ spare = 0 /\ Fresh(r, k, "saturated")
             /\ pc' = [pc EXCEPT ![r] = "failed"] /\ UNCHANGED held
    BY DEF ArriveChat
<1>6. ASSUME NEW e \in Errors, Fresh(r, k, e)
      PROVE  /\ DataTypes' /\ DataFrame(r)
             /\ fired'[r] = {} /\ error'[r] = e /\ answer'[r] = 0 /\ status'[r] = 0
    BY <1>2, <1>6, FreshData DEF RequestInv
<1>7. CASE /\ spare > 0 /\ Fresh(r, k, "none") /\ spare' = spare - 1
           /\ hasWorker' = [hasWorker EXCEPT ![r] = TRUE]
           /\ pc' = [pc EXCEPT ![r] = "granted"] /\ UNCHANGED queue
    <2>1. LineInv' /\ LineFrame(r) /\ pc'[r] = "granted"
        BY <1>1, <1>4, <1>7, GrantKeepsLine DEF RequestInv
    <2>2. Sound(r)'
        BY <1>2, <1>3, <1>4, <1>6, <1>7, <2>1
        DEF Sound, HoldsWhereItMay, Unanswered, Answered, Ended
    <2> QED
        BY <1>2, <1>3, <1>6, <1>7, <2>1, <2>2 DEF Keeps
<1>8. CASE /\ spare = 0 /\ Fresh(r, k, "none")
           /\ queue' = Append(queue, r) /\ pc' = [pc EXCEPT ![r] = "queued"]
           /\ UNCHANGED <<spare, hasWorker>>
    <2>1. LineInv' /\ LineFrame(r) /\ pc'[r] = "queued"
        BY <1>1, <1>4, <1>8, EnqueueKeepsLine DEF RequestInv
    <2>2. Sound(r)'
        BY <1>2, <1>3, <1>4, <1>6, <1>8, <2>1
        DEF Sound, HoldsWhereItMay, Unanswered, Answered, Ended
    <2> QED
        BY <1>2, <1>3, <1>6, <1>8, <2>1, <2>2 DEF Keeps
<1>9. CASE /\ spare = 0 /\ Fresh(r, k, "saturated")
           /\ pc' = [pc EXCEPT ![r] = "failed"] /\ UNCHANGED held
    <2>1. LineInv' /\ LineFrame(r) /\ pc'[r] = "failed" /\ hasWorker'[r] = hasWorker[r]
        BY <1>1, <1>2, <1>9, MoveKeepsLine DEF RequestInv
    <2>2. Sound(r)'
        BY <1>2, <1>3, <1>4, <1>6, <1>9, <2>1
        DEF Sound, HoldsWhereItMay, Unanswered, Answered, Ended
    <2> QED
        BY <1>2, <1>3, <1>6, <1>9, <2>1, <2>2 DEF Keeps
<1> QED
    BY <1>5, <1>7, <1>8, <1>9

LEMMA WaitTimesOutKeeps ==
    ASSUME RequestInv, NEW r \in Connections, WaitTimesOut(r)
    PROVE  Keeps(r)
<1>1. "failed" \in PCs /\ "queueTimeout" \in Errors
    BY StagesAre DEF Errors
<1>2. LineInv' /\ LineFrame(r) /\ pc'[r] = "failed" /\ hasWorker'[r] = hasWorker[r]
    BY <1>1, LeaveKeepsLine DEF RequestInv, WaitTimesOut
<1>3. SlotInv' /\ SlotFrame(r) /\ hasSlot'[r] = hasSlot[r]
    BY StillSlots DEF RequestInv, WaitTimesOut
<1>4. DataTypes' /\ DataFrame(r) /\ error'[r] = "queueTimeout"
    BY <1>1, ErrorData DEF RequestInv, WaitTimesOut, kept
<1>5. Sound(r)'
    BY <1>2, <1>3, <1>4
    DEF RequestInv, WaitTimesOut, kept, Sound, HoldsWhereItMay, Unanswered, Answered, Ended
<1> QED
    BY <1>2, <1>3, <1>4, <1>5 DEF Keeps

LEMMA ContinueKeeps ==
    ASSUME RequestConfig, RequestInv, NEW r \in Connections, Continue(r)
    PROVE  Keeps(r)
<1>1. /\ {"body", "failed"} \subseteq PCs /\ "aborted" \in Errors
      /\ pc[r] = "granted" /\ UNCHANGED <<free, hasSlot>>
      /\ UNCHANGED <<kind, fired, answer, status, logs>>
    BY StagesAre DEF Errors, Continue, kept
<1>2. SlotInv' /\ SlotFrame(r) /\ hasSlot'[r] = hasSlot[r]
    BY <1>1, StillSlots DEF RequestInv
<1>3. CASE fired[r] # {}
    <2>1. WorkerBack(r, "failed") /\ error' = [error EXCEPT ![r] = "aborted"]
        BY <1>3 DEF Continue
    <2>2. LineInv' /\ LineFrame(r) /\ pc'[r] = "failed" /\ ~hasWorker'[r]
        BY <1>1, <2>1, WorkerBackKeepsLine DEF RequestInv
    <2>3. DataTypes' /\ DataFrame(r) /\ error'[r] = "aborted"
        BY <1>1, <2>1, ErrorData DEF RequestInv
    <2>4. Sound(r)'
        BY <1>1, <1>2, <1>3, <2>2, <2>3
        DEF RequestInv, Sound, HoldsWhereItMay, Unanswered, Answered, Ended
    <2> QED
        BY <1>2, <2>2, <2>3, <2>4 DEF Keeps
<1>4. CASE fired[r] = {}
    <2>1. pc' = [pc EXCEPT ![r] = "body"] /\ UNCHANGED held /\ UNCHANGED error
        BY <1>4 DEF Continue
    <2>2. LineInv' /\ LineFrame(r) /\ pc'[r] = "body" /\ hasWorker'[r] = hasWorker[r]
        BY <1>1, <2>1, MoveKeepsLine DEF RequestInv
    <2>3. DataTypes' /\ DataFrame(r)
        BY <1>1, <2>1, StillData DEF RequestInv
    <2>4. Sound(r)'
        BY <1>1, <1>2, <2>1, <2>2
        DEF RequestInv, Sound, HoldsWhereItMay, Unanswered, Answered, Ended
    <2> QED
        BY <1>2, <2>2, <2>3, <2>4 DEF Keeps
<1> QED
    BY <1>3, <1>4

LEMMA RefuseKeeps ==
    ASSUME RequestConfig, RequestInv, NEW r \in Connections, pc[r] \in {"body", "slot"},
           NEW code \in {400, 503}, Refuse(r, code)
    PROVE  Keeps(r)
<1>1. /\ "done" \in PCs /\ code \in Nat /\ WorkerBack(r, "done")
      /\ UNCHANGED <<free, hasSlot>> /\ UNCHANGED <<kind, fired, error, answer, logs>>
      /\ status' = [status EXCEPT ![r] = code]
    BY StagesAre DEF Refuse, kept
<1>2. LineInv' /\ LineFrame(r) /\ pc'[r] = "done" /\ ~hasWorker'[r]
    BY <1>1, WorkerBackKeepsLine DEF RequestInv
<1>3. SlotInv' /\ SlotFrame(r) /\ hasSlot'[r] = hasSlot[r]
    BY <1>1, StillSlots DEF RequestInv
<1>4. DataTypes' /\ DataFrame(r) /\ status'[r] = code
    BY <1>1 DEF RequestInv, DataTypes, DataFrame
<1>5. Sound(r)'
    BY <1>1, <1>2, <1>3, <1>4
    DEF RequestInv, Sound, HoldsWhereItMay, Unanswered, Answered, Ended
<1> QED
    BY <1>2, <1>3, <1>4, <1>5 DEF Keeps

LEMMA AcceptBodyKeeps ==
    ASSUME RequestInv, NEW r \in Connections, AcceptBody(r)
    PROVE  Keeps(r)
<1>1. /\ "slot" \in PCs /\ pc[r] = "body" /\ pc' = [pc EXCEPT ![r] = "slot"]
      /\ UNCHANGED held /\ UNCHANGED <<free, hasSlot>>
      /\ UNCHANGED <<kind, fired, error, answer, status, logs>>
    BY StagesAre DEF AcceptBody, kept
<1>2. LineInv' /\ LineFrame(r) /\ pc'[r] = "slot" /\ hasWorker'[r] = hasWorker[r]
    BY <1>1, MoveKeepsLine DEF RequestInv
<1>3. SlotInv' /\ SlotFrame(r) /\ hasSlot'[r] = hasSlot[r]
    BY <1>1, StillSlots DEF RequestInv
<1>4. DataTypes' /\ DataFrame(r)
    BY <1>1, StillData DEF RequestInv
<1>5. Sound(r)'
    BY <1>1, <1>2, <1>3
    DEF RequestInv, Sound, HoldsWhereItMay, Unanswered, Answered, Ended
<1> QED
    BY <1>2, <1>3, <1>4, <1>5 DEF Keeps

LEMMA TakeSlotKeeps ==
    ASSUME RequestConfig, RequestInv, NEW r \in Connections, TakeSlot(r)
    PROVE  Keeps(r)
<1>1. /\ "fetch" \in PCs /\ pc[r] = "slot" /\ pc' = [pc EXCEPT ![r] = "fetch"]
      /\ UNCHANGED held /\ UNCHANGED <<kind, fired, error, answer, status, logs>>
      /\ free > 0 /\ free' = free - 1 /\ hasSlot' = [hasSlot EXCEPT ![r] = TRUE]
    BY StagesAre DEF TakeSlot, kept
<1>2. LineInv' /\ LineFrame(r) /\ pc'[r] = "fetch" /\ hasWorker'[r] = hasWorker[r]
    BY <1>1, MoveKeepsLine DEF RequestInv
<1>3. ~hasSlot[r]
    BY <1>1 DEF RequestInv, Sound, HoldsWhereItMay
<1>4. SlotInv' /\ SlotFrame(r)
    BY <1>1, <1>3, TakeKeepsSlots DEF RequestInv
<1>5. DataTypes' /\ DataFrame(r)
    BY <1>1, StillData DEF RequestInv
<1>6. Sound(r)'
    BY <1>1, <1>2
    DEF RequestInv, Sound, HoldsWhereItMay, Unanswered, Answered, Ended
<1> QED
    BY <1>2, <1>4, <1>5, <1>6 DEF Keeps

\* The errors of the body, of the wait for a slot and of the call.
LEMMA ThrowKeeps ==
    ASSUME RequestConfig, RequestInv, NEW r \in Connections,
           pc[r] \in {"body", "slot", "fetch"}, Throw(r),
           UNCHANGED <<kept, fired, status, logs, loggers>>
    PROVE  Keeps(r)
<1>1. /\ "failed" \in PCs /\ "other" \in Errors
      /\ error' = [error EXCEPT ![r] = "other"] /\ SlotBack(r) /\ WorkerBack(r, "failed")
      /\ UNCHANGED <<kind, fired, answer, status, logs>>
    BY StagesAre DEF Errors, Throw, kept
<1>2. LineInv' /\ LineFrame(r) /\ pc'[r] = "failed" /\ ~hasWorker'[r]
    BY <1>1, WorkerBackKeepsLine DEF RequestInv
<1>3. SlotInv' /\ SlotFrame(r) /\ ~hasSlot'[r]
    BY <1>1, SlotBackKeepsSlots DEF RequestInv
<1>4. DataTypes' /\ DataFrame(r) /\ error'[r] = "other"
    BY <1>1, ErrorData DEF RequestInv
<1>5. Sound(r)'
    BY <1>1, <1>2, <1>3, <1>4
    DEF RequestInv, Sound, HoldsWhereItMay, Unanswered, Answered, Ended
<1> QED
    BY <1>2, <1>3, <1>4, <1>5 DEF Keeps

LEMMA UpstreamAnswersKeeps ==
    ASSUME RequestInv, NEW r \in Connections, UpstreamAnswers(r)
    PROVE  Keeps(r)
<1>1. /\ "settle" \in PCs /\ pc[r] = "fetch" /\ pc' = [pc EXCEPT ![r] = "settle"]
      /\ UNCHANGED held /\ UNCHANGED <<free, hasSlot>>
    BY StagesAre DEF UpstreamAnswers
<1>2. LineInv' /\ LineFrame(r) /\ pc'[r] = "settle" /\ hasWorker'[r] = hasWorker[r]
    BY <1>1, MoveKeepsLine DEF RequestInv
<1>3. SlotInv' /\ SlotFrame(r) /\ hasSlot'[r] = hasSlot[r]
    BY <1>1, StillSlots DEF RequestInv
<1>4. /\ UNCHANGED <<kind, fired, error, logs>>
      /\ status' = [status EXCEPT ![r] = answer'[r]]
      /\ \E a \in {200, 404} : answer' = [answer EXCEPT ![r] = a]
    BY DEF UpstreamAnswers, Answers
<1>5. /\ DataTypes' /\ DataFrame(r)
      /\ answer'[r] \in {200, 404} /\ status'[r] = answer'[r]
    <2>1. PICK a \in {200, 404} : answer' = [answer EXCEPT ![r] = a]
        BY <1>4
    <2>2. answer' \in [Connections -> Nat] /\ answer'[r] = a
        BY <2>1 DEF RequestInv, DataTypes
    <2>3. status' \in [Connections -> Nat] /\ status'[r] = a
        BY <1>4, <2>2 DEF RequestInv, DataTypes
    <2> QED
        BY <1>4, <2>1, <2>2, <2>3 DEF RequestInv, DataTypes, DataFrame
<1>6. Sound(r)'
    BY <1>1, <1>2, <1>3, <1>4, <1>5
    DEF RequestInv, Sound, HoldsWhereItMay, Unanswered, Answered, Ended
<1> QED
    BY <1>2, <1>3, <1>5, <1>6 DEF Keeps

LEMMA RespondKeeps ==
    ASSUME RequestConfig, RequestInv, NEW r \in Connections, Respond(r)
    PROVE  Keeps(r)
<1> DEFINE stream == kind[r] = "stream" /\ answer[r] = 200
<1>1. /\ {"streaming", "sending", "draining", "done"} \subseteq PCs /\ pc[r] = "settle"
      /\ UNCHANGED <<kind, fired, error, answer>>
      /\ answer[r] \in {200, 404} /\ status[r] = answer[r]
    BY StagesAre DEF Respond, RequestInv, Sound, Answered
<1>2. /\ DataTypes' /\ DataFrame(r) /\ status'[r] = answer[r]
      /\ kind[r] = "models" \/ stream \/ logs'[r] = 1
    <2>1. CASE kind[r] = "models" \/ stream
        <3>1. UNCHANGED <<logs, status>>
            BY <2>1 DEF Respond
        <3> QED
            BY <1>1, <2>1, <3>1, StillData DEF RequestInv
    <2>2. CASE ~(kind[r] = "models" \/ stream)
        <3>1. Log(r, answer[r]) /\ answer[r] \in Nat
            BY <1>1, <2>2 DEF Respond
        <3> QED
            BY <1>1, <3>1, LogData DEF RequestInv
    <2> QED BY <2>1, <2>2
<1>3. CASE /\ pc' = [pc EXCEPT ![r] = IF stream THEN "streaming" ELSE "sending"]
           /\ UNCHANGED <<held, free, hasSlot, loggers>>
    <2> DEFINE next == IF stream THEN "streaming" ELSE "sending"
    <2>1. /\ next \in PCs /\ next # "queued" /\ pc' = [pc EXCEPT ![r] = next]
          /\ UNCHANGED held /\ UNCHANGED <<free, hasSlot>>
        BY <1>1, <1>3
    <2> HIDE DEF next
    <2>2. LineInv' /\ LineFrame(r) /\ pc'[r] = next /\ hasWorker'[r] = hasWorker[r]
        BY <1>1, <2>1, MoveKeepsLine DEF RequestInv
    <2>3. SlotInv' /\ SlotFrame(r) /\ hasSlot'[r] = hasSlot[r]
        BY <2>1, StillSlots DEF RequestInv
    <2>4. Sound(r)'
        BY <1>1, <1>2, <2>2, <2>3
        DEF next, RequestInv, Sound, HoldsWhereItMay, Unanswered, Answered, Ended
    <2> QED
        BY <1>2, <2>2, <2>3, <2>4 DEF Keeps
<1>4. CASE SlotBack(r) /\ WorkerBack(r, IF stream THEN "draining" ELSE "done")
    <2> DEFINE next == IF stream THEN "draining" ELSE "done"
    <2>1. next \in PCs /\ next # "queued" /\ WorkerBack(r, next)
        BY <1>1, <1>4
    <2> HIDE DEF next
    <2>2. LineInv' /\ LineFrame(r) /\ pc'[r] = next /\ ~hasWorker'[r]
        BY <1>1, <2>1, WorkerBackKeepsLine DEF RequestInv
    <2>3. SlotInv' /\ SlotFrame(r) /\ ~hasSlot'[r]
        BY <1>4, SlotBackKeepsSlots DEF RequestInv
    <2>4. Sound(r)'
        BY <1>1, <1>2, <2>2, <2>3
        DEF next, RequestInv, Sound, HoldsWhereItMay, Unanswered, Answered, Ended
    <2> QED
        BY <1>2, <2>2, <2>3, <2>4 DEF Keeps
<1> QED
    BY <1>3, <1>4 DEF Respond

LEMMA BodyEndsKeeps ==
    ASSUME RequestConfig, RequestInv, NEW r \in Connections, BodyEnds(r)
    PROVE  Keeps(r)
<1>1. /\ "closing" \in PCs /\ pc[r] \in {"streaming", "sending"}
      /\ pc' = [pc EXCEPT ![r] = "closing"] /\ UNCHANGED held /\ SlotBack(r)
      /\ UNCHANGED <<kind, fired, error, answer>>
      /\ answer[r] \in {200, 404} /\ status[r] = answer[r]
      /\ pc[r] = "sending" /\ kind[r] # "models" => logs[r] = 1
    BY StagesAre DEF BodyEnds, kept, RequestInv, Sound, Answered
<1>2. LineInv' /\ LineFrame(r) /\ pc'[r] = "closing" /\ hasWorker'[r] = hasWorker[r]
    BY <1>1, MoveKeepsLine DEF RequestInv
<1>3. SlotInv' /\ SlotFrame(r) /\ ~hasSlot'[r]
    BY <1>1, SlotBackKeepsSlots DEF RequestInv
<1>4. /\ DataTypes' /\ DataFrame(r) /\ status'[r] = answer[r]
      /\ kind[r] # "models" => logs'[r] = 1
    <2>1. CASE pc[r] = "streaming"
        <3>1. Log(r, answer[r]) /\ answer[r] \in Nat
            BY <1>1, <2>1 DEF BodyEnds
        <3> QED
            BY <1>1, <3>1, LogData DEF RequestInv
    <2>2. CASE pc[r] = "sending"
        <3>1. UNCHANGED <<logs, status>>
            BY <2>2 DEF BodyEnds
        <3> QED
            BY <1>1, <2>2, <3>1, StillData DEF RequestInv
    <2> QED BY <1>1, <2>1, <2>2
<1>5. Sound(r)'
    BY <1>1, <1>2, <1>3, <1>4
    DEF RequestInv, Sound, HoldsWhereItMay, Unanswered, Answered, Ended
<1> QED
    BY <1>2, <1>3, <1>4, <1>5 DEF Keeps

LEMMA WrapperEndsKeeps ==
    ASSUME RequestConfig, RequestInv, NEW r \in Connections, WrapperEnds(r)
    PROVE  Keeps(r)
<1>1. /\ "done" \in PCs /\ pc[r] = "closing" /\ WorkerBack(r, "done")
      /\ UNCHANGED <<free, hasSlot>>
      /\ UNCHANGED <<kind, fired, error, answer, status, logs>>
    BY StagesAre DEF WrapperEnds, kept
<1>2. LineInv' /\ LineFrame(r) /\ pc'[r] = "done" /\ ~hasWorker'[r]
    BY <1>1, WorkerBackKeepsLine DEF RequestInv
<1>3. SlotInv' /\ SlotFrame(r) /\ hasSlot'[r] = hasSlot[r]
    BY <1>1, StillSlots DEF RequestInv
<1>4. DataTypes' /\ DataFrame(r)
    BY <1>1, StillData DEF RequestInv
<1>5. Sound(r)'
    BY <1>1, <1>2, <1>3
    DEF RequestInv, Sound, HoldsWhereItMay, Unanswered, Answered, Ended
<1> QED
    BY <1>2, <1>3, <1>4, <1>5 DEF Keeps

\* A response that is cut gives slot and worker back.
LEMMA CutKeeps ==
    ASSUME RequestConfig, RequestInv, NEW r \in Connections, pc[r] \in Open, Cut(r)
    PROVE  /\ LineInv' /\ LineFrame(r) /\ ~hasWorker'[r]
           /\ SlotInv' /\ SlotFrame(r) /\ ~hasSlot'[r]
           /\ pc'[r] = IF pc[r] = "streaming" THEN "draining" ELSE "done"
<1>1. /\ pc[r] \in {"streaming", "sending", "closing"} /\ {"draining", "done"} \subseteq PCs
      /\ SlotBack(r)
    BY StagesAre DEF Cut
<1>2. SlotInv' /\ SlotFrame(r) /\ ~hasSlot'[r]
    BY <1>1, SlotBackKeepsSlots DEF RequestInv
<1>3. CASE pc[r] = "streaming"
    <2>1. WorkerBack(r, "draining")
        BY <1>3 DEF Cut
    <2> QED
        BY <1>1, <1>2, <1>3, <2>1, WorkerBackKeepsLine DEF RequestInv
<1>4. CASE pc[r] # "streaming"
    <2>1. WorkerBack(r, "done")
        BY <1>4 DEF Cut
    <2> QED
        BY <1>1, <1>2, <1>4, <2>1, WorkerBackKeepsLine DEF RequestInv
<1> QED
    BY <1>3, <1>4

LEMMA CancelBodyKeeps ==
    ASSUME RequestConfig, RequestInv, NEW r \in Connections, CancelBody(r)
    PROVE  Keeps(r)
<1>1. /\ pc[r] \in {"streaming", "sending", "closing"} /\ pc[r] \in Open /\ Cut(r)
      /\ UNCHANGED <<kind, fired, error, answer, status, logs>>
    BY StagesAre DEF CancelBody, kept
<1>2. /\ LineInv' /\ LineFrame(r) /\ ~hasWorker'[r]
      /\ SlotInv' /\ SlotFrame(r) /\ ~hasSlot'[r]
      /\ pc'[r] = IF pc[r] = "streaming" THEN "draining" ELSE "done"
    BY <1>1, CutKeeps
<1>3. DataTypes' /\ DataFrame(r)
    BY <1>1, StillData DEF RequestInv
<1>4. Sound(r)'
    BY <1>1, <1>2
    DEF RequestInv, Sound, HoldsWhereItMay, Unanswered, Answered, Ended
<1> QED
    BY <1>2, <1>3, <1>4 DEF Keeps

LEMMA LogOnceKeeps ==
    ASSUME RequestInv, NEW r \in Connections, LogOnce(r)
    PROVE  Keeps(r)
<1>1. PICK l \in loggers[r] : pc' = [pc EXCEPT ![r] = IF loggers[r] = {l} THEN "done" ELSE @]
    BY DEF LogOnce
<1> DEFINE next == IF loggers[r] = {l} THEN "done" ELSE "draining"
<1>2. /\ pc[r] = "draining" /\ UNCHANGED held /\ UNCHANGED <<free, hasSlot>>
      /\ UNCHANGED <<kind, fired, error, answer>> /\ Log(r, answer[r])
      /\ answer[r] \in {200, 404} /\ answer[r] \in Nat
    BY DEF LogOnce, kept, RequestInv, Sound, Answered
<1>7. next \in PCs /\ next \in {"done", "draining"} /\ next # "queued"
    BY StagesAre
<1>8. pc' = [pc EXCEPT ![r] = next]
    <2>1. next = IF loggers[r] = {l} THEN "done" ELSE pc[r]
        BY <1>2
    <2> QED BY <1>1, <2>1
<1> HIDE DEF next
<1>3. LineInv' /\ LineFrame(r) /\ pc'[r] = next /\ hasWorker'[r] = hasWorker[r]
    <2>1. LineInv /\ pc[r] # "queued" /\ UNCHANGED held
        BY <1>2 DEF RequestInv
    <2> QED
        BY <1>7, <1>8, <2>1, MoveKeepsLine
<1>4. SlotInv' /\ SlotFrame(r) /\ hasSlot'[r] = hasSlot[r]
    BY <1>2, StillSlots DEF RequestInv
<1>5. DataTypes' /\ DataFrame(r) /\ logs'[r] = 1 /\ status'[r] = answer[r]
    BY <1>2, LogData DEF RequestInv
<1>6. Sound(r)'
    BY <1>2, <1>3, <1>4, <1>5, <1>7
    DEF RequestInv, Sound, HoldsWhereItMay, Unanswered, Answered, Ended
<1> QED
    BY <1>3, <1>4, <1>5, <1>6 DEF Keeps

LEMMA FireKeeps ==
    ASSUME RequestConfig, RequestInv, NEW r \in Connections,
           NEW s \in {"client", "timeout"}, Fire(r, s)
    PROVE  Keeps(r)
<1>1. /\ pc[r] \notin {"idle", "done"} /\ fired' = [fired EXCEPT ![r] = @ \cup {s}]
      /\ UNCHANGED <<kind, answer, status, logs>>
      /\ "failed" \in PCs /\ "aborted" \in Errors
    BY StagesAre DEF Fire, Over, Errors, kept
<1>2. /\ fired' \in [Connections -> SUBSET {"client", "timeout"}] /\ s \in fired'[r]
      /\ \A q \in Connections \ {r} : fired'[q] = fired[q]
    BY <1>1 DEF RequestInv, DataTypes
<1>3. ASSUME UNCHANGED error
      PROVE  DataTypes' /\ DataFrame(r)
    BY <1>1, <1>2, <1>3 DEF RequestInv, DataTypes, DataFrame
<1>4. CASE /\ pc[r] = "queued" /\ pc' = [pc EXCEPT ![r] = "failed"]
           /\ error' = [error EXCEPT ![r] = "aborted"]
           /\ Leave(r) /\ UNCHANGED <<spare, free, hasWorker, hasSlot, loggers>>
    <2>1. LineInv' /\ LineFrame(r) /\ pc'[r] = "failed" /\ hasWorker'[r] = hasWorker[r]
        BY <1>1, <1>4, LeaveKeepsLine DEF RequestInv
    <2>2. SlotInv' /\ SlotFrame(r) /\ hasSlot'[r] = hasSlot[r]
        BY <1>4, StillSlots DEF RequestInv
    <2>3. DataTypes' /\ DataFrame(r) /\ error'[r] = "aborted"
        BY <1>1, <1>2, <1>4 DEF RequestInv, DataTypes, DataFrame
    <2>4. Sound(r)'
        BY <1>1, <1>2, <1>4, <2>1, <2>2, <2>3
        DEF RequestInv, Sound, HoldsWhereItMay, Unanswered, Answered, Ended
    <2> QED
        BY <2>1, <2>2, <2>3, <2>4 DEF Keeps
<1>5. CASE pc[r] \in Open /\ Cut(r) /\ UNCHANGED error
    <2>1. /\ LineInv' /\ LineFrame(r) /\ ~hasWorker'[r]
          /\ SlotInv' /\ SlotFrame(r) /\ ~hasSlot'[r]
          /\ pc'[r] = IF pc[r] = "streaming" THEN "draining" ELSE "done"
          /\ pc[r] \in {"streaming", "sending", "closing"}
        BY <1>5, CutKeeps, StagesAre
    <2>2. Sound(r)'
        BY <1>1, <1>2, <1>5, <2>1
        DEF RequestInv, Sound, HoldsWhereItMay, Unanswered, Answered, Ended
    <2> QED
        BY <1>3, <1>5, <2>1, <2>2 DEF Keeps
<1>6. CASE UNCHANGED <<pc, held, free, hasSlot, error, loggers>>
    <2>1. /\ LineInv' /\ LineFrame(r) /\ pc'[r] = pc[r] /\ hasWorker'[r] = hasWorker[r]
        BY <1>6 DEF RequestInv, LineInv, LineTypes, LineIsWaiting, LineFrame, held, WorkerHolders
    <2>2. SlotInv' /\ SlotFrame(r) /\ hasSlot'[r] = hasSlot[r]
        BY <1>6, StillSlots DEF RequestInv
    <2>3. Sound(r)'
        BY <1>1, <1>2, <1>6, <2>1, <2>2
        DEF RequestInv, Sound, HoldsWhereItMay, Unanswered, Answered, Ended
    <2> QED
        BY <1>3, <1>6, <2>1, <2>2, <2>3 DEF Keeps
<1> QED
    BY <1>4, <1>5, <1>6 DEF Fire

\* The status of a failure says why the request failed.
LEMMA FailureStatus ==
    ASSUME RequestInv, NEW r \in Connections, pc[r] = "failed"
    PROVE  /\ ChatStatus(r) \in {499, 500, 503, 504} /\ ModelsStatus(r) \in {499, 502, 504}
           /\ ChatStatus(r) = 499 => fired[r] # {}
           /\ ChatStatus(r) = 504 => "timeout" \in fired[r]
           /\ ChatStatus(r) = 500 => "timeout" \notin fired[r]
           /\ ModelsStatus(r) = 499 => fired[r] # {}
           /\ ModelsStatus(r) = 504 => "timeout" \in fired[r]
           /\ ModelsStatus(r) = 502 => "timeout" \notin fired[r]
BY DEF RequestInv, Sound, Unanswered, ChatStatus, ModelsStatus

LEMMA AnswerFailureKeeps ==
    ASSUME RequestInv, NEW r \in Connections, AnswerFailure(r)
    PROVE  Keeps(r)
<1>1. /\ "done" \in PCs /\ pc[r] = "failed" /\ pc' = [pc EXCEPT ![r] = "done"]
      /\ UNCHANGED held /\ UNCHANGED <<free, hasSlot>>
      /\ UNCHANGED <<kind, fired, error, answer>> /\ answer[r] = 0
    BY StagesAre DEF AnswerFailure, kept, RequestInv, Sound, Unanswered
<1>2. LineInv' /\ LineFrame(r) /\ pc'[r] = "done" /\ hasWorker'[r] = hasWorker[r]
    BY <1>1, MoveKeepsLine DEF RequestInv
<1>3. SlotInv' /\ SlotFrame(r) /\ hasSlot'[r] = hasSlot[r]
    BY <1>1, StillSlots DEF RequestInv
<1>4. CASE kind[r] = "models"
    <2> DEFINE code == ModelsStatus(r)
    <2>1. /\ status' = [status EXCEPT ![r] = code] /\ UNCHANGED logs
          /\ code \in {499, 502, 504} /\ code \in Nat
          /\ code = 499 => fired[r] # {}
          /\ code = 504 => "timeout" \in fired[r]
          /\ code = 502 => "timeout" \notin fired[r]
        BY <1>1, <1>4, FailureStatus DEF AnswerFailure
    <2> HIDE DEF code
    <2>2. DataTypes' /\ DataFrame(r) /\ status'[r] = code
        BY <1>1, <2>1 DEF RequestInv, DataTypes, DataFrame
    <2>3. Sound(r)'
        BY <1>1, <1>2, <1>3, <1>4, <2>1, <2>2
        DEF RequestInv, Sound, HoldsWhereItMay, Unanswered, Answered, Ended
    <2> QED
        BY <1>2, <1>3, <2>2, <2>3 DEF Keeps
<1>5. CASE kind[r] # "models"
    <2> DEFINE code == ChatStatus(r)
    <2>1. /\ Log(r, code) /\ code \in {499, 500, 503, 504}
          /\ code = 499 => fired[r] # {}
          /\ code = 504 => "timeout" \in fired[r]
          /\ code = 500 => "timeout" \notin fired[r]
        BY <1>1, <1>5, FailureStatus DEF AnswerFailure
    <2> HIDE DEF code
    <2>2. DataTypes' /\ DataFrame(r) /\ logs'[r] = 1 /\ status'[r] = code
        BY <1>1, <2>1, LogData DEF RequestInv
    <2>3. Sound(r)'
        BY <1>1, <1>2, <1>3, <2>1, <2>2
        DEF RequestInv, Sound, HoldsWhereItMay, Unanswered, Answered, Ended
    <2> QED
        BY <1>2, <1>3, <2>2, <2>3 DEF Keeps
<1> QED
    BY <1>4, <1>5

LEMMA RestKeeps ==
    ASSUME RequestInv, NEW r \in Connections, Rest(r)
    PROVE  Keeps(r)
<1>1. /\ "idle" \in PCs /\ "chat" \in Kinds /\ "none" \in Errors
      /\ pc[r] = "done" /\ pc' = [pc EXCEPT ![r] = "idle"] /\ Fresh(r, "chat", "none")
      /\ UNCHANGED held /\ UNCHANGED <<free, hasSlot>>
    BY StagesAre DEF Rest, Kinds, Errors
<1>2. LineInv' /\ LineFrame(r) /\ pc'[r] = "idle" /\ hasWorker'[r] = hasWorker[r]
    BY <1>1, MoveKeepsLine DEF RequestInv
<1>3. SlotInv' /\ SlotFrame(r) /\ hasSlot'[r] = hasSlot[r]
    BY <1>1, StillSlots DEF RequestInv
<1>4. DataTypes' /\ DataFrame(r) /\ error'[r] = "none" /\ answer'[r] = 0
    BY <1>1, FreshData DEF RequestInv
<1>5. Sound(r)'
    BY <1>1, <1>2, <1>3, <1>4
    DEF RequestInv, Sound, HoldsWhereItMay, Unanswered, Answered, Ended
<1> QED
    BY <1>2, <1>3, <1>4, <1>5 DEF Keeps

-----------------------------------------------------------------------------
(* The specification.                                                      *)

LEMMA InitRequest ==
    ASSUME RequestConfig, RequestInit
    PROVE  RequestInv
<1>1. /\ {"idle"} \subseteq PCs /\ "chat" \in Kinds /\ "none" \in Errors
    BY StagesAre DEF Kinds, Errors
<1>2. /\ pc \in [Connections -> PCs] /\ kind \in [Connections -> Kinds]
      /\ error \in [Connections -> Errors]
      /\ \A r \in Connections : pc[r] = "idle" /\ error[r] = "none"
    BY <1>1 DEF RequestInit
<1>3. /\ hasWorker \in [Connections -> BOOLEAN] /\ hasSlot \in [Connections -> BOOLEAN]
      /\ \A r \in Connections : ~hasWorker[r] /\ ~hasSlot[r]
    BY DEF RequestInit
<1>4. WorkerHolders = {} /\ SlotHolders = {} /\ Cardinality({}) = 0
    BY <1>3, FS_EmptySet DEF WorkerHolders, SlotHolders
<1>5. /\ queue = <<>> /\ queue \in Seq(Connections) /\ DOMAIN queue = {}
      /\ spare = Workers /\ free = Slots
    BY DEF RequestInit
<1>6. LineInv
    BY <1>2, <1>3, <1>4, <1>5 DEF RequestConfig, LineInv, LineTypes, LineIsWaiting
<1>7. SlotInv
    BY <1>3, <1>4, <1>5 DEF RequestConfig, SlotInv
<1>8. DataTypes
    BY <1>2 DEF RequestInit, DataTypes
<1>9. \A r \in Connections : Sound(r)
    BY <1>2, <1>3 DEF Sound, HoldsWhereItMay, Unanswered, Answered, Ended
<1> QED
    BY <1>6, <1>7, <1>8, <1>9 DEF RequestInv

LEMMA StepKeeps ==
    ASSUME RequestConfig, RequestInv, NEW r \in Connections,
           Handler(r) \/ Outside(r) \/ TimeoutFires(r)
    PROVE  RequestInv'
<1>1. Keeps(r)
    <2>1. CASE ArriveModels(r) BY <2>1, ArriveModelsKeeps
    <2>2. CASE ArriveChat(r) BY <2>2, ArriveChatKeeps
    <2>3. CASE WaitTimesOut(r) BY <2>3, WaitTimesOutKeeps
    <2>4. CASE Continue(r) BY <2>4, ContinueKeeps
    <2>5. CASE RefuseBody(r)
        <3>1. pc[r] \in {"body", "slot"} /\ Refuse(r, 400) /\ 400 \in {400, 503}
            BY <2>5 DEF RefuseBody
        <3> QED BY <3>1, RefuseKeeps
    <2>6. CASE RefuseEmptyPool(r)
        <3>1. pc[r] \in {"body", "slot"} /\ Refuse(r, 503) /\ 503 \in {400, 503}
            BY <2>6 DEF RefuseEmptyPool
        <3> QED BY <3>1, RefuseKeeps
    <2>7. CASE AcceptBody(r) BY <2>7, AcceptBodyKeeps
    <2>8. CASE TakeSlot(r) BY <2>8, TakeSlotKeeps
    <2>9. CASE StepFails(r) BY <2>9, ThrowKeeps DEF StepFails
    <2>10. CASE StepAborts(r) BY <2>10, ThrowKeeps DEF StepAborts
    <2>11. CASE UpstreamAnswers(r) BY <2>11, UpstreamAnswersKeeps
    <2>12. CASE Respond(r) BY <2>12, RespondKeeps
    <2>13. CASE BodyEnds(r) BY <2>13, BodyEndsKeeps
    <2>14. CASE WrapperEnds(r) BY <2>14, WrapperEndsKeeps
    <2>15. CASE CancelBody(r) BY <2>15, CancelBodyKeeps
    <2>16. CASE LogOnce(r) BY <2>16, LogOnceKeeps
    <2>17. CASE ClientGone(r) BY <2>17, FireKeeps DEF ClientGone
    <2>18. CASE TimeoutFires(r) BY <2>18, FireKeeps DEF TimeoutFires
    <2>19. CASE AnswerFailure(r) BY <2>19, AnswerFailureKeeps
    <2>20. CASE Rest(r) BY <2>20, RestKeeps
    <2> QED
        BY <2>1, <2>2, <2>3, <2>4, <2>5, <2>6, <2>7, <2>8, <2>9, <2>10, <2>11, <2>12,
           <2>13, <2>14, <2>15, <2>16, <2>17, <2>18, <2>19, <2>20
        DEF Handler, Outside
<1>2. ASSUME NEW q \in Connections
      PROVE  Sound(q)'
    <2>1. CASE q = r
        BY <1>1, <2>1 DEF Keeps
    <2>2. CASE q # r
        <3>1. q \in Connections \ {r} /\ Sound(q)
            BY <2>2 DEF RequestInv
        <3>2. LineFrame(r) /\ SlotFrame(r) /\ DataFrame(r)
            BY <1>1 DEF Keeps
        <3> QED
            BY <3>1, <3>2, OthersStaySound
    <2> QED BY <2>1, <2>2
<1> QED
    BY <1>1, <1>2 DEF Keeps, RequestInv

\* The invariant is inductive, for every number of connections, workers and
\* slots.
THEOREM RequestInvariant ==
    ASSUME RequestConfig
    PROVE  RequestSpec => []RequestInv
<1>1. RequestInit => RequestInv
    BY InitRequest
<1>2. RequestInv /\ [RequestNext]_requestVars => RequestInv'
    <2> SUFFICES ASSUME RequestInv, [RequestNext]_requestVars
                 PROVE  RequestInv'
        OBVIOUS
    <2>1. CASE RequestNext
        BY <2>1, StepKeeps DEF RequestNext
    <2>2. CASE UNCHANGED requestVars
        BY <2>2 DEF requestVars, RequestInv, LineInv, LineTypes, LineIsWaiting, WorkerHolders,
                    SlotInv, SlotHolders, DataTypes, Sound, HoldsWhereItMay, Unanswered,
                    Answered, Ended
    <2> QED BY <2>1, <2>2
<1> QED
    BY <1>1, <1>2, PTL DEF RequestSpec

\* However the end of a stream, its cancellation, its abort and the error
\* paths come together, workers and slots come back exactly once.
THEOREM RequestGivesBack ==
    ASSUME RequestConfig
    PROVE  RequestSpec => []GivenBackOnce
<1>1. RequestInv => GivenBackOnce
    BY DEF RequestInv, LineInv, LineIsWaiting, WorkerHolders, SlotInv, SlotHolders,
           Sound, HoldsWhereItMay, GivenBackOnce, Over
<1> QED
    BY <1>1, RequestInvariant, PTL

\* However many continuations log a call, it leaves one row.
THEOREM RequestLogsOnce ==
    ASSUME RequestConfig
    PROVE  RequestSpec => []LoggedOnce
<1>1. RequestInv => LoggedOnce
    BY DEF RequestInv, DataTypes, Sound, Ended, LoggedOnce
<1> QED
    BY <1>1, RequestInvariant, PTL

\* Whatever ends a request first, its answer names it.
THEOREM RequestNamesItsCause ==
    ASSUME RequestConfig
    PROVE  RequestSpec => []AnswerNamesItsCause
<1>1. RequestInv => AnswerNamesItsCause
    BY DEF RequestInv, Sound, Ended, AnswerNamesItsCause
<1> QED
    BY <1>1, RequestInvariant, PTL
=============================================================================
