--------------------------- MODULE RecordsProofs ----------------------------
(***************************************************************************)
(* Proofs about what is stored of an account and of the node lists, for    *)
(* every value of the constants: a cancelled renewal (Renewal), the rewards*)
(* of two caches (ReferralCache), refreshes of a node list (Subscriptions),*)
(* module downloads (WorkspacePages) and progress rows (ProgressReports).  *)
(***************************************************************************)
EXTENDS Renewal, ReferralCache, Subscriptions, WorkspacePages, ProgressReports,
        SequenceTheorems, TLAPS

-----------------------------------------------------------------------------
(* Renewal: the row never calls a subscription cancelled that was not      *)
(* stopped at the provider.                                                *)

RenewalInv == RenewalTypeOK /\ StoppedIsKnown /\ RecordIsTrue

LEMMA InitRenewal == RenewalInit => RenewalInv
  BY DEF RenewalInit, RenewalInv, RenewalTypeOK, StoppedIsKnown, RecordIsTrue, Blank, NoJob,
         Jobs, Stages

\* The operations at their beginning and their end.
LEMMA NewJobs ==
  /\ NoJob \in Jobs /\ NoJob.at = "idle"
  /\ [NoJob EXCEPT !.kind = "refresh", !.at = "page"] \in Jobs
  /\ [NoJob EXCEPT !.kind = "refresh", !.at = "page"].at = "page"
  /\ [NoJob EXCEPT !.kind = "button", !.at = "go"] \in Jobs
  /\ [NoJob EXCEPT !.kind = "button", !.at = "go"].at = "go"
  BY DEF NoJob, Jobs, Stages

\* Resetting the columns names no other subscription.
LEMMA ResetKeepsRecord ==
  ASSUME RenewalInv
  PROVE  /\ Reset \in [cancelled : Nat, since : BOOLEAN, fresh : BOOLEAN, error : BOOLEAN]
         /\ Reset.cancelled # 0 => Reset.cancelled \in stopped
  BY DEF RenewalInv, RenewalTypeOK, RecordIsTrue, Reset, Blank

\* A cancellation leaves a subscription that renews itself, or one that was
\* stopped.
LEMMA StoppingIsSound ==
  ASSUME RenewalInv, NEW s \in Nat, Stopping(s)
  PROVE  /\ renews' \in BOOLEAN
         /\ current # 0 /\ ~renews' => current \in stopped'
         /\ stopped \subseteq stopped' /\ s \in stopped'
  <1>1. stopped' = stopped \cup {s} /\ renews' = (renews /\ s # current)
    BY DEF Stopping
  <1>2. current # 0 /\ ~renews => current \in stopped
    BY DEF RenewalInv, StoppedIsKnown
  <1>3. stopped \subseteq stopped' /\ s \in stopped'
    BY <1>1
  <1>4. ~renews' => ~renews \/ s = current
    BY <1>1
  <1>5. renews' \in BOOLEAN
    BY <1>1
  <1> QED BY <1>2, <1>3, <1>4, <1>5

\* A step that leaves the row alone, or none of it.
LEMMA RowStays ==
  ASSUME RenewalInv, record' = record, stopped \subseteq stopped', current' = current,
         renews' \in BOOLEAN, current # 0 /\ ~renews' => current \in stopped',
         taken' = taken, late' \in Nat, mishaps' \in Nat,
         job' \in Jobs,
         job'.at = "done" => job'.found # 0 /\ job'.found \in stopped'
  PROVE  RenewalInv'
  BY DEF RenewalInv, RenewalTypeOK, StoppedIsKnown, RecordIsTrue

\* What the provider and the owner do.
LEMMA ProviderStep ==
  ASSUME RenewalInv,
         OwnerResumes \/ OwnerStops \/ PeriodEnds \/ OwnerSubscribes \/ LateArrives \/ DayPasses
  PROVE  RenewalInv'
  <1> USE DEF RenewalInv, RenewalTypeOK, StoppedIsKnown, RecordIsTrue
  <1>1. CASE OwnerResumes
    BY <1>1 DEF OwnerResumes, Mishap
  <1>2. CASE OwnerStops
    BY <1>2 DEF OwnerStops, Stopping
  <1>3. CASE PeriodEnds
    BY <1>3 DEF PeriodEnds
  <1>4. CASE OwnerSubscribes
    BY <1>4 DEF OwnerSubscribes
  <1>5. CASE LateArrives
    <2>1. CASE Stopping(late)
      BY <1>5, <2>1, StoppingIsSound, RowStays DEF LateArrives
    <2>2. CASE UNCHANGED <<stopped, renews>>
      BY <1>5, <2>2 DEF LateArrives
    <2> QED BY <1>5, <2>1, <2>2 DEF LateArrives
  <1>6. CASE DayPasses
    BY <1>6 DEF DayPasses
  <1> QED BY <1>1, <1>2, <1>3, <1>4, <1>5, <1>6

\* What an operation does before it has a result.
LEMMA ScriptStep ==
  ASSUME RenewalInv,
         RefreshBegins \/ Button \/ ReadPage \/ FindPortal \/ Status \/ Cancel \/ Verify \/ Kill
  PROVE  RenewalInv'
  <1>1. /\ job \in Jobs /\ late \in Nat /\ mishaps \in Nat /\ current \in Nat
        /\ renews \in BOOLEAN
        /\ current # 0 /\ ~renews => current \in stopped
        /\ job.at = "done" => job.found # 0 /\ job.found \in stopped
    BY DEF RenewalInv, RenewalTypeOK, StoppedIsKnown
  <1>2. job.found \in Nat
    BY <1>1 DEF Jobs
  <1>3. Mishap \/ mishaps' = mishaps => mishaps' \in Nat
    BY <1>1 DEF Mishap
  <1>4. \A a \in Stages : /\ [job EXCEPT !.at = a] \in Jobs
                          /\ [job EXCEPT !.at = a].at = a
                          /\ [job EXCEPT !.lite = current, !.at = a] \in Jobs
                          /\ [job EXCEPT !.lite = current, !.at = a].at = a
                          /\ [job EXCEPT !.found = current, !.at = a] \in Jobs
                          /\ [job EXCEPT !.found = current, !.at = a].at = a
                          /\ [job EXCEPT !.found = current, !.at = a].found = current
    <2> SUFFICES ASSUME NEW a \in Stages
                 PROVE  /\ [job EXCEPT !.at = a] \in Jobs
                        /\ [job EXCEPT !.at = a].at = a
                        /\ [job EXCEPT !.lite = current, !.at = a] \in Jobs
                        /\ [job EXCEPT !.lite = current, !.at = a].at = a
                        /\ [job EXCEPT !.found = current, !.at = a] \in Jobs
                        /\ [job EXCEPT !.found = current, !.at = a].at = a
                        /\ [job EXCEPT !.found = current, !.at = a].found = current
      OBVIOUS
    <2> QED BY <1>1 DEF Jobs
  <1>5. ASSUME UNCHANGED <<current, taken, renews, stopped, record>>,
               late' \in Nat, mishaps' \in Nat, job' \in Jobs,
               job'.at = "done" => job'.found # 0 /\ job'.found \in stopped
        PROVE  RenewalInv'
    <2>1. renews' \in BOOLEAN /\ (current # 0 /\ ~renews' => current \in stopped')
      BY <1>1, <1>5
    <2>2. stopped' = stopped
      BY <1>5
    <2>3. job'.at = "done" => job'.found # 0 /\ job'.found \in stopped'
      BY <1>5, <2>2
    <2>4. record' = record /\ current' = current /\ taken' = taken
      BY <1>5
    <2> QED BY <1>5, <2>1, <2>2, <2>3, <2>4, RowStays
  <1>6. CASE RefreshBegins \/ Button
    <2>1. job' \in Jobs /\ job'.at # "done"
      BY <1>6, NewJobs DEF RefreshBegins, Button
    <2>2. UNCHANGED <<current, taken, renews, stopped, late, record, mishaps>>
      BY <1>6 DEF RefreshBegins, Button
    <2> QED BY <1>1, <1>5, <2>1, <2>2
  <1>7. CASE ReadPage
    <2>1. \/ job' = NoJob
          \/ job' = [job EXCEPT !.lite = current, !.at = "go"]
          \/ job' = [job EXCEPT !.lite = current, !.at = "keep"]
      BY <1>7 DEF ReadPage
    <2>2. job' \in Jobs /\ job'.at # "done"
      BY <1>4, <2>1, NewJobs DEF Stages
    <2>3. /\ Mishap \/ mishaps' = mishaps
          /\ UNCHANGED <<current, taken, renews, stopped, late, record>>
      BY <1>7 DEF ReadPage
    <2> QED BY <1>1, <1>3, <1>5, <2>2, <2>3
  <1>8. CASE FindPortal
    <2>1. \/ job' = [job EXCEPT !.at = "failed"]
          \/ job' = [job EXCEPT !.at = "status"]
      BY <1>8 DEF FindPortal
    <2>2. job' \in Jobs /\ job'.at # "done"
      BY <1>4, <2>1 DEF Stages
    <2>3. /\ Mishap \/ mishaps' = mishaps
          /\ UNCHANGED <<current, taken, renews, stopped, late, record>>
      BY <1>8 DEF FindPortal
    <2> QED BY <1>1, <1>3, <1>5, <2>2, <2>3
  <1>9. CASE Status \/ Verify
    <2>1. \/ job' = [job EXCEPT !.at = "failed"]
          \/ job' = [job EXCEPT !.found = current, !.at = "cancel"]
          \/ /\ job' = [job EXCEPT !.found = current, !.at = "done"]
             /\ current # 0 /\ ~renews
      BY <1>9 DEF Status, Verify
    <2>4. "failed" \in Stages /\ "cancel" \in Stages /\ "done" \in Stages
      BY DEF Stages
    <2>5. job' \in Jobs
      BY <1>4, <2>1, <2>4
    <2>6. job'.at = "done" => job'.found = current /\ current # 0 /\ ~renews
      BY <1>4, <2>1, <2>4
    <2>2. job' \in Jobs /\ (job'.at = "done" => job'.found # 0 /\ job'.found \in stopped)
      BY <1>1, <2>5, <2>6
    <2>3. /\ Mishap \/ mishaps' = mishaps
          /\ UNCHANGED <<current, taken, renews, stopped, late, record>>
      BY <1>9 DEF Status, Verify
    <2> QED BY <1>1, <1>3, <1>5, <2>2, <2>3
  <1>10. CASE Cancel
    <2>1. \/ job' = [job EXCEPT !.at = "failed"]
          \/ job' = [job EXCEPT !.at = "verify"]
      BY <1>10 DEF Cancel
    <2>2. job' \in Jobs /\ job'.at # "done"
      BY <1>4, <2>1 DEF Stages
    <2>3. /\ Mishap \/ mishaps' = mishaps
          /\ UNCHANGED <<current, taken, late, record>>
      BY <1>10 DEF Cancel
    <2>4. CASE Stopping(job.found)
      <3>1. /\ renews' \in BOOLEAN
            /\ current # 0 /\ ~renews' => current \in stopped'
            /\ stopped \subseteq stopped'
        BY <1>2, <2>4, StoppingIsSound, Zenon
      <3> QED BY <1>1, <1>3, <2>2, <2>3, <3>1, RowStays
    <2>5. CASE UNCHANGED <<stopped, renews>>
      BY <1>1, <1>3, <1>5, <2>2, <2>3, <2>5
    <2> QED BY <1>10, <2>4, <2>5 DEF Cancel
  <1>11. CASE Kill
    <2>1. job' \in Jobs /\ job'.at # "done"
      BY <1>4, <1>11 DEF Kill, Stages
    <2>2. /\ Mishap \/ mishaps' = mishaps
          /\ late' = job.found \/ late' = late
          /\ UNCHANGED <<current, taken, renews, stopped, record>>
      BY <1>11 DEF Kill
    <2> QED BY <1>1, <1>2, <1>3, <1>5, <2>1, <2>2
  <1> QED BY <1>6, <1>7, <1>8, <1>9, <1>10, <1>11

\* What an operation records.
LEMMA RecordStep ==
  ASSUME RenewalInv, Keep \/ Succeed \/ Fail
  PROVE  RenewalInv'
  <1>1. CASE Keep
    BY <1>1, ResetKeepsRecord, NewJobs
       DEF Keep, RenewalInv, RenewalTypeOK, StoppedIsKnown, RecordIsTrue
  <1>2. CASE Succeed
    BY <1>2
       DEF Succeed, OfScript, NoJob, Jobs, Stages, RenewalInv, RenewalTypeOK, StoppedIsKnown, RecordIsTrue
  <1>3. CASE Fail
    <2>1. Reset.fresh \in BOOLEAN
      BY ResetKeepsRecord
    <2> QED BY <1>3, <2>1
            DEF Fail, NoJob, Jobs, Stages, RenewalInv, RenewalTypeOK, StoppedIsKnown, RecordIsTrue
  <1> QED BY <1>1, <1>2, <1>3

LEMMA NextRenewal == RenewalInv /\ [RenewalNext]_renewalVars => RenewalInv'
  <1> SUFFICES ASSUME RenewalInv, [RenewalNext]_renewalVars PROVE RenewalInv'
    OBVIOUS
  <1>1. CASE UNCHANGED renewalVars
    BY <1>1 DEF renewalVars, RenewalInv, RenewalTypeOK, StoppedIsKnown, RecordIsTrue
  <1>2. CASE RenewalNext
    BY <1>2, ProviderStep, ScriptStep, RecordStep DEF RenewalNext, JobWorks
  <1> QED BY <1>1, <1>2

\* A subscription that the row calls cancelled was stopped at the provider,
\* for any number of subscriptions and failures.
THEOREM RecordStaysTrue == RenewalSpec => []RecordIsTrue
  <1>1. RenewalInv => RecordIsTrue
    BY DEF RenewalInv
  <1> QED BY <1>1, InitRenewal, NextRenewal, PTL DEF RenewalSpec

-----------------------------------------------------------------------------
(* ReferralCache: a list that lives was fetched no later than now, and      *)
(* what waits to be written is newer than everything that was read.         *)

ListSet == [rewards : SUBSET Rewards, at : Nat, deleted : BOOLEAN]

UsageSet ==
  [kind : {"none", "refresh", "use", "drop"}, host : Servers \cup {NoUsage.host},
   at : {"idle", "flush", "row", "select", "fetch", "apply", "latest", "end"},
   wanted : SUBSET Rewards, local : ListSet, row : ListSet, attempted : SUBSET Rewards,
   since : Nat, from : Nat]

PanelSet == [at : {"idle", "row", "hydrate"}, local : ListSet, row : ListSet]

CacheTypes ==
  /\ available \subseteq Rewards
  /\ memory \in [Servers -> ListSet]
  /\ storedList \in ListSet
  /\ writes \in [Servers -> Seq(ListSet)]
  /\ usage \in UsageSet
  /\ panel \in [Servers -> PanelSet]
  /\ now \in Nat

Pending(ws) == {ws[i] : i \in DOMAIN ws}
InOrder(ws) == \A i, j \in DOMAIN ws : i < j => ws[i].at <= ws[j].at

\* While the provider applies a reward, nothing newer than its start is read.
Limit == IF usage.at = "apply" THEN usage.since ELSE now

\* Only the holder of the lock has writes that are pending, and what the use
\* of a reward reads before it selects is not overtaken by any.
UsageInv ==
  /\ usage.since <= now
  /\ usage.kind # "none" => usage.host \in Servers
  /\ usage.kind = "none" <=> usage.at = "idle"
  /\ usage.kind = "drop" => usage.at = "end"
  /\ usage.at \in {"flush", "row", "select"} => usage.kind = "use"
  /\ usage.kind = "use" /\ usage.at \in {"fetch", "apply"} => usage.attempted = Rewards
  /\ \A h \in Servers : writes[h] # <<>> =>
       /\ usage.kind # "none" /\ usage.host = h
       /\ usage.at \notin {"flush", "row", "select"}
       /\ ~(usage.kind = "use" /\ usage.at = "apply")

Surpassed(list, limit, ws) ==
  ~list.deleted => /\ list.at <= limit
                   /\ \A h \in Servers : \A p \in Pending(ws[h]) : list.at <= p.at

ListsInv ==
  /\ Surpassed(storedList, Limit, writes)
  /\ \A h \in Servers : ~memory[h].deleted /\ memory[h].at <= Limit
  /\ \A h \in Servers : panel[h].at = "hydrate" => Surpassed(panel[h].row, Limit, writes)
  /\ \A h \in Servers : InOrder(writes[h])
  /\ \A h \in Servers : \A p \in Pending(writes[h]) :
       IF p.deleted THEN usage.kind = "drop" ELSE p.at <= Limit
  /\ usage.at = "select" => usage.row = storedList

\* As long as no write was lost.
OrderInv ==
  /\ \A h \in Servers :
       panel[h].at = "hydrate" /\ ~panel[h].row.deleted => panel[h].row.at <= storedList.at
  /\ \A h \in Servers :
       IF writes[h] = <<>> THEN memory[h].at <= storedList.at
       ELSE \E p \in Pending(writes[h]) : memory[h].at <= p.at
  /\ \A h, k \in Servers : h # k => \A p \in Pending(writes[k]) : memory[h].at <= p.at
  /\ usage.at \in {"row", "select"} => usage.local.at <= storedList.at
  /\ usage.kind = "use" /\ usage.at = "apply" => usage.from >= storedList.at

CacheInv == CacheTypes /\ UsageInv /\ ListsInv /\ (~lost => OrderInv)

-----------------------------------------------------------------------------
(* Pending writes. *)

LEMMA PendingNone == Pending(<<>>) = {} /\ InOrder(<<>>)
  BY DEF Pending, InOrder

LEMMA PendingIsTyped ==
  ASSUME NEW S, NEW ws \in Seq(S), NEW p \in Pending(ws)
  PROVE  p \in S
  BY ElementOfSeq, LenProperties DEF Pending

LEMMA PendingSome ==
  ASSUME NEW S, NEW ws \in Seq(S), ws # <<>>
  PROVE  ws[1] \in Pending(ws)
<1>1. Len(ws) \in Nat \ {0} /\ DOMAIN ws = 1..Len(ws)
  BY EmptySeq, LenProperties
<1>2. 1 \in DOMAIN ws
  BY <1>1
<1> QED
  BY <1>2 DEF Pending

LEMMA PendingAppend ==
  ASSUME NEW S, NEW ws \in Seq(S), NEW x \in S
  PROVE  /\ Append(ws, x) \in Seq(S) /\ Append(ws, x) # <<>>
         /\ Pending(Append(ws, x)) = Pending(ws) \cup {x}
<1>1. /\ Append(ws, x) \in Seq(S) /\ Append(ws, x) # <<>>
      /\ DOMAIN ws = 1..Len(ws) /\ DOMAIN Append(ws, x) = 1..(Len(ws) + 1)
      /\ \A i \in 1..Len(ws) : Append(ws, x)[i] = ws[i]
      /\ Append(ws, x)[Len(ws) + 1] = x
      /\ Len(ws) \in Nat
  BY AppendProperties, LenProperties
<1> QED
  BY <1>1 DEF Pending

LEMMA OrderAppend ==
  ASSUME NEW ws \in Seq(ListSet), NEW x \in ListSet, InOrder(ws),
         \A p \in Pending(ws) : p.at <= x.at
  PROVE  InOrder(Append(ws, x))
<1>1. /\ DOMAIN ws = 1..Len(ws) /\ DOMAIN Append(ws, x) = 1..(Len(ws) + 1)
      /\ \A i \in 1..Len(ws) : Append(ws, x)[i] = ws[i]
      /\ Append(ws, x)[Len(ws) + 1] = x
      /\ Len(ws) \in Nat
  BY AppendProperties, LenProperties
<1> DEFINE new == Append(ws, x)
<1> HIDE DEF new
<1>2. ASSUME NEW i \in 1..(Len(ws) + 1), NEW j \in 1..(Len(ws) + 1), i < j
      PROVE  new[i].at <= new[j].at
  <2>1. i \in 1..Len(ws) /\ new[i] = ws[i] /\ ws[i] \in Pending(ws)
    BY <1>1, <1>2 DEF new, Pending
  <2>2. CASE j = Len(ws) + 1
    BY <1>1, <2>1, <2>2 DEF new
  <2>3. CASE j \in 1..Len(ws)
    BY <1>1, <1>2, <2>1, <2>3 DEF new, InOrder
  <2> QED
    BY <1>1, <2>2, <2>3
<1> QED
  BY <1>1, <1>2 DEF InOrder, new

LEMMA PendingTail ==
  ASSUME NEW ws \in Seq(ListSet), ws # <<>>, InOrder(ws)
  PROVE  /\ Head(ws) \in Pending(ws) /\ Tail(ws) \in Seq(ListSet)
         /\ Pending(ws) = Pending(Tail(ws)) \cup {Head(ws)}
         /\ InOrder(Tail(ws))
         /\ \A p \in Pending(Tail(ws)) : Head(ws).at <= p.at
<1>1. /\ Tail(ws) \in Seq(ListSet) /\ Len(ws) \in Nat \ {0}
      /\ DOMAIN ws = 1..Len(ws) /\ DOMAIN Tail(ws) = 1..(Len(ws) - 1)
      /\ \A i \in 1..(Len(ws) - 1) : Tail(ws)[i] = ws[i + 1]
      /\ Head(ws) = ws[1]
  BY HeadTailProperties, LenProperties, EmptySeq
<1> DEFINE rest == Tail(ws)
<1> HIDE DEF rest
<1>2. Pending(ws) = Pending(rest) \cup {ws[1]}
  <2>1. ASSUME NEW p \in Pending(ws) PROVE p \in Pending(rest) \cup {ws[1]}
    <3>1. PICK i \in 1..Len(ws) : p = ws[i]
      BY <1>1 DEF Pending
    <3>2. CASE i # 1
      <4>1. i - 1 \in 1..(Len(ws) - 1) /\ rest[i - 1] = ws[i]
        BY <1>1, <3>1, <3>2 DEF rest
      <4> QED
        BY <1>1, <3>1, <4>1 DEF Pending, rest
    <3> QED
      BY <3>1, <3>2
  <2>2. ASSUME NEW p \in Pending(rest) PROVE p \in Pending(ws)
    <3>1. PICK i \in 1..(Len(ws) - 1) : p = ws[i + 1]
      BY <1>1 DEF Pending, rest
    <3> QED
      BY <1>1, <3>1 DEF Pending
  <2>3. ws[1] \in Pending(ws)
    BY <1>1 DEF Pending
  <2> QED
    BY <2>1, <2>2, <2>3
<1>3. ASSUME NEW i \in 1..(Len(ws) - 1) PROVE ws[1].at <= rest[i].at
  <2>1. i + 1 \in 1..Len(ws) /\ 1 \in 1..Len(ws) /\ 1 < i + 1
    BY <1>1
  <2> QED
    BY <1>1, <2>1 DEF rest, InOrder
<1>4. ASSUME NEW i \in 1..(Len(ws) - 1), NEW j \in 1..(Len(ws) - 1), i < j
      PROVE  rest[i].at <= rest[j].at
  <2>1. i + 1 \in 1..Len(ws) /\ j + 1 \in 1..Len(ws) /\ i + 1 < j + 1
    BY <1>1, <1>4
  <2> QED
    BY <1>1, <2>1 DEF rest, InOrder
<1>5. InOrder(rest) /\ \A p \in Pending(rest) : ws[1].at <= p.at
  BY <1>1, <1>3, <1>4 DEF InOrder, Pending, rest
<1> QED
  BY <1>1, <1>2, <1>5 DEF rest

LEMMA FetchedListIsNewest ==
  ASSUME CacheInv, NEW h \in Servers, NEW x \in ListSet,
         writes' = [writes EXCEPT ![h] = Append(@, x)],
         \A p \in Pending(writes[h]) : p.at <= x.at
  PROVE  /\ writes' \in [Servers -> Seq(ListSet)]
         /\ \A k \in Servers \ {h} : writes'[k] = writes[k]
         /\ writes'[h] # <<>> /\ Pending(writes'[h]) = Pending(writes[h]) \cup {x}
         /\ InOrder(writes'[h])
<1>1. writes \in [Servers -> Seq(ListSet)] /\ InOrder(writes[h])
  BY DEF CacheInv, CacheTypes, ListsInv
<1> DEFINE new == Append(writes[h], x)
<1>2. writes' = [writes EXCEPT ![h] = new]
  OBVIOUS
<1>3. new \in Seq(ListSet) /\ new # <<>> /\ Pending(new) = Pending(writes[h]) \cup {x} /\ InOrder(new)
  BY <1>1, PendingAppend, OrderAppend
<1> HIDE DEF new
<1> QED
  BY <1>1, <1>2, <1>3

LEMMA InitCacheInv == CacheInit => CacheInv
<1> SUFFICES ASSUME CacheInit PROVE CacheInv
  OBVIOUS
<1>1. NoRecord \in ListSet /\ NoRecord.at = 0 /\ ~NoRecord.deleted
  BY DEF NoRecord, ListSet
<1>2. NoUsage \in UsageSet /\ NoUsage.kind = "none" /\ NoUsage.at = "idle" /\ NoUsage.since = 0
  BY <1>1 DEF NoUsage, UsageSet
<1>3. NoPanel \in PanelSet /\ NoPanel.at = "idle"
  BY <1>1 DEF NoPanel, PanelSet
<1>4. CacheTypes
  BY <1>1, <1>2, <1>3 DEF CacheInit, CacheTypes
<1>5. UsageInv
  BY <1>2 DEF CacheInit, UsageInv
<1>6. ListsInv
  BY <1>1, <1>2, <1>3, PendingNone DEF CacheInit, ListsInv, Limit, Surpassed
<1>7. OrderInv
  BY <1>1, <1>2, <1>3, PendingNone DEF CacheInit, OrderInv
<1> QED
  BY <1>4, <1>5, <1>6, <1>7 DEF CacheInv

LEMMA WriteKeeps ==
  ASSUME CacheInv, NEW h \in Servers, Write(h)
  PROVE  CacheInv'
<1> DEFINE ws == writes[h]
<1>1. /\ Head(ws) \in Pending(ws) /\ Tail(ws) \in Seq(ListSet)
      /\ Pending(ws) = Pending(Tail(ws)) \cup {Head(ws)}
      /\ InOrder(Tail(ws))
      /\ \A p \in Pending(Tail(ws)) : Head(ws).at <= p.at
  BY PendingTail DEF CacheInv, CacheTypes, ListsInv, Write
<1>2. Head(ws) \in ListSet
  BY <1>1, PendingIsTyped DEF CacheInv, CacheTypes
<1>3. /\ writes' \in [Servers -> Seq(ListSet)]
      /\ \A k \in Servers \ {h} : writes'[k] = writes[k] /\ writes[k] = <<>>
      /\ writes'[h] = Tail(ws)
  BY <1>1 DEF Write, CacheInv, CacheTypes, UsageInv
<1>4. \A p \in Pending(ws) : p \in ListSet
  BY PendingIsTyped DEF CacheInv, CacheTypes
<1>5. UNCHANGED <<available, memory, usage, panel, now>> /\ ws # <<>>
  BY DEF Write
<1>6. storedList' \in {storedList, Head(ws)} /\ (~lost' => ~lost /\ storedList' = Head(ws))
  <2>1. \/ storedList' = Head(ws) /\ lost' = lost
        \/ storedList' = storedList /\ lost' = TRUE
    BY DEF Write
  <2>2. CASE storedList' = Head(ws) /\ lost' = lost
    BY <2>2, Zenon
  <2>3. CASE storedList' = storedList /\ lost' = TRUE
    BY <2>3, Zenon
  <2> QED
    BY <2>1, <2>2, <2>3
<1> HIDE DEF ws
<1>7. CacheTypes'
  BY <1>2, <1>3, <1>5, <1>6 DEF CacheInv, CacheTypes
<1>8. UsageInv'
  BY <1>3, <1>5 DEF CacheInv, UsageInv, ws
<1>9. ListsInv'
  BY <1>1, <1>2, <1>3, <1>4, <1>5, <1>6, PendingNone
  DEF CacheInv, CacheTypes, UsageInv, ListsInv, Limit, Surpassed, ws
<1>10. ASSUME ~lost' PROVE OrderInv'
  <2>1. OrderInv /\ storedList' = Head(ws)
    BY <1>6, <1>10 DEF CacheInv
  <2>2. \A k \in Servers : panel[k].at = "hydrate" /\ ~panel[k].row.deleted
                             => panel[k].row.at <= Head(ws).at
    BY <1>1, <1>5 DEF CacheInv, ListsInv, Surpassed, ws
  <2>3. \A k \in Servers \ {h} : memory[k].at <= Head(ws).at
    BY <1>1, <2>1 DEF OrderInv, ws
  <2>4. Tail(ws) = <<>> => memory[h].at <= Head(ws).at
    BY <1>1, <1>5, <2>1, PendingNone DEF OrderInv, ws
  <2>5. Tail(ws) # <<>> => \E p \in Pending(Tail(ws)) : memory[h].at <= p.at
    <3>1. SUFFICES ASSUME Tail(ws) # <<>> PROVE \E p \in Pending(Tail(ws)) : memory[h].at <= p.at
      OBVIOUS
    <3>2. PICK p \in Pending(ws) : memory[h].at <= p.at
      BY <1>5, <2>1 DEF OrderInv, ws
    <3>3. CASE p \in Pending(Tail(ws))
      BY <3>2, <3>3
    <3>4. CASE p = Head(ws)
      <4>0. Tail(ws)[1] \in Pending(Tail(ws))
        BY <1>1, <3>1, PendingSome
      <4>1. PICK q \in Pending(Tail(ws)) : Head(ws).at <= q.at
        BY <1>1, <4>0
      <4>2. memory[h].at \in Nat /\ p.at \in Nat /\ q.at \in Nat
        BY <1>1, <1>4 DEF CacheInv, CacheTypes, ListSet
      <4> QED
        BY <3>2, <3>4, <4>1, <4>2
    <3> QED
      BY <1>1, <3>3, <3>4
  <2>6. \A k, j \in Servers : k # j => \A p \in Pending(writes'[j]) : memory[k].at <= p.at
    BY <1>1, <1>3, <2>1, PendingNone DEF OrderInv, ws
  <2> QED
    BY <1>3, <1>5, <2>1, <2>2, <2>3, <2>4, <2>5, <2>6 DEF OrderInv, CacheInv, UsageInv, ws
<1> QED
  BY <1>7, <1>8, <1>9, <1>10 DEF CacheInv

\* Steps of the operation that change nothing but what it knows.
LEMMA UsageMoves ==
  ASSUME CacheInv, NEW next \in UsageSet, usage' = next,
         UNCHANGED <<memory, storedList, writes, panel, lost, now>>, available' \subseteq Rewards,
         UsageInv',
         usage.kind = "drop" => usage'.kind = "drop" \/ \A h \in Servers : writes[h] = <<>>,
         usage'.at \in {"row", "select"} => usage'.local.at <= storedList.at \/ lost,
         usage'.at = "select" => usage'.row = storedList,
         usage'.at # "apply"
  PROVE  CacheInv'
<1>1. CacheTypes'
  BY DEF CacheInv, CacheTypes
<1>2. Limit <= Limit' /\ Limit \in Nat /\ Limit' \in Nat
  BY DEF CacheInv, CacheTypes, UsageInv, UsageSet, Limit
<1>3. storedList \in ListSet /\ \A h \in Servers : memory[h] \in ListSet /\ panel[h].row \in ListSet
  BY DEF CacheInv, CacheTypes, PanelSet
<1>4. \A h \in Servers : \A p \in Pending(writes[h]) : p \in ListSet
  BY PendingIsTyped DEF CacheInv, CacheTypes
<1>5. ListsInv'
  BY <1>2, <1>3, <1>4, PendingNone DEF CacheInv, ListsInv, Surpassed, ListSet
<1>6. ~lost => OrderInv'
  BY DEF CacheInv, OrderInv
<1> QED
  BY <1>1, <1>5, <1>6 DEF CacheInv

LEMMA LockKeeps ==
  ASSUME CacheInv, NEW h \in Servers, Refresh(h) \/ Use(h)
  PROVE  CacheInv'
<1>1. PICK what \in {"refresh", "use"}, stage \in {"fetch", "flush"} :
        /\ what = "use" <=> stage = "flush"
        /\ usage.kind = "none"
        /\ usage' = [NoUsage EXCEPT !.kind = what, !.host = h, !.at = stage, !.since = now]
        /\ UNCHANGED <<available, memory, storedList, writes, panel, lost, now>>
  BY DEF Refresh, Use, Locks
<1> DEFINE next == [NoUsage EXCEPT !.kind = what, !.host = h, !.at = stage, !.since = now]
<1>2. /\ next \in UsageSet
      /\ next.kind = what /\ next.host = h /\ next.at = stage /\ next.since = now
  BY DEF NoUsage, NoRecord, UsageSet, ListSet, CacheInv, CacheTypes
<1>3. usage' = next
  BY <1>1
<1> HIDE DEF next
<1>4. \A k \in Servers : writes[k] = <<>>
  BY <1>1 DEF CacheInv, UsageInv
<1>5. UsageInv'
  BY <1>1, <1>2, <1>3, <1>4 DEF UsageInv, CacheInv, CacheTypes
<1> QED
  BY <1>1, <1>2, <1>3, <1>4, <1>5, UsageMoves DEF CacheInv, CacheTypes

LEMMA UseReadsKeep ==
  ASSUME CacheInv, UseFlushed \/ UseRead
  PROVE  CacheInv'
<1>1. usage \in UsageSet /\ storedList \in ListSet /\ usage.kind = "use" /\ usage.host \in Servers
  BY DEF CacheInv, CacheTypes, UsageInv, UseFlushed, UseRead
<1>2. CASE UseFlushed
  <2> DEFINE next == [usage EXCEPT !.at = "row", !.local = memory[usage.host]]
  <2>1. memory[usage.host] \in ListSet
    BY <1>1 DEF CacheInv, CacheTypes
  <2>2. /\ next \in UsageSet /\ next.at = "row" /\ next.local = memory[usage.host]
        /\ next.kind = usage.kind /\ next.host = usage.host /\ next.since = usage.since
    BY <1>1, <2>1 DEF UsageSet
  <2>3. /\ usage' = next /\ usage.at = "flush" /\ writes[usage.host] = <<>>
        /\ UNCHANGED <<available, memory, storedList, writes, panel, lost, now>>
    BY <1>2 DEF UseFlushed
  <2> HIDE DEF next
  <2>4. UsageInv'
    BY <2>2, <2>3 DEF UsageInv, CacheInv
  <2>5. next.local.at <= storedList.at \/ lost
    BY <1>1, <2>2, <2>3 DEF CacheInv, OrderInv
  <2> QED
    BY <1>1, <2>2, <2>3, <2>4, <2>5, UsageMoves DEF CacheInv, CacheTypes
<1>3. CASE UseRead
  <2> DEFINE next == [usage EXCEPT !.at = "select", !.row = storedList]
  <2>1. /\ next \in UsageSet /\ next.at = "select" /\ next.local = usage.local /\ next.row = storedList
        /\ next.kind = usage.kind /\ next.host = usage.host /\ next.since = usage.since
    BY <1>1 DEF UsageSet
  <2>2. /\ usage' = next /\ usage.at = "row"
        /\ UNCHANGED <<available, memory, storedList, writes, panel, lost, now>>
    BY <1>3 DEF UseRead
  <2> HIDE DEF next
  <2>3. UsageInv'
    BY <2>1, <2>2 DEF UsageInv, CacheInv
  <2>4. next.local.at <= storedList.at \/ lost
    BY <1>1, <2>1, <2>2 DEF CacheInv, OrderInv
  <2> QED
    BY <1>1, <2>1, <2>2, <2>3, <2>4, UsageMoves DEF CacheInv, CacheTypes
<1> QED
  BY <1>2, <1>3

LEMMA UnlockKeeps ==
  ASSUME CacheInv, UsageUnlocks
  PROVE  CacheInv'
<1>1. NoUsage \in UsageSet /\ NoUsage.kind = "none" /\ NoUsage.at = "idle" /\ NoUsage.since = 0
  BY DEF NoUsage, NoRecord, UsageSet, ListSet
<1>2. /\ usage' = NoUsage /\ usage.at = "end" /\ writes[usage.host] = <<>>
      /\ UNCHANGED <<available, memory, storedList, writes, panel, lost, now>>
  BY DEF UsageUnlocks
<1>3. \A h \in Servers : writes[h] = <<>>
  BY <1>2 DEF CacheInv, UsageInv
<1>4. UsageInv'
  BY <1>1, <1>2, <1>3 DEF UsageInv, CacheInv, CacheTypes
<1> QED
  BY <1>1, <1>2, <1>3, <1>4, UsageMoves DEF CacheInv, CacheTypes

\* What an operation fetches, uses up or drops is newer than all that lives.
LEMMA NewListKeeps ==
  ASSUME CacheInv, NEW h \in Servers, NEW list \in ListSet, NEW next \in UsageSet,
         writes' = [writes EXCEPT ![h] = Append(@, list)], memory' \in [Servers -> ListSet],
         \A k \in Servers \ {h} : memory'[k] = memory[k],
         memory'[h].at <= list.at, ~memory'[h].deleted, memory'[h].at <= now,
         IF list.deleted THEN next.kind = "drop" /\ list.at >= now /\ next.at # "apply"
                         ELSE list.at = now,
         usage' = next, next.host = h, next.kind # "none",
         UsageInv', \A k \in Servers : k # h => writes[k] = <<>>,
         \A p \in Pending(writes[h]) : ~p.deleted,
         next.at = "apply" => next.since = now /\ next.kind # "use",
         next.at \notin {"row", "select"},
         UNCHANGED <<storedList, panel, lost, now>>, available' \subseteq Rewards
  PROVE  CacheInv'
<1>1. \A k \in Servers : \A p \in Pending(writes[k]) : p \in ListSet
  BY PendingIsTyped DEF CacheInv, CacheTypes
<1>2. Limit \in Nat /\ now \in Nat /\ Limit <= now /\ Limit' = now
  BY DEF CacheInv, CacheTypes, UsageInv, UsageSet, Limit
<1>3. \A p \in Pending(writes[h]) : p.at <= list.at
  BY <1>1, <1>2 DEF CacheInv, ListsInv, ListSet
<1>4. /\ writes' \in [Servers -> Seq(ListSet)]
      /\ \A k \in Servers \ {h} : writes'[k] = writes[k] /\ writes[k] = <<>>
      /\ writes'[h] # <<>> /\ Pending(writes'[h]) = Pending(writes[h]) \cup {list}
      /\ InOrder(writes'[h])
  BY <1>3, FetchedListIsNewest
<1>5. CacheTypes'
  BY <1>4 DEF CacheInv, CacheTypes
<1>6. /\ storedList \in ListSet
      /\ \A k \in Servers : memory[k] \in ListSet /\ memory'[k] \in ListSet /\ panel[k].row \in ListSet
  BY DEF CacheInv, CacheTypes, PanelSet
<1>7. \A x \in ListSet : Surpassed(x, Limit, writes) => Surpassed(x, Limit', writes')
  BY <1>1, <1>2, <1>4, PendingNone DEF Surpassed, ListSet
<1>8. ListsInv'
  <2>1. Surpassed(storedList', Limit', writes')
    BY <1>6, <1>7 DEF CacheInv, ListsInv
  <2>2. \A k \in Servers : ~memory'[k].deleted /\ memory'[k].at <= Limit'
    BY <1>2, <1>6 DEF CacheInv, ListsInv, ListSet
  <2>3. \A k \in Servers : panel'[k].at = "hydrate" => Surpassed(panel'[k].row, Limit', writes')
    BY <1>6, <1>7 DEF CacheInv, ListsInv
  <2>4. \A k \in Servers : InOrder(writes'[k])
    BY <1>4 DEF CacheInv, ListsInv
  <2>5. \A k \in Servers : \A p \in Pending(writes'[k]) :
          IF p.deleted THEN usage'.kind = "drop" ELSE p.at <= Limit'
    <3> SUFFICES ASSUME NEW k \in Servers, NEW p \in Pending(writes'[k])
                 PROVE  IF p.deleted THEN usage'.kind = "drop" ELSE p.at <= Limit'
      OBVIOUS
    <3>1. k = h
      BY <1>4, PendingNone
    <3>2. CASE p \in Pending(writes[h])
      <4>1. ~p.deleted /\ p.at <= Limit /\ p.at \in Nat
        BY <1>1, <3>2 DEF CacheInv, ListsInv, ListSet
      <4> QED
        BY <1>2, <4>1
    <3>3. CASE p = list
      BY <1>2, <3>3 DEF ListSet
    <3> QED
      BY <1>4, <3>1, <3>2, <3>3
  <2> QED
    BY <2>1, <2>2, <2>3, <2>4, <2>5 DEF ListsInv
<1>9. ASSUME ~lost PROVE OrderInv'
  <2>1. OrderInv
    BY <1>9 DEF CacheInv
  <2>2. \A k, j \in Servers : k # j => \A p \in Pending(writes'[j]) : memory'[k].at <= p.at
    <3> SUFFICES ASSUME NEW k \in Servers, NEW j \in Servers, k # j, NEW p \in Pending(writes'[j])
                 PROVE  memory'[k].at <= p.at
      OBVIOUS
    <3>1. j = h /\ memory'[k] = memory[k]
      BY <1>4, PendingNone
    <3>2. CASE p \in Pending(writes[h])
      BY <2>1, <3>1, <3>2 DEF OrderInv
    <3>3. CASE p = list
      BY <1>2, <1>6, <3>1, <3>3 DEF CacheInv, ListsInv, ListSet
    <3> QED
      BY <1>4, <3>1, <3>2, <3>3
  <2>3. \A k \in Servers :
          IF writes'[k] = <<>> THEN memory'[k].at <= storedList.at
          ELSE \E p \in Pending(writes'[k]) : memory'[k].at <= p.at
    BY <1>4, <2>1 DEF OrderInv
  <2> QED
    BY <2>1, <2>2, <2>3 DEF OrderInv
<1> QED
  BY <1>5, <1>8, <1>9 DEF CacheInv

LEMMA DropKeeps ==
  ASSUME CacheInv, NEW h \in Servers, Drop(h)
  PROVE  CacheInv'
<1> DEFINE next == [NoUsage EXCEPT !.kind = "drop", !.host = h, !.at = "end", !.since = now]
           list == [rewards |-> {}, at |-> Later(now, memory[h].at + 1), deleted |-> TRUE]
<1>1. /\ next \in UsageSet
      /\ next.kind = "drop" /\ next.host = h /\ next.at = "end" /\ next.since = now
  BY DEF NoUsage, NoRecord, UsageSet, ListSet, CacheInv, CacheTypes
<1>2. /\ usage' = next /\ usage.kind = "none" /\ memory' = [memory EXCEPT ![h] = NoRecord]
      /\ writes' = [writes EXCEPT ![h] = Append(@, list)]
      /\ UNCHANGED <<available, storedList, panel, lost, now>>
  BY DEF Drop, Locks, PersistList
<1>3. memory[h].at \in Nat /\ now \in Nat
  BY DEF CacheInv, CacheTypes, ListSet
<1>4. list \in ListSet /\ list.at >= now /\ list.deleted
  BY <1>3 DEF ListSet, Later
<1>5. NoRecord \in ListSet /\ NoRecord.at = 0 /\ ~NoRecord.deleted
  BY DEF NoRecord, ListSet
<1>6. \A k \in Servers : writes[k] = <<>>
  BY <1>2 DEF CacheInv, UsageInv
<1> HIDE DEF next, list
<1>7. \A k \in Servers \ {h} : writes'[k] = <<>>
  BY <1>2, <1>6 DEF CacheInv, CacheTypes
<1>8. UsageInv'
  BY <1>1, <1>2, <1>3, <1>7 DEF UsageInv
<1>9. /\ memory' \in [Servers -> ListSet] /\ memory'[h] = NoRecord
      /\ \A k \in Servers \ {h} : memory'[k] = memory[k]
  BY <1>2, <1>5 DEF CacheInv, CacheTypes
<1>10. memory'[h].at <= list.at /\ ~memory'[h].deleted /\ memory'[h].at <= now
  BY <1>3, <1>4, <1>5, <1>9 DEF ListSet
<1>11. \A p \in Pending(writes[h]) : ~p.deleted
  BY <1>6, PendingNone
<1>12. /\ IF list.deleted THEN next.kind = "drop" /\ list.at >= now /\ next.at # "apply"
                          ELSE list.at = now
       /\ next.at \notin {"row", "select"} /\ next.kind # "none"
  BY <1>1, <1>4
<1>13. available' \subseteq Rewards
  BY <1>2 DEF CacheInv, CacheTypes
<1> QED
  BY <1>1, <1>2, <1>4, <1>6, <1>8, <1>9, <1>10, <1>11, <1>12, <1>13, NewListKeeps

\* The holder keeps a list that it has fetched or used up, and goes on.
LEMMA KeptListKeeps ==
  ASSUME CacheInv, NEW list \in ListSet, NEW next \in UsageSet,
         usage.at \in {"fetch", "apply", "latest"},
         writes' = [writes EXCEPT ![usage.host] = Append(@, list)],
         memory' = [memory EXCEPT ![usage.host] = list],
         ~list.deleted, list.at = now, usage' = next,
         next.kind = usage.kind, next.host = usage.host, next.since <= now,
         next.at \in {"fetch", "apply", "end"}, next.attempted \subseteq Rewards,
         next.kind = "use" => next.at # "apply" /\ next.attempted = usage.attempted,
         next.kind = "use" /\ next.at = "fetch" => usage.at = "apply",
         next.at = "apply" => next.since = now,
         UNCHANGED <<storedList, panel, lost, now>>, available' \subseteq Rewards
  PROVE  CacheInv'
<1> DEFINE h == usage.host
<1>1. /\ h \in Servers /\ usage.kind \in {"use", "refresh"}
      /\ \A k \in Servers : k # h => writes[k] = <<>>
  BY DEF CacheInv, CacheTypes, UsageInv, UsageSet
<1>2. \A p \in Pending(writes[h]) : ~p.deleted
  BY <1>1 DEF CacheInv, ListsInv
<1>3. /\ memory' \in [Servers -> ListSet] /\ memory'[h] = list
      /\ \A k \in Servers \ {h} : memory'[k] = memory[k]
  BY <1>1 DEF CacheInv, CacheTypes
<1>4. \A k \in Servers : k # h => writes'[k] = <<>>
  BY <1>1 DEF CacheInv, CacheTypes
<1>5. UsageInv'
  BY <1>1, <1>4 DEF CacheInv, CacheTypes, UsageInv
<1>6. IF list.deleted THEN next.kind = "drop" /\ list.at >= now /\ next.at # "apply"
                      ELSE list.at = now
  OBVIOUS
<1>7. memory'[h].at <= list.at /\ ~memory'[h].deleted /\ memory'[h].at <= now
  BY <1>3 DEF ListSet
<1> HIDE DEF h
<1>8. next.host = h /\ writes' = [writes EXCEPT ![h] = Append(@, list)]
  BY DEF h
<1>9. /\ next.at = "apply" => next.since = now /\ next.kind # "use"
      /\ next.at \notin {"row", "select"} /\ next.kind # "none"
  BY <1>1
<1> QED
  BY <1>1, <1>2, <1>3, <1>5, <1>6, <1>7, <1>8, <1>9, NewListKeeps

LEMMA FetchKeeps ==
  ASSUME CacheInv, FetchList
  PROVE  CacheInv'
<1> DEFINE list == [rewards |-> available, at |-> now, deleted |-> FALSE]
           ended == [usage EXCEPT !.at = "end"]
<1>1. list \in ListSet /\ list.at = now /\ ~list.deleted
  BY DEF CacheInv, CacheTypes, ListSet
<1>2. /\ usage \in UsageSet /\ usage.at = "fetch" /\ available \subseteq Rewards
      /\ UNCHANGED <<available, storedList, panel, lost, now>>
  BY DEF CacheInv, CacheTypes, FetchList
<1>3. /\ ended \in UsageSet /\ ended.at = "end" /\ ended.kind = usage.kind /\ ended.host = usage.host
      /\ ended.since = usage.since /\ ended.attempted = usage.attempted
  BY <1>2 DEF UsageSet
<1>4. usage.since <= now
  BY DEF CacheInv, UsageInv
<1>5. CASE KeepList(usage.host) /\ usage' = ended
  <2>1. /\ memory' = [memory EXCEPT ![usage.host] = list]
        /\ writes' = [writes EXCEPT ![usage.host] = Append(@, list)]
    BY <1>5 DEF KeepList, PersistList
  <2> HIDE DEF list, ended
  <2> QED
    BY <1>1, <1>2, <1>3, <1>4, <1>5, <2>1, KeptListKeeps DEF UsageSet
<1>6. CASE /\ KeepList(usage.host)
           /\ \E r \in available \ usage.attempted :
                usage' = [usage EXCEPT !.at = "apply", !.wanted = {r},
                                       !.attempted = @ \cup {r}, !.since = now]
  <2>1. /\ memory' = [memory EXCEPT ![usage.host] = list]
        /\ writes' = [writes EXCEPT ![usage.host] = Append(@, list)]
    BY <1>6 DEF KeepList, PersistList
  <2>2. PICK r \in available \ usage.attempted :
          usage' = [usage EXCEPT !.at = "apply", !.wanted = {r},
                                 !.attempted = @ \cup {r}, !.since = now]
    BY <1>6
  <2> DEFINE next == [usage EXCEPT !.at = "apply", !.wanted = {r},
                                   !.attempted = @ \cup {r}, !.since = now]
  <2>3. /\ next \in UsageSet /\ next.at = "apply" /\ next.kind = usage.kind
        /\ next.host = usage.host /\ next.since = now
    BY <1>2 DEF UsageSet, CacheInv, CacheTypes
  <2>4. usage.kind # "use"
    BY <1>2, <2>2 DEF CacheInv, UsageInv
  <2> HIDE DEF list, ended, next
  <2>5. usage' = next
    BY <2>2 DEF next
  <2>6. next.attempted \subseteq Rewards /\ next.since <= now /\ now \in Nat
    BY <2>3 DEF UsageSet, CacheInv, CacheTypes
  <2> QED
    BY <1>1, <1>2, <2>1, <2>3, <2>4, <2>5, <2>6, KeptListKeeps
<1>7. CASE usage' = ended /\ UNCHANGED <<memory, writes>>
  <2> HIDE DEF list, ended
  <2>1. UsageInv'
    BY <1>2, <1>3, <1>7 DEF CacheInv, UsageInv
  <2> QED
    BY <1>2, <1>3, <1>7, <2>1, UsageMoves
<1> QED
  BY <1>5, <1>6, <1>7 DEF FetchList

\* What was read before the provider was asked is older than its answer.
LEMMA AnswerIsNewer ==
  ASSUME CacheInv, usage.at = "apply", now > usage.since, usage.host \in Servers
  PROVE  Later(now, memory[usage.host].at + 1) = now
<1>1. memory[usage.host].at <= usage.since /\ memory[usage.host].at \in Nat
  BY DEF CacheInv, CacheTypes, ListsInv, Limit, ListSet
<1> QED
  BY <1>1 DEF Later, CacheInv, CacheTypes, UsageSet

LEMMA ApplyKeeps ==
  ASSUME CacheInv, Apply
  PROVE  CacheInv'
<1>1. /\ usage \in UsageSet /\ usage.at = "apply" /\ now > usage.since /\ available \subseteq Rewards
      /\ UNCHANGED <<storedList, panel, lost, now>> /\ usage.host \in Servers
      /\ usage.since <= now /\ now \in Nat
  BY DEF CacheInv, CacheTypes, UsageInv, Apply
<1>2. PICK r \in usage.wanted :
       \/ /\ available' = available \ {r}
          /\ Consume(usage.host, r)
          /\ usage' = [usage EXCEPT !.at = "fetch", !.wanted = {}, !.since = now]
       \/ /\ available' \in {available, available \ {r}}
          /\ usage' = [usage EXCEPT !.at = "latest", !.since = now]
          /\ UNCHANGED <<memory, writes>>
  BY DEF Apply
<1>3. available' \subseteq Rewards
  BY <1>1, <1>2
<1> DEFINE again == [usage EXCEPT !.at = "fetch", !.wanted = {}, !.since = now]
           latest == [usage EXCEPT !.at = "latest", !.since = now]
<1>4. /\ again \in UsageSet /\ again.at = "fetch" /\ again.kind = usage.kind /\ again.host = usage.host
      /\ again.since = now /\ again.attempted = usage.attempted
      /\ latest \in UsageSet /\ latest.at = "latest" /\ latest.kind = usage.kind
      /\ latest.host = usage.host /\ latest.since = now /\ latest.attempted = usage.attempted
  BY <1>1 DEF UsageSet
<1>5. CASE Consume(usage.host, r) /\ usage' = again
  <2>1. CASE UNCHANGED <<memory, writes>>
    <3> HIDE DEF again, latest
    <3>1. UsageInv'
      BY <1>1, <1>4, <1>5, <2>1 DEF CacheInv, UsageInv
    <3> QED
      BY <1>1, <1>3, <1>4, <1>5, <2>1, <3>1, UsageMoves
  <2>2. CASE ~UNCHANGED <<memory, writes>>
    <3> DEFINE list == [memory[usage.host] EXCEPT !.rewards = @ \ {r}, !.at = Later(now, @ + 1)]
    <3>1. /\ memory' = [memory EXCEPT ![usage.host] = list]
          /\ writes' = [writes EXCEPT ![usage.host] = Append(@, list)]
      BY <1>5, <2>2 DEF Consume, PersistList
    <3>2. Later(now, memory[usage.host].at + 1) = now
      BY <1>1, AnswerIsNewer
    <3>3. memory[usage.host] \in ListSet /\ ~memory[usage.host].deleted
      BY <1>1 DEF CacheInv, CacheTypes, ListsInv
    <3>4. list \in ListSet /\ list.at = now /\ ~list.deleted
      BY <1>1, <3>2, <3>3 DEF ListSet
    <3> HIDE DEF again, latest, list
    <3>5. again.attempted \subseteq Rewards
      BY <1>4 DEF UsageSet
    <3>6. /\ again.since <= now /\ again.at \in {"fetch", "apply", "end"}
          /\ again.kind = "use" => again.at # "apply" /\ again.attempted = usage.attempted
          /\ again.kind = "use" /\ again.at = "fetch" => usage.at = "apply"
          /\ again.at = "apply" => again.since = now
          /\ usage.at \in {"fetch", "apply", "latest"}
      BY <1>1, <1>4
    <3>7. again \in UsageSet /\ again.kind = usage.kind /\ again.host = usage.host
      BY <1>4
    <3>8. usage' = again /\ UNCHANGED <<storedList, panel, lost, now>>
      BY <1>1, <1>5
    <3> QED
      BY <1>3, <3>1, <3>4, <3>5, <3>6, <3>7, <3>8, KeptListKeeps
  <2> QED
    BY <2>1, <2>2
<1>6. CASE usage' = latest /\ UNCHANGED <<memory, writes>>
  <2> HIDE DEF again, latest
  <2>1. UsageInv'
    BY <1>1, <1>4, <1>6 DEF CacheInv, UsageInv
  <2> QED
    BY <1>1, <1>3, <1>4, <1>6, <2>1, UsageMoves
<1> QED
  BY <1>2, <1>5, <1>6

LEMMA LatestKeeps ==
  ASSUME CacheInv, Latest
  PROVE  CacheInv'
<1> DEFINE list == [rewards |-> available, at |-> now, deleted |-> FALSE]
           stage == IF usage.kind = "refresh" /\ usage.wanted \cap available = {} THEN "fetch" ELSE "end"
           next == [usage EXCEPT !.wanted = {}, !.since = now, !.at = stage]
           ended == [usage EXCEPT !.at = "end", !.wanted = {}]
<1>1. list \in ListSet /\ list.at = now /\ ~list.deleted
  BY DEF CacheInv, CacheTypes, ListSet
<1>2. /\ usage \in UsageSet /\ usage.at = "latest" /\ available \subseteq Rewards /\ now \in Nat
      /\ UNCHANGED <<available, storedList, panel, lost, now>>
  BY DEF CacheInv, CacheTypes, Latest
<1>3. /\ stage \in {"fetch", "end"} /\ (usage.kind = "use" => stage = "end")
      /\ usage.since <= now /\ usage.attempted \subseteq Rewards
  BY <1>2 DEF CacheInv, UsageInv, UsageSet
<1> HIDE DEF stage
<1>4. /\ ended \in UsageSet /\ ended.at = "end" /\ ended.kind = usage.kind /\ ended.host = usage.host
      /\ ended.since = usage.since
      /\ next \in UsageSet /\ next.at = stage /\ next.kind = usage.kind /\ next.host = usage.host
      /\ next.since = now /\ next.attempted = usage.attempted
  BY <1>2, <1>3 DEF UsageSet
<1>5. CASE KeepList(usage.host) /\ usage' = next
  <2>1. /\ memory' = [memory EXCEPT ![usage.host] = list]
        /\ writes' = [writes EXCEPT ![usage.host] = Append(@, list)]
    BY <1>5 DEF KeepList, PersistList
  <2> HIDE DEF list, ended, next
  <2>2. /\ next.since <= now /\ next.at \in {"fetch", "apply", "end"}
        /\ next.kind = "use" => next.at # "apply" /\ next.attempted = usage.attempted
        /\ next.kind = "use" /\ next.at = "fetch" => usage.at = "apply"
        /\ next.at = "apply" => next.since = now
        /\ usage.at \in {"fetch", "apply", "latest"}
    BY <1>2, <1>3, <1>4
  <2>3. /\ next \in UsageSet /\ next.kind = usage.kind /\ next.host = usage.host
        /\ next.attempted \subseteq Rewards
    BY <1>3, <1>4
  <2>4. usage' = next /\ UNCHANGED <<storedList, panel, lost, now>> /\ available' \subseteq Rewards
    BY <1>2, <1>5
  <2> QED
    BY <1>1, <2>1, <2>2, <2>3, <2>4, KeptListKeeps
<1>6. CASE usage' = ended /\ UNCHANGED <<memory, writes>>
  <2> HIDE DEF list, ended, next
  <2>1. UsageInv'
    BY <1>2, <1>4, <1>6 DEF CacheInv, UsageInv
  <2> QED
    BY <1>2, <1>4, <1>6, <2>1, UsageMoves
<1> QED
  BY <1>5, <1>6 DEF Latest, stage


\* Reading the row: the memory keeps its list, or takes that of the row.
LEMMA HydratedIs ==
  ASSUME NEW list \in ListSet, NEW local \in ListSet, NEW row \in ListSet, ~list.deleted
  PROVE  /\ Hydrated(list, local, row) \in ListSet /\ ~Hydrated(list, local, row).deleted
         /\ \/ Hydrated(list, local, row) = list
            \/ Hydrated(list, local, row).at = 0 /\ Hydrated(list, local, row).rewards = {}
            \/ Hydrated(list, local, row) = row
         /\ local.at <= row.at /\ Hydrated(list, local, row).rewards # {}
              => Hydrated(list, local, row).at >= row.at
<1>1. NoRecord \in ListSet /\ NoRecord.at = 0 /\ ~NoRecord.deleted /\ NoRecord.rewards = {}
  BY DEF NoRecord, ListSet
<1>2. list.at \in Nat /\ row.at \in Nat /\ local.at \in Nat
  BY DEF ListSet
<1>3. CASE row.at = 0 \/ row.at < local.at
  BY <1>2, <1>3 DEF Hydrated
<1>4. CASE ~(row.at = 0 \/ row.at < local.at) /\ row.deleted
  BY <1>1, <1>2, <1>4 DEF Hydrated
<1>5. CASE ~(row.at = 0 \/ row.at < local.at) /\ ~row.deleted
  BY <1>2, <1>5 DEF Hydrated
<1> QED
  BY <1>3, <1>4, <1>5

\* A list from the row, in the memory of an instance.
LEMMA HydrateKeeps ==
  ASSUME CacheInv, NEW h \in Servers, NEW new \in ListSet,
         memory' = [memory EXCEPT ![h] = new], ~new.deleted,
         \/ new = memory[h]
         \/ new.at = 0
         \/ Surpassed(new, Limit, writes) /\ (lost \/ new.at <= storedList.at),
         CacheTypes', UsageInv',
         usage'.kind = usage.kind, Limit' = Limit,
         usage'.at # "select" \/ usage'.row = storedList,
         \A k \in Servers : panel'[k].at = "hydrate" => panel[k].at = "hydrate" /\ panel'[k].row = panel[k].row,
         usage'.at \in {"row", "select"} => usage.at \in {"row", "select"} /\ usage'.local = usage.local,
         usage'.kind = "use" /\ usage'.at = "apply" => lost \/ usage'.from >= storedList.at,
         UNCHANGED <<storedList, writes, lost>>
  PROVE  CacheInv'
<1>1. /\ memory'[h] = new /\ memory[h] \in ListSet /\ new.at \in Nat /\ Limit \in Nat
      /\ \A k \in Servers \ {h} : memory'[k] = memory[k]
      /\ storedList.at \in Nat
  BY DEF CacheInv, CacheTypes, ListSet, Limit, UsageSet
<1>2. new.at <= Limit
  BY <1>1 DEF CacheInv, ListsInv, Surpassed
<1>3. ListsInv'
  BY <1>1, <1>2 DEF CacheInv, ListsInv
<1>4. ASSUME ~lost PROVE OrderInv'
  <2>1. OrderInv
    BY <1>4 DEF CacheInv
  <2>2. \A k \in Servers : \A p \in Pending(writes[k]) : p.at \in Nat
    <3>1. \A k \in Servers : \A p \in Pending(writes[k]) : p \in ListSet
      BY PendingIsTyped DEF CacheInv, CacheTypes
    <3> QED
      BY <3>1 DEF ListSet
  <2>3. \A k \in Servers : writes[k] # <<>> => \E p \in Pending(writes[k]) : TRUE
    BY <2>1 DEF OrderInv
  <2>4. IF writes[h] = <<>> THEN new.at <= storedList.at
        ELSE \E p \in Pending(writes[h]) : new.at <= p.at
    BY <1>1, <1>4, <2>1, <2>2, <2>3 DEF OrderInv, Surpassed
  <2>5. \A k \in Servers \ {h} : \A p \in Pending(writes[k]) : new.at <= p.at
    BY <1>1, <2>1, <2>2 DEF OrderInv, Surpassed
  <2>6. \A k \in Servers :
          IF writes'[k] = <<>> THEN memory'[k].at <= storedList'.at
          ELSE \E p \in Pending(writes'[k]) : memory'[k].at <= p.at
    BY <1>1, <2>1, <2>4 DEF OrderInv
  <2>7. \A k, j \in Servers : k # j => \A p \in Pending(writes'[j]) : memory'[k].at <= p.at
    BY <1>1, <2>1, <2>5 DEF OrderInv
  <2>8. \A k \in Servers : panel'[k].at = "hydrate" /\ ~panel'[k].row.deleted
                              => panel'[k].row.at <= storedList'.at
    BY <2>1 DEF OrderInv
  <2>9. usage'.at \in {"row", "select"} => usage'.local.at <= storedList'.at
    BY <2>1 DEF OrderInv
  <2>10. usage'.kind = "use" /\ usage'.at = "apply" => usage'.from >= storedList'.at
    BY <1>4
  <2> QED
    BY <2>6, <2>7, <2>8, <2>9, <2>10 DEF OrderInv
<1> QED
  BY <1>3, <1>4 DEF CacheInv

LEMMA SelectKeeps ==
  ASSUME CacheInv, UseSelect
  PROVE  CacheInv'
<1> DEFINE h == usage.host
           list == Hydrated(memory[h], usage.local, usage.row)
<1>1. /\ usage \in UsageSet /\ usage.at = "select" /\ usage.kind = "use" /\ h \in Servers
      /\ usage.row = storedList /\ memory' = [memory EXCEPT ![h] = list]
      /\ usage.since <= now /\ now \in Nat
      /\ memory[h] \in ListSet /\ ~memory[h].deleted /\ storedList \in ListSet /\ usage.local \in ListSet
      /\ UNCHANGED <<available, storedList, writes, panel, lost, now>>
  BY DEF CacheInv, CacheTypes, UsageInv, ListsInv, UsageSet, UseSelect
<1>2. /\ list \in ListSet /\ ~list.deleted
      /\ list = memory[h] \/ list.at = 0 \/ list = storedList
      /\ lost \/ list.rewards = {} \/ list.at >= storedList.at
  <2>1. lost \/ usage.local.at <= storedList.at
    BY <1>1 DEF CacheInv, OrderInv
  <2> QED
    BY <1>1, <2>1, HydratedIs
<1>3. \A k \in Servers : writes[k] = <<>>
  BY <1>1 DEF CacheInv, UsageInv
<1>4. PICK r \in Rewards :
        usage' = IF r \in list.rewards
                 THEN [usage EXCEPT !.at = "apply", !.wanted = {r}, !.since = now,
                                    !.from = list.at, !.attempted = Rewards]
                 ELSE [usage EXCEPT !.at = "end"]
  BY DEF UseSelect
<1> DEFINE picked == [usage EXCEPT !.at = "apply", !.wanted = {r}, !.since = now,
                                  !.from = list.at, !.attempted = Rewards]
           ended == [usage EXCEPT !.at = "end"]
<1> HIDE DEF list, h
<1>5. /\ picked \in UsageSet /\ picked.at = "apply" /\ picked.since = now /\ picked.from = list.at
      /\ picked.attempted = Rewards /\ picked.kind = "use" /\ picked.host = h
      /\ ended \in UsageSet /\ ended.at = "end" /\ ended.kind = "use" /\ ended.host = h
      /\ ended.since = usage.since
  BY <1>1, <1>2 DEF UsageSet, ListSet, h
<1> HIDE DEF picked, ended
<1>6. (usage' = picked /\ list.rewards # {}) \/ usage' = ended
  BY <1>4 DEF picked, ended
<1>7. CacheTypes'
  BY <1>1, <1>2, <1>5, <1>6 DEF CacheInv, CacheTypes
<1>8. UsageInv'
  BY <1>1, <1>3, <1>5, <1>6 DEF UsageInv
<1>9. /\ Limit' = Limit /\ usage'.kind = usage.kind /\ usage'.at \notin {"row", "select"}
      /\ usage'.at = "apply" => lost \/ usage'.from >= storedList.at
  BY <1>1, <1>2, <1>5, <1>6 DEF Limit
<1>10. \/ list = memory[h]
       \/ list.at = 0
       \/ Surpassed(list, Limit, writes) /\ (lost \/ list.at <= storedList.at)
  BY <1>1, <1>2 DEF CacheInv, ListsInv, ListSet
<1> QED
  BY <1>1, <1>2, <1>7, <1>8, <1>9, <1>10, HydrateKeeps

LEMMA PanelKeeps ==
  ASSUME CacheInv, NEW h \in Servers, PanelAsks(h) \/ PanelReads(h) \/ PanelAnswers(h)
  PROVE  CacheInv'
<1>1. /\ UNCHANGED <<available, storedList, writes, usage, lost, now>>
      /\ panel \in [Servers -> PanelSet] /\ memory \in [Servers -> ListSet] /\ storedList \in ListSet
  BY DEF CacheInv, CacheTypes, PanelAsks, PanelReads, PanelAnswers
<1>2. Limit' = Limit
  BY <1>1 DEF Limit
<1>3. UsageInv'
  BY <1>1 DEF CacheInv, UsageInv
<1>4. CASE PanelAsks(h) \/ PanelReads(h)
  <2>1. PICK next \in PanelSet :
          /\ panel' = [panel EXCEPT ![h] = next]
          /\ next.at = "row" \/ (next.at = "hydrate" /\ next.row = storedList)
    <3> DEFINE asks == [panel[h] EXCEPT !.at = "row", !.local = memory[h]]
               reads == [panel[h] EXCEPT !.at = "hydrate", !.row = storedList]
    <3>1. /\ asks \in PanelSet /\ asks.at = "row"
          /\ reads \in PanelSet /\ reads.at = "hydrate" /\ reads.row = storedList
      BY <1>1 DEF PanelSet
    <3>2. panel' = [panel EXCEPT ![h] = asks] \/ panel' = [panel EXCEPT ![h] = reads]
      BY <1>4 DEF PanelAsks, PanelReads
    <3> HIDE DEF asks, reads
    <3>3. CASE panel' = [panel EXCEPT ![h] = asks]
      BY <3>1, <3>3
    <3>4. CASE panel' = [panel EXCEPT ![h] = reads]
      BY <3>1, <3>4
    <3> QED
      BY <3>2, <3>3, <3>4
  <2>2. /\ UNCHANGED memory /\ panel' \in [Servers -> PanelSet]
        /\ \A k \in Servers : panel'[k].at = "hydrate" =>
             \/ panel[k].at = "hydrate" /\ panel'[k] = panel[k]
             \/ panel'[k].row = storedList
    BY <1>1, <1>4, <2>1 DEF PanelAsks, PanelReads
  <2>3. CacheTypes'
    BY <1>1, <2>2 DEF CacheInv, CacheTypes
  <2>4. ListsInv'
    BY <1>1, <1>2, <2>2 DEF CacheInv, ListsInv
  <2>5. ASSUME ~lost PROVE OrderInv'
    <3>1. OrderInv
      BY <2>5 DEF CacheInv
    <3>2. \A k \in Servers : panel'[k].at = "hydrate" /\ ~panel'[k].row.deleted
                                => panel'[k].row.at <= storedList'.at
      BY <1>1, <2>2, <3>1 DEF OrderInv, ListSet
    <3>3. \A k \in Servers :
            IF writes'[k] = <<>> THEN memory'[k].at <= storedList'.at
            ELSE \E p \in Pending(writes'[k]) : memory'[k].at <= p.at
      BY <1>1, <2>2, <3>1 DEF OrderInv
    <3>4. \A k, j \in Servers : k # j => \A p \in Pending(writes'[j]) : memory'[k].at <= p.at
      BY <1>1, <2>2, <3>1 DEF OrderInv
    <3>5. /\ usage'.at \in {"row", "select"} => usage'.local.at <= storedList'.at
          /\ usage'.kind = "use" /\ usage'.at = "apply" => usage'.from >= storedList'.at
      BY <1>1, <3>1 DEF OrderInv
    <3> QED
      BY <3>2, <3>3, <3>4, <3>5 DEF OrderInv
  <2> QED
    BY <1>1, <1>3, <2>3, <2>4, <2>5 DEF CacheInv
<1>5. CASE PanelAnswers(h)
  <2> DEFINE new == Hydrated(memory[h], panel[h].local, panel[h].row)
  <2>1. /\ panel[h].at = "hydrate" /\ memory' = [memory EXCEPT ![h] = new]
        /\ panel' = [panel EXCEPT ![h] = NoPanel]
    BY <1>5 DEF PanelAnswers
  <2>2. /\ memory[h] \in ListSet /\ ~memory[h].deleted
        /\ panel[h].local \in ListSet /\ panel[h].row \in ListSet
    BY <1>1 DEF CacheInv, ListsInv, PanelSet
  <2>3. /\ new \in ListSet /\ ~new.deleted
        /\ new = memory[h] \/ new.at = 0 \/ new = panel[h].row
    BY <2>2, HydratedIs
  <2> HIDE DEF new
  <2>4. \/ new = memory[h]
        \/ new.at = 0
        \/ Surpassed(new, Limit, writes) /\ (lost \/ new.at <= storedList.at)
    BY <2>1, <2>3 DEF CacheInv, ListsInv, OrderInv
  <2>5. NoPanel \in PanelSet /\ NoPanel.at = "idle"
    BY DEF NoPanel, NoRecord, PanelSet, ListSet
  <2>6. /\ panel' \in [Servers -> PanelSet]
        /\ \A k \in Servers : panel'[k].at = "hydrate" => panel[k].at = "hydrate" /\ panel'[k].row = panel[k].row
    BY <1>1, <2>1, <2>5
  <2>7. CacheTypes'
    BY <1>1, <2>1, <2>3, <2>6 DEF CacheInv, CacheTypes
  <2>8. /\ usage'.at # "select" \/ usage'.row = storedList
        /\ usage'.kind = "use" /\ usage'.at = "apply" => lost \/ usage'.from >= storedList.at
    BY <1>1 DEF CacheInv, ListsInv, OrderInv
  <2> QED
    BY <1>1, <1>2, <1>3, <2>1, <2>3, <2>4, <2>6, <2>7, <2>8, HydrateKeeps
<1> QED
  BY <1>4, <1>5

\* An instance that stops forgets its list, its writes and, perhaps, the lock.
LEMMA RebootKeeps ==
  ASSUME CacheInv, NEW h \in Servers, Reboot(h)
  PROVE  CacheInv'
<1>1. NoRecord \in ListSet /\ NoRecord.at = 0 /\ ~NoRecord.deleted
  BY DEF NoRecord, ListSet
<1>2. NoUsage \in UsageSet /\ NoUsage.kind = "none" /\ NoUsage.at = "idle" /\ NoUsage.since = 0
  BY <1>1 DEF NoUsage, UsageSet
<1>3. NoPanel \in PanelSet /\ NoPanel.at = "idle"
  BY <1>1 DEF NoPanel, PanelSet
<1>4. /\ memory' \in [Servers -> ListSet] /\ memory'[h] = NoRecord
      /\ writes' \in [Servers -> Seq(ListSet)] /\ writes'[h] = <<>>
      /\ panel' \in [Servers -> PanelSet] /\ panel'[h] = NoPanel
      /\ \A k \in Servers \ {h} :
           memory'[k] = memory[k] /\ writes'[k] = writes[k] /\ panel'[k] = panel[k]
      /\ usage' = IF usage.host = h THEN NoUsage ELSE usage
      /\ UNCHANGED <<available, storedList, lost, now>>
  BY <1>1, <1>3 DEF Reboot, CacheInv, CacheTypes
<1>5. CacheTypes'
  BY <1>2, <1>4 DEF CacheInv, CacheTypes
<1>6. UsageInv'
  BY <1>2, <1>4 DEF CacheInv, CacheTypes, UsageInv
<1>7. /\ Limit \in Nat /\ Limit' \in Nat /\ Limit <= Limit'
      /\ storedList \in ListSet
      /\ \A k \in Servers : memory[k] \in ListSet /\ panel[k].row \in ListSet
  BY <1>2, <1>4 DEF CacheInv, CacheTypes, UsageInv, UsageSet, Limit, PanelSet
<1>8. \A k \in Servers : \A p \in Pending(writes'[k]) : k # h /\ p \in Pending(writes[k]) /\ p \in ListSet
  BY <1>4, PendingNone, PendingIsTyped DEF CacheInv, CacheTypes
<1>9. \A x \in ListSet : Surpassed(x, Limit, writes) => Surpassed(x, Limit', writes')
  BY <1>7, <1>8 DEF Surpassed, ListSet
<1>10. \A k \in Servers : InOrder(writes'[k])
  BY <1>4, PendingNone DEF CacheInv, ListsInv
<1>11. \A k \in Servers : \A p \in Pending(writes'[k]) :
         IF p.deleted THEN usage'.kind = "drop" ELSE p.at <= Limit'
  <2> SUFFICES ASSUME NEW k \in Servers, NEW p \in Pending(writes'[k])
               PROVE  IF p.deleted THEN usage'.kind = "drop" ELSE p.at <= Limit'
    OBVIOUS
  <2>1. k # h /\ writes[k] # <<>> /\ p \in Pending(writes[k]) /\ p \in ListSet
    BY <1>8, PendingNone
  <2>2. usage.host = k
    BY <2>1 DEF CacheInv, UsageInv
  <2> QED
    BY <1>4, <1>7, <2>1, <2>2 DEF CacheInv, ListsInv, ListSet
<1>12. ListsInv'
  <2>1. \A k \in Servers : ~memory'[k].deleted /\ memory'[k].at <= Limit'
    <3>1. ~memory'[h].deleted /\ memory'[h].at <= Limit'
      BY <1>1, <1>4, <1>7
    <3>2. ASSUME NEW k \in Servers \ {h} PROVE ~memory'[k].deleted /\ memory'[k].at <= Limit'
      <4>1. ~memory[k].deleted /\ memory[k].at <= Limit /\ memory[k].at \in Nat
        BY <1>7 DEF CacheInv, ListsInv, ListSet
      <4> QED
        BY <1>4, <1>7, <4>1
    <3> QED
      BY <3>1, <3>2
  <2>2. \A k \in Servers : panel'[k].at = "hydrate" => Surpassed(panel'[k].row, Limit', writes')
    BY <1>3, <1>4, <1>7, <1>9 DEF CacheInv, ListsInv
  <2>3. Surpassed(storedList', Limit', writes')
    BY <1>4, <1>7, <1>9 DEF CacheInv, ListsInv
  <2>4. usage'.at = "select" => usage'.row = storedList'
    BY <1>2, <1>4 DEF CacheInv, ListsInv
  <2> QED
    BY <1>10, <1>11, <2>1, <2>2, <2>3, <2>4 DEF ListsInv
<1>13. ASSUME ~lost PROVE OrderInv'
  <2>1. OrderInv
    BY <1>13 DEF CacheInv
  <2>2. \A k \in Servers : panel'[k].at = "hydrate" /\ ~panel'[k].row.deleted
                             => panel'[k].row.at <= storedList'.at
    BY <1>3, <1>4, <2>1 DEF OrderInv
  <2>3. \A k \in Servers :
          IF writes'[k] = <<>> THEN memory'[k].at <= storedList'.at
          ELSE \E p \in Pending(writes'[k]) : memory'[k].at <= p.at
    BY <1>1, <1>4, <1>7, <2>1 DEF OrderInv, ListSet
  <2>4. \A k, j \in Servers : k # j => \A p \in Pending(writes'[j]) : memory'[k].at <= p.at
    <3> SUFFICES ASSUME NEW k \in Servers, NEW j \in Servers, k # j, NEW p \in Pending(writes'[j])
                 PROVE  memory'[k].at <= p.at
      OBVIOUS
    <3>1. p \in Pending(writes[j]) /\ p.at \in Nat
      BY <1>8 DEF ListSet
    <3>2. CASE k = h
      BY <1>1, <1>4, <3>1, <3>2
    <3>3. CASE k # h
      BY <1>4, <2>1, <3>1, <3>3 DEF OrderInv
    <3> QED
      BY <3>2, <3>3
  <2>5. /\ usage'.at \in {"row", "select"} => usage'.local.at <= storedList'.at
        /\ usage'.kind = "use" /\ usage'.at = "apply" => usage'.from >= storedList'.at
    BY <1>2, <1>4, <2>1 DEF OrderInv
  <2> QED
    BY <2>2, <2>3, <2>4, <2>5 DEF OrderInv
<1> QED
  BY <1>4, <1>5, <1>6, <1>12, <1>13 DEF CacheInv

LEMMA TickKeeps ==
  ASSUME CacheInv, Tick
  PROVE  CacheInv'
<1>1. /\ now' = now + 1 /\ now \in Nat
      /\ UNCHANGED <<available, memory, storedList, writes, usage, panel, lost>>
  BY DEF Tick, CacheInv, CacheTypes
<1>2. CacheTypes'
  BY <1>1 DEF CacheInv, CacheTypes
<1>3. UsageInv'
  BY <1>1 DEF CacheInv, CacheTypes, UsageInv, UsageSet
<1>4. Limit \in Nat /\ Limit' \in Nat /\ Limit <= Limit'
  BY <1>1 DEF CacheInv, CacheTypes, UsageSet, Limit
<1>5. /\ storedList \in ListSet
      /\ \A k \in Servers : memory[k] \in ListSet /\ panel[k].row \in ListSet
  BY DEF CacheInv, CacheTypes, PanelSet
<1>6. \A k \in Servers : \A p \in Pending(writes[k]) : p \in ListSet
  BY PendingIsTyped DEF CacheInv, CacheTypes
<1>7. ListsInv'
  BY <1>1, <1>4, <1>5, <1>6 DEF CacheInv, ListsInv, Surpassed, ListSet
<1>8. ~lost => OrderInv'
  BY <1>1 DEF CacheInv, OrderInv
<1> QED
  BY <1>1, <1>2, <1>3, <1>7, <1>8 DEF CacheInv

LEMMA NextCacheInv == CacheInv /\ [CacheNext]_cacheVars => CacheInv'
<1> SUFFICES ASSUME CacheInv, [CacheNext]_cacheVars PROVE CacheInv'
  OBVIOUS
<1>1. CASE UNCHANGED cacheVars
  BY <1>1 DEF cacheVars, CacheInv, CacheTypes, UsageInv, ListsInv, OrderInv, Limit
<1>2. CASE CacheNext
  BY <1>2, WriteKeeps, RebootKeeps, LockKeeps, DropKeeps, PanelKeeps, UseReadsKeep, SelectKeeps,
     FetchKeeps, ApplyKeeps, LatestKeeps, UnlockKeeps, TickKeeps
  DEF CacheNext
<1> QED
  BY <1>1, <1>2

\* As long as no write was lost, whoever uses a reward selects it from a list
\* at least as new as the row, whatever the other instances fetch, use up and
\* drop, and whenever the instances stop.
THEOREM NewestIsUsed == CacheInit /\ [][CacheNext]_cacheVars => []SelectsFromNewest
<1>1. CacheInv => SelectsFromNewest
  BY DEF CacheInv, OrderInv, SelectsFromNewest
<1> QED
  BY <1>1, InitCacheInv, NextCacheInv, PTL

-----------------------------------------------------------------------------
(* Subscriptions: every set of rows that a refresh works on holds all or   *)
(* none of the rows of each answer.                                        *)

RowsIn(answers, k) == {[fetch |-> k, uri |-> u] : u \in answers[k]}

Whole(answers, rows) ==
  /\ \A row \in rows : row.fetch \in DOMAIN answers
  /\ \A k \in DOMAIN answers : RowsIn(answers, k) \cap rows \in {{}, RowsIn(answers, k)}

RowSet == [fetch : Nat, uri : Uris]

RefreshSet ==
  [at : {"idle", "fetching", "begin", "delete", "insert"}, fetch : Nat,
   seen : SUBSET RowSet, doomed : SUBSET RowSet, staged : SUBSET RowSet]

SubsTypeOK ==
  /\ content \in Seq(SUBSET Uris)
  /\ refresh \in [Refreshers -> RefreshSet]
  /\ listed \in SUBSET RowSet

RefreshOK(answers, f) ==
  /\ Whole(answers, f.seen)
  /\ Whole(answers, f.doomed)
  /\ f.at \in {"begin", "delete", "insert"} => f.fetch \in DOMAIN answers

SubsInv ==
  /\ SubsTypeOK
  /\ Whole(content, listed)
  /\ \A r \in Refreshers : RefreshOK(content, refresh[r])

LEMMA WholeNone == \A answers : Whole(answers, {})
BY DEF Whole

\* What a DELETE finds of the rows that it saw.
LEMMA WholeCap ==
  ASSUME NEW answers, NEW A, NEW B, Whole(answers, A), Whole(answers, B)
  PROVE  Whole(answers, A \cap B)
BY DEF Whole

\* Rows replaced by those of one answer.
LEMMA WholeReplace ==
  ASSUME NEW answers, NEW A, NEW B, NEW k \in DOMAIN answers, Whole(answers, A), Whole(answers, B)
  PROVE  Whole(answers, (A \ B) \cup RowsIn(answers, k))
<1> DEFINE rows(j) == RowsIn(answers, j)
<1>1. \A row \in rows(k) : row.fetch = k
  BY DEF RowsIn
<1>3. ASSUME NEW j \in DOMAIN answers
      PROVE  rows(j) \cap ((A \ B) \cup rows(k)) \in {{}, rows(j)}
  <2>1. CASE j = k
    BY <2>1
  <2>2. CASE j # k
    <3>1. rows(j) \cap rows(k) = {}
      BY <1>1, <2>2 DEF RowsIn
    <3>2. rows(j) \cap A \in {{}, rows(j)} /\ rows(j) \cap B \in {{}, rows(j)}
      BY DEF Whole
    <3> QED
      BY <3>1, <3>2
  <2> QED
    BY <2>1, <2>2
<1>4. \A row \in (A \ B) \cup rows(k) : row.fetch \in DOMAIN answers
  BY <1>1 DEF Whole
<1> QED
  BY <1>3, <1>4 DEF Whole

\* A further answer of the server.
LEMMA WholeAppend ==
  ASSUME NEW answers \in Seq(SUBSET Uris), NEW rows, Whole(answers, rows), NEW uris
  PROVE  Whole(Append(answers, uris), rows)
<1> DEFINE more == Append(answers, uris)
<1>1. /\ Len(answers) \in Nat /\ DOMAIN answers = 1..Len(answers)
      /\ DOMAIN more = 1..(Len(answers) + 1)
      /\ \A k \in DOMAIN answers : more[k] = answers[k]
  OBVIOUS
<1> HIDE DEF more
<1>2. ASSUME NEW k \in DOMAIN more
      PROVE  RowsIn(more, k) \cap rows \in {{}, RowsIn(more, k)}
  <2>1. CASE k \in DOMAIN answers
    BY <1>1, <2>1 DEF RowsIn, Whole
  <2>2. CASE k \notin DOMAIN answers
    BY <2>2 DEF RowsIn, Whole
  <2> QED
    BY <2>1, <2>2
<1>3. \A row \in rows : row.fetch \in DOMAIN more
  BY <1>1 DEF Whole
<1> QED
  BY <1>2, <1>3 DEF Whole, more

LEMMA RowsTyped ==
  ASSUME SubsTypeOK, NEW k \in DOMAIN content
  PROVE  /\ RowsOf(k) = RowsIn(content, k)
         /\ RowsOf(k) \subseteq RowSet
BY LenProperties DEF SubsTypeOK, RowsOf, RowsIn, RowSet

LEMMA InitSubsInv == SubsInit => SubsInv
<1> SUFFICES ASSUME SubsInit PROVE SubsInv
  OBVIOUS
<1>1. SubsTypeOK
  BY DEF SubsInit, SubsTypeOK, NoRefresh, RefreshSet
<1> QED
  BY <1>1, WholeNone DEF SubsInit, SubsInv, NoRefresh, RefreshOK

\* One refresh moves on, over the same answers or a further one.
LEMMA RefreshMoves ==
  ASSUME SubsInv, NEW r \in Refreshers, NEW next \in RefreshSet,
         refresh' = [refresh EXCEPT ![r] = next],
         content' \in Seq(SUBSET Uris), DOMAIN content \subseteq DOMAIN content',
         \A rows : Whole(content, rows) => Whole(content', rows),
         RefreshOK(content', next),
         listed' \in SUBSET RowSet, Whole(content', listed')
  PROVE  SubsInv'
<1>1. \A q \in Refreshers : refresh'[q] = IF q = r THEN next ELSE refresh[q]
  BY DEF SubsInv, SubsTypeOK
<1>2. SubsTypeOK'
  BY DEF SubsInv, SubsTypeOK
<1>3. \A q \in Refreshers : RefreshOK(content', refresh'[q])
  BY <1>1 DEF SubsInv, RefreshOK
<1> QED
  BY <1>2, <1>3 DEF SubsInv

LEMMA NextSubsInv == SubsInv /\ [SubsNext]_subsVars => SubsInv'
<1> SUFFICES ASSUME SubsInv, [SubsNext]_subsVars PROVE SubsInv'
  OBVIOUS
<1>a. /\ content \in Seq(SUBSET Uris) /\ listed \in SUBSET RowSet /\ Whole(content, listed)
      /\ \A q \in Refreshers : refresh[q] \in RefreshSet /\ RefreshOK(content, refresh[q])
  BY DEF SubsInv, SubsTypeOK
<1>b. NoRefresh \in RefreshSet /\ \A answers : RefreshOK(answers, NoRefresh)
  BY WholeNone DEF NoRefresh, RefreshSet, RefreshOK
<1>1. ASSUME NEW r \in Refreshers, Fetch(r) PROVE SubsInv'
  <2> DEFINE next == [refresh[r] EXCEPT !.at = "fetching"]
  <2>1. next \in RefreshSet /\ RefreshOK(content, next)
    BY <1>a DEF RefreshSet, RefreshOK
  <2>2. refresh' = [refresh EXCEPT ![r] = next] /\ UNCHANGED <<content, listed>>
    BY <1>1 DEF Fetch
  <2> QED
    BY <1>a, <2>1, <2>2, RefreshMoves
<1>2. ASSUME NEW r \in Refreshers, Fetched(r) PROVE SubsInv'
  <2>1. CASE refresh' = [refresh EXCEPT ![r] = NoRefresh] /\ UNCHANGED <<content, listed>>
    BY <1>a, <1>b, <2>1, RefreshMoves
  <2>2. ASSUME NEW uris \in SUBSET Uris, content' = Append(content, uris), listed' = listed,
               refresh' = [refresh EXCEPT ![r].at = "begin", ![r].fetch = Len(content) + 1]
        PROVE  SubsInv'
    <3> DEFINE next == [refresh[r] EXCEPT !.at = "begin", !.fetch = Len(content) + 1]
    <3>1. /\ Len(content) \in Nat /\ DOMAIN content = 1..Len(content)
          /\ content' \in Seq(SUBSET Uris) /\ DOMAIN content' = 1..(Len(content) + 1)
      BY <1>a, <2>2
    <3>2. \A rows : Whole(content, rows) => Whole(content', rows)
      BY <1>a, <2>2, WholeAppend
    <3>3. next \in RefreshSet /\ RefreshOK(content', next)
      <4>1. next \in RefreshSet
        <5>1. refresh[r] \in RefreshSet /\ Len(content) + 1 \in Nat
          BY <1>a, <3>1
        <5> QED
          BY <5>1 DEF RefreshSet
      <4>2. next.fetch \in DOMAIN content'
        BY <1>a, <3>1 DEF RefreshSet
      <4>3. next.seen = refresh[r].seen /\ next.doomed = refresh[r].doomed
        BY <1>a DEF RefreshSet
      <4> QED
        BY <1>a, <3>2, <4>1, <4>2, <4>3 DEF RefreshOK
    <3>4. refresh' = [refresh EXCEPT ![r] = next]
      BY <2>2
    <3>5. Whole(content', listed') /\ DOMAIN content \subseteq DOMAIN content'
      BY <1>a, <2>2, <3>1, <3>2
    <3> QED
      BY <1>a, <2>2, <3>1, <3>2, <3>3, <3>4, <3>5, RefreshMoves
  <2> QED
    BY <1>2, <2>1, <2>2 DEF Fetched
<1>3. ASSUME NEW r \in Refreshers, DeleteStarts(r) PROVE SubsInv'
  <2> DEFINE next == [refresh[r] EXCEPT !.at = "delete", !.seen = listed]
  <2>1. next \in RefreshSet /\ RefreshOK(content, next)
    BY <1>3, <1>a DEF DeleteStarts, RefreshSet, RefreshOK
  <2>2. refresh' = [refresh EXCEPT ![r] = next] /\ UNCHANGED <<content, listed>>
    BY <1>3 DEF DeleteStarts
  <2> QED
    BY <1>a, <2>1, <2>2, RefreshMoves
<1>4. ASSUME NEW r \in Refreshers, DeleteEnds(r) PROVE SubsInv'
  <2> DEFINE next == [refresh[r] EXCEPT !.at = "insert", !.doomed = refresh[r].seen \cap listed]
  <2>1. Whole(content, refresh[r].seen \cap listed)
    BY <1>a, WholeCap DEF RefreshOK
  <2>2. next \in RefreshSet /\ RefreshOK(content, next)
    BY <1>4, <1>a, <2>1 DEF DeleteEnds, RefreshSet, RefreshOK
  <2>3. refresh' = [refresh EXCEPT ![r] = next] /\ UNCHANGED <<content, listed>>
    BY <1>4 DEF DeleteEnds
  <2> QED
    BY <1>a, <2>2, <2>3, RefreshMoves
<1>5. ASSUME NEW r \in Refreshers, Insert(r) PROVE SubsInv'
  <2>1. PICK row \in RowsOf(refresh[r].fetch) :
          refresh' = [refresh EXCEPT ![r].staged = @ \cup {row}]
    BY <1>5 DEF Insert
  <2> DEFINE next == [refresh[r] EXCEPT !.staged = @ \cup {row}]
  <2>2. row \in RowSet
    BY <1>5, <1>a, <2>1, RowsTyped DEF Insert, SubsInv, RefreshOK
  <2>3. next \in RefreshSet /\ RefreshOK(content, next)
    BY <1>a, <2>2 DEF RefreshSet, RefreshOK
  <2>4. refresh' = [refresh EXCEPT ![r] = next] /\ UNCHANGED <<content, listed>>
    BY <1>5, <2>1 DEF Insert
  <2> QED
    BY <1>a, <2>3, <2>4, RefreshMoves
<1>6. ASSUME NEW r \in Refreshers, Commit(r) PROVE SubsInv'
  <2>1. refresh[r].fetch \in DOMAIN content /\ Whole(content, refresh[r].doomed)
    BY <1>6, <1>a DEF Commit, RefreshOK
  <2>2. Whole(content, (listed \ refresh[r].doomed) \cup RowsIn(content, refresh[r].fetch))
    BY <1>a, <2>1, WholeReplace
  <2>3. Whole(content, listed') /\ listed' \in SUBSET RowSet
    BY <1>6, <1>a, <2>1, <2>2, RowsTyped DEF Commit, SubsInv
  <2>4. refresh' = [refresh EXCEPT ![r] = NoRefresh] /\ UNCHANGED content
    BY <1>6 DEF Commit
  <2> QED
    BY <1>a, <1>b, <2>3, <2>4, RefreshMoves
<1>7. ASSUME NEW r \in Refreshers, Rollback(r) PROVE SubsInv'
  BY <1>7, <1>a, <1>b, RefreshMoves DEF Rollback
<1>8. CASE Unsubscribe
  BY <1>8, WholeNone DEF Unsubscribe, SubsInv, SubsTypeOK
<1>9. CASE UNCHANGED <<content, listed, refresh>>
  BY <1>9 DEF SubsInv, SubsTypeOK
<1> QED
  BY <1>1, <1>2, <1>3, <1>4, <1>5, <1>6, <1>7, <1>8, <1>9
  DEF SubsNext, ImportReads, ImportCompares, ImportInserts, subsVars

\* Of every answer of the server the list of nodes shows all or nothing,
\* however many refreshes overlap, fail half-way or lose the subscription.
THEOREM ListStaysWhole == SubsInit /\ [][SubsNext]_subsVars => []ListIsWhole
<1>1. SubsInv => ListIsWhole
  BY DEF SubsInv, Whole, RowsIn, ListIsWhole, RowsOf
<1> QED
  BY <1>1, InitSubsInv, NextSubsInv, PTL

-----------------------------------------------------------------------------
(* WorkspacePages: whoever asks for modules has a page, and so a build.     *)

LoadStages == {"idle", "page", "auth", "modules", "info", "error", "expired", "thrown"}

LoadSet == [at : LoadStages, stored : BOOLEAN, attempt : Nat, page : Nat]

\* The searches that a loaded page has begun.
Searching == {c \in Lookups : load[c[1]].page # None}

ObjectSet(searches) ==
  [build : Nat \ {None}, modules : Nat, refreshing : BOOLEAN, waiting : Seq(searches),
   refreshed : BOOLEAN]

PagesInv ==
  /\ build \in Nat \ {None}
  /\ load \in [Loads -> LoadSet]
  /\ objects \in Seq(ObjectSet(Searching))
  /\ ready \in Seq(Searching)

LEMMA SeqMonotone ==
  ASSUME NEW S, NEW T, S \subseteq T
  PROVE  Seq(S) \subseteq Seq(T)
<1>1. ASSUME NEW s \in Seq(S) PROVE s \in Seq(T)
  <2>1. Len(s) \in Nat /\ s \in [1..Len(s) -> S]
    BY LenProperties, ElementOfSeq
  <2>2. s \in [1..Len(s) -> T]
    BY <2>1
  <2> QED
    BY <2>1, <2>2, IsASeq
<1> QED
  BY <1>1

\* More searches: the objects and the queue are as they were.
LEMMA SearchesGrow ==
  ASSUME NEW S, NEW T, S \subseteq T
  PROVE  Seq(S) \subseteq Seq(T) /\ Seq(ObjectSet(S)) \subseteq Seq(ObjectSet(T))
<1>1. Seq(S) \subseteq Seq(T)
  BY SeqMonotone
<1>2. ObjectSet(S) \subseteq ObjectSet(T)
  BY <1>1 DEF ObjectSet
<1> QED
  BY <1>1, <1>2, SeqMonotone

\* A load moves on and keeps its page, and so do the searches.
LEMMA LoadMoves ==
  ASSUME PagesInv, NEW l \in Loads, NEW next \in LoadSet, load' = [load EXCEPT ![l] = next],
         next.page = load[l].page \/ next.page \in Nat \ {None}
  PROVE  load' \in [Loads -> LoadSet] /\ Searching \subseteq Searching'
<1>1. load' \in [Loads -> LoadSet]
  BY DEF PagesInv
<1>2. \A k \in Loads : load'[k] = IF k = l THEN next ELSE load[k]
  BY DEF PagesInv
<1>3. ASSUME NEW c \in Lookups, load[c[1]].page # None PROVE load'[c[1]].page # None
  <2>1. c[1] \in Loads
    BY DEF Lookups
  <2> QED
    BY <1>2, <1>3, <2>1
<1> QED
  BY <1>1, <1>3 DEF Searching

LEMMA InitPagesInv == PagesInit => PagesInv
<1> SUFFICES ASSUME PagesInit PROVE PagesInv
  OBVIOUS
<1>1. ASSUME NEW l \in Loads
      PROVE  [at |-> "idle", stored |-> l \in Stored, attempt |-> 0, page |-> None] \in LoadSet
  <2>1. (l \in Stored) \in BOOLEAN /\ "idle" \in LoadStages /\ 0 \in Nat /\ None \in Nat
    BY DEF None, LoadStages
  <2> QED
    BY <2>1, Zenon DEF LoadSet
<1>2. load \in [Loads -> LoadSet]
  BY <1>1 DEF PagesInit
<1> QED
  BY <1>2 DEF PagesInit, PagesInv, None

\* A step of one load that leaves modules and queue alone.
LEMMA QuietLoad ==
  ASSUME PagesInv, NEW l \in Loads, NEW next \in LoadSet, load' = [load EXCEPT ![l] = next],
         next.page = load[l].page, UNCHANGED <<build, objects, ready>>
  PROVE  PagesInv'
<1>1. load' \in [Loads -> LoadSet] /\ Searching \subseteq Searching'
  BY LoadMoves
<1>2. objects' \in Seq(ObjectSet(Searching')) /\ ready' \in Seq(Searching')
  BY <1>1, SearchesGrow DEF PagesInv
<1> QED
  BY <1>1, <1>2 DEF PagesInv

LEMMA StageStep ==
  ASSUME PagesInv, NEW l \in Loads, UNCHANGED <<build, objects, ready>>,
         \E stage \in {"page", "auth", "error", "expired"} : LoadGoes(l, stage)
  PROVE  PagesInv'
<1>1. PICK stage \in {"page", "auth", "error", "expired"} :
        load' = [load EXCEPT ![l] = [load[l] EXCEPT !.at = stage]]
  BY DEF LoadGoes
<1>2. "page" \in LoadStages /\ "auth" \in LoadStages /\ "error" \in LoadStages /\ "expired" \in LoadStages
  BY DEF LoadStages
<1>3. stage \in LoadStages
  BY <1>2
<1> DEFINE next == [load[l] EXCEPT !.at = stage]
<1>4. next \in LoadSet /\ next.page = load[l].page
  BY <1>3 DEF PagesInv, LoadSet
<1> HIDE DEF next
<1>5. load' = [load EXCEPT ![l] = next]
  BY <1>1 DEF next
<1> QED
  BY <1>4, <1>5, QuietLoad

\* A page is there, and the searches that it wants.
LEMMA PageArrives ==
  ASSUME PagesInv, NEW l \in Loads, PageLoads(l)
  PROVE  PagesInv' /\ UNCHANGED objects
<1>1. PICK calls \in {<<>>, <<"referral">>, <<"billing">>, <<"referral", "billing">>} :
        /\ load' = [load EXCEPT ![l].page = build,
                                ![l].at = IF {calls[i] : i \in DOMAIN calls} = {}
                                          THEN "info" ELSE "modules"]
        /\ ready' = [i \in DOMAIN calls |-> <<l, calls[i]>>]
        /\ UNCHANGED <<build, objects>>
  BY DEF PageLoads
<1> DEFINE next == [load[l] EXCEPT !.page = build,
                                   !.at = IF {calls[i] : i \in DOMAIN calls} = {}
                                          THEN "info" ELSE "modules"]
<1>2. load[l] \in LoadSet /\ build \in Nat \ {None}
  BY DEF PagesInv
<1>3. next \in LoadSet /\ next.page = build
  <2>1. "info" \in LoadStages /\ "modules" \in LoadStages
    BY DEF LoadStages
  <2> QED
    BY <1>2, <2>1 DEF LoadSet
<1>4. load' = [load EXCEPT ![l] = next]
  BY <1>1
<1> HIDE DEF next
<1>5. load' \in [Loads -> LoadSet] /\ Searching \subseteq Searching'
  BY <1>2, <1>3, <1>4, LoadMoves
<1>6. load'[l] = next
  BY <1>4 DEF PagesInv
<1>7. \A a \in {"referral", "billing"} : <<l, a>> \in Searching'
  BY <1>2, <1>3, <1>6 DEF Searching, Lookups
<1>8. ready' \in Seq(Searching')
  <2>1. /\ <<>> \in Seq({"referral", "billing"})
        /\ <<"referral">> \in Seq({"referral", "billing"})
        /\ <<"billing">> \in Seq({"referral", "billing"})
        /\ <<"referral", "billing">> \in Seq({"referral", "billing"})
    OBVIOUS
  <2>4. calls \in Seq({"referral", "billing"})
    BY <1>1, <2>1
  <2>2. Len(calls) \in Nat /\ DOMAIN calls = 1..Len(calls)
    BY <2>4, LenProperties
  <2>5. \A i \in DOMAIN calls : calls[i] \in {"referral", "billing"}
    BY <2>2, <2>4, ElementOfSeq
  <2>6. ready' = [i \in 1..Len(calls) |-> <<l, calls[i]>>]
    BY <1>1, <2>2
  <2>3. ready' \in [1..Len(calls) -> Searching']
    BY <1>7, <2>2, <2>5, <2>6
  <2> QED
    BY <2>2, <2>3, IsASeq
<1>9. objects' \in Seq(ObjectSet(Searching'))
  BY <1>1, <1>5, SearchesGrow DEF PagesInv
<1> QED
  BY <1>1, <1>2, <1>5, <1>8, <1>9 DEF PagesInv

\* A search that is answered: its load may go on.
LEMMA AnswerKeeps ==
  ASSUME PagesInv, NEW c \in Lookups, NEW modules, Answered(c, modules)
  PROVE  load' \in [Loads -> LoadSet] /\ Searching \subseteq Searching'
<1>1. c[1] \in Loads
  BY DEF Lookups
<1>2. CASE load' = load
  BY <1>2 DEF PagesInv, Searching
<1>3. CASE load' # load
  <2>0. "thrown" \in LoadStages /\ "info" \in LoadStages
    BY DEF LoadStages
  <2>1. PICK stage \in LoadStages : load' = [load EXCEPT ![c[1]].at = stage]
    <3> DEFINE gone(s) == load' = [load EXCEPT ![c[1]].at = s]
    <3>1. gone("thrown") \/ gone("info")
      BY <1>3 DEF Answered
    <3> HIDE DEF gone
    <3>2. \E s \in LoadStages : gone(s)
      BY <2>0, <3>1
    <3> QED
      BY <3>2 DEF gone
  <2> DEFINE next == [load[c[1]] EXCEPT !.at = stage]
  <2>2. load' = [load EXCEPT ![c[1]] = next]
    BY <2>1
  <2>3. next \in LoadSet /\ next.page = load[c[1]].page
    BY <1>1 DEF PagesInv, LoadSet
  <2> QED
    BY <1>1, <2>2, <2>3, LoadMoves
<1> QED
  BY <1>2, <1>3

\* One object changes.
LEMMA ObjectMoves ==
  ASSUME PagesInv, NEW o \in DOMAIN objects, NEW next \in ObjectSet(Searching),
         objects' = [objects EXCEPT ![o] = next]
  PROVE  objects' \in Seq(ObjectSet(Searching))
  BY DEF PagesInv

LEMMA EnterKeeps ==
  ASSUME PagesInv, NEW c \in Searching, Enter(c)
  PROVE  /\ load' \in [Loads -> LoadSet] /\ Searching \subseteq Searching'
         /\ objects' \in Seq(ObjectSet(Searching))
<1>1. c \in Lookups /\ c[1] \in Loads /\ load[c[1]].page \in Nat \ {None}
  BY DEF Searching, Lookups, PagesInv, LoadSet
<1>2. CASE Answered(c, objects[cache].modules) /\ UNCHANGED objects
  BY <1>1, <1>2, AnswerKeeps DEF PagesInv
<1>3. CASE /\ objects' = [objects EXCEPT ![cache].refreshing = TRUE,
                                         ![cache].waiting = Append(@, c)]
           /\ UNCHANGED load
  <2>1. load' \in [Loads -> LoadSet] /\ Searching \subseteq Searching'
    BY <1>3 DEF PagesInv, Searching
  <2>2. CASE cache \notin DOMAIN objects
    <3>1. objects' = objects
      BY <1>3, <2>2 DEF PagesInv
    <3> QED
      BY <2>1, <3>1 DEF PagesInv
  <2>3. CASE cache \in DOMAIN objects
    <3> DEFINE next == [objects[cache] EXCEPT !.refreshing = TRUE, !.waiting = Append(@, c)]
    <3>1. objects[cache] \in ObjectSet(Searching)
      BY <2>3 DEF PagesInv
    <3>2. Append(objects[cache].waiting, c) \in Seq(Searching)
      BY <3>1 DEF ObjectSet
    <3>3. next \in ObjectSet(Searching) /\ next.modules = objects[cache].modules
      BY <3>1, <3>2 DEF ObjectSet
    <3>4. objects' = [objects EXCEPT ![cache] = next]
      BY <1>3
    <3> QED
      BY <2>1, <2>3, <3>3, <3>4, ObjectMoves
  <2> QED
    BY <2>2, <2>3
<1>4. CASE /\ objects' = Append(objects, [build |-> load[c[1]].page, modules |-> None,
                                          refreshing |-> TRUE, waiting |-> <<c>>,
                                          refreshed |-> FALSE])
           /\ UNCHANGED load
  <2> DEFINE new == [build |-> load[c[1]].page, modules |-> None, refreshing |-> TRUE,
                     waiting |-> <<c>>, refreshed |-> FALSE]
  <2>1. new \in ObjectSet(Searching)
    BY <1>1 DEF ObjectSet, None
  <2>2. objects \in Seq(ObjectSet(Searching))
    BY DEF PagesInv
  <2> HIDE DEF new
  <2>3. /\ objects' \in Seq(ObjectSet(Searching))
        /\ \A o \in DOMAIN objects : objects'[o] = objects[o]
    BY <1>4, <2>1, <2>2 DEF new
  <2> QED
    BY <1>4, <2>3 DEF PagesInv, Searching
<1> QED
  BY <1>2, <1>3, <1>4 DEF Enter, Waits

LEMMA RunKeeps ==
  ASSUME PagesInv, Run
  PROVE  PagesInv'
<1> DEFINE c == Head(ready)
<1>1. c \in Searching /\ Tail(ready) \in Seq(Searching)
  BY HeadTailProperties DEF Run, PagesInv
<1>2. /\ load' \in [Loads -> LoadSet] /\ Searching \subseteq Searching'
      /\ objects' \in Seq(ObjectSet(Searching))
  <2>1. CASE Enter(c)
    BY <1>1, <2>1, EnterKeeps
  <2>2. CASE Resume(c)
    <3>1. UNCHANGED objects /\ \E modules : Answered(c, modules)
      BY <2>2 DEF Resume
    <3>2. c \in Lookups
      BY <1>1 DEF Searching
    <3> QED
      BY <3>1, <3>2, AnswerKeeps DEF PagesInv
  <2> QED
    BY <2>1, <2>2 DEF Run
<1>3. ready' \in Seq(Searching') /\ objects' \in Seq(ObjectSet(Searching'))
  BY <1>1, <1>2, SearchesGrow DEF Run
<1> QED
  BY <1>2, <1>3 DEF Run, PagesInv

\* A download ends.
LEMMA SettleKeeps ==
  ASSUME PagesInv, NEW o \in DOMAIN objects, ModulesSettle(o)
  PROVE  PagesInv'
<1>1. objects[o] \in ObjectSet(Searching)
  BY DEF PagesInv
<1>2. PICK fetched \in BOOLEAN :
        objects' = [objects EXCEPT ![o].refreshing = FALSE, ![o].waiting = <<>>,
                                   ![o].refreshed = fetched,
                                   ![o].modules = IF fetched THEN objects[o].build ELSE @]
  BY DEF ModulesSettle
<1> DEFINE next == [objects[o] EXCEPT !.refreshing = FALSE, !.waiting = <<>>, !.refreshed = fetched,
                                      !.modules = IF fetched THEN objects[o].build ELSE @]
<1>3. /\ next \in ObjectSet(Searching)
      /\ objects[o].modules # None => next.modules # None
  <2>1. objects[o].build \in Nat \ {None} /\ objects[o].modules \in Nat
    BY <1>1 DEF ObjectSet
  <2>2. (IF fetched THEN objects[o].build ELSE objects[o].modules) \in Nat
    BY <2>1
  <2>3. <<>> \in Seq(Searching)
    OBVIOUS
  <2>4. next \in ObjectSet(Searching)
    BY <1>1, <1>2, <2>2, <2>3 DEF ObjectSet
  <2>5. next.modules = IF fetched THEN objects[o].build ELSE objects[o].modules
    BY <1>1 DEF ObjectSet
  <2> QED
    BY <2>1, <2>4, <2>5
<1>4. objects' = [objects EXCEPT ![o] = next]
  BY <1>2
<1>5. objects' \in Seq(ObjectSet(Searching))
  BY <1>3, <1>4, ObjectMoves
<1>6. ready' \in Seq(Searching)
  BY <1>1 DEF ModulesSettle, ObjectSet
<1>7. UNCHANGED <<build, load>>
  BY DEF ModulesSettle
<1> QED
  BY <1>5, <1>6, <1>7 DEF PagesInv, Searching

LEMMA ScheduledKeeps ==
  ASSUME PagesInv, Scheduled
  PROVE  PagesInv'
<1>1. UNCHANGED <<build, load, ready>> /\ objects' = [objects EXCEPT ![cache].refreshing = TRUE]
  BY DEF Scheduled
<1>2. CASE cache \notin DOMAIN objects
  <2>1. objects' = objects
    BY <1>1, <1>2 DEF PagesInv
  <2> QED
    BY <1>1, <2>1 DEF PagesInv, Searching
<1>3. CASE cache \in DOMAIN objects
  <2> DEFINE next == [objects[cache] EXCEPT !.refreshing = TRUE]
  <2>1. objects[cache] \in ObjectSet(Searching)
    BY <1>3 DEF PagesInv
  <2>2. next \in ObjectSet(Searching) /\ next.modules = objects[cache].modules
    BY <2>1 DEF ObjectSet
  <2>3. objects' = [objects EXCEPT ![cache] = next]
    BY <1>1
  <2>4. objects' \in Seq(ObjectSet(Searching))
    BY <1>3, <2>2, <2>3, ObjectMoves
  <2> QED
    BY <1>1, <2>4 DEF PagesInv, Searching
<1> QED
  BY <1>2, <1>3

LEMMA NextPagesInv == PagesInv /\ [PagesNext]_pagesVars => PagesInv'
<1> SUFFICES ASSUME PagesInv, [PagesNext]_pagesVars PROVE PagesInv'
  OBVIOUS
<1>2. ASSUME NEW l \in Loads, LoadStarts(l) PROVE PagesInv'
  <2>1. UNCHANGED <<build, objects, ready>>
    BY <1>2 DEF LoadStarts
  <2>2. \E stage \in {"page", "auth"} : LoadGoes(l, stage)
    BY <1>2 DEF LoadStarts
  <2> QED
    BY <2>1, <2>2, StageStep
<1>3. ASSUME NEW l \in Loads, PageFails(l) PROVE PagesInv'
  <2>1. UNCHANGED <<build, objects, ready>>
    BY <1>3 DEF PageFails
  <2>2. CASE Again(l)
    <3>1. load[l].attempt + 1 \in Nat
      BY DEF PagesInv, LoadSet
    <3> DEFINE next == [load[l] EXCEPT !.attempt = load[l].attempt + 1]
    <3>2. load' = [load EXCEPT ![l] = next]
      BY <2>2 DEF Again
    <3>3. next \in LoadSet /\ next.page = load[l].page
      BY <3>1 DEF PagesInv, LoadSet
    <3> QED
      BY <2>1, <3>2, <3>3, QuietLoad
  <2>3. Again(l) \/ \E stage \in {"auth", "error"} : LoadGoes(l, stage)
    BY <1>3 DEF PageFails, Unavailable
  <2> QED
    BY <2>1, <2>2, <2>3, StageStep
<1>4. ASSUME NEW l \in Loads, PageWrong(l) \/ PageRejects(l) PROVE PagesInv'
  <2>1. UNCHANGED <<build, objects, ready>>
    BY <1>4 DEF PageWrong, PageRejects
  <2>2. \E stage \in {"auth", "error", "expired"} : LoadGoes(l, stage)
    BY <1>4 DEF PageWrong, PageRejects, Unavailable
  <2> QED
    BY <2>1, <2>2, StageStep
<1>5. ASSUME NEW l \in Loads, PageLoads(l) PROVE PagesInv'
  BY <1>5, PageArrives
<1>6. ASSUME NEW l \in Loads, Resolve(l) PROVE PagesInv'
  <2>1. UNCHANGED <<build, objects, ready>>
    BY <1>6 DEF Resolve
  <2>2. CASE Found(l)
    <3> DEFINE next == [load[l] EXCEPT !.at = "page", !.attempt = 0, !.stored = FALSE]
    <3>1. load' = [load EXCEPT ![l] = next]
      BY <2>2 DEF Found
    <3>2. "page" \in LoadStages
      BY DEF LoadStages
    <3>3. next \in LoadSet /\ next.page = load[l].page
      BY <3>2 DEF PagesInv, LoadSet
    <3> QED
      BY <2>1, <3>1, <3>3, QuietLoad
  <2>3. Found(l) \/ \E stage \in {"error", "expired"} : LoadGoes(l, stage)
    BY <1>6 DEF Resolve
  <2> QED
    BY <2>1, <2>2, <2>3, StageStep
<1>7. CASE Run
  BY <1>7, RunKeeps
<1>8. ASSUME NEW o \in DOMAIN objects, ModulesSettle(o) PROVE PagesInv'
  BY <1>8, SettleKeeps
<1>9. CASE Scheduled
  BY <1>9, ScheduledKeeps
<1>10. CASE Deploy
  BY <1>10 DEF Deploy, PagesInv, Searching, None
<1>11. ASSUME NEW l \in Loads, SessionEnds(l) PROVE PagesInv'
  BY <1>11 DEF SessionEnds, PagesInv, Searching
<1>12. CASE UNCHANGED pagesVars
  BY <1>12 DEF pagesVars, PagesInv, Searching
<1> QED
  BY <1>2, <1>3, <1>4, <1>5, <1>6, <1>7, <1>8, <1>9, <1>10, <1>11, <1>12
  DEF PagesNext, PageStep

\* One that looks for modules has its place in a queue.
Queued(c, queue) == \E i \in DOMAIN queue : queue[i] = c

LookupSet ==
  [at : {"idle", "enter", "await", "done"}, object : Nat, own : BOOLEAN, answer : Nat \cup {Thrown}]

\* A search that awaits the first download of the object it has made: it is
\* over, and the search about to learn so, before another could change it.
Owns(c) == lookup[c].at = "await" /\ lookup[c].own

OwnerWaits(c) ==
  /\ lookup[c].object \in DOMAIN objects
  /\ \/ /\ objects[lookup[c].object].modules = None
        /\ Queued(c, ready) \/ Queued(c, objects[lookup[c].object].waiting)
     \/ objects[lookup[c].object].refreshed /\ Queued(c, ready)

SearchInv ==
  /\ cache \in 0..Len(objects)
  /\ \A o \in DOMAIN objects : objects[o].modules \in {None, objects[o].build}
  /\ lookup \in [Lookups -> LookupSet]
  /\ \A c \in Lookups : Owns(c) => OwnerWaits(c)

\* What CacheKeepsModules says of a step.
NewBuildAsks ==
  \E c \in Lookups : /\ lookup[c].at = "enter" /\ lookup'[c].at = "await"
                     /\ load[c[1]].page # Offered

OfferKept == (Offered # None /\ Offered' # Offered) => NewBuildAsks

LEMMA QueueMoves ==
  ASSUME NEW S, NEW queue \in Seq(S), NEW c, Queued(c, queue)
  PROVE  /\ queue # <<>>
         /\ c # Head(queue) => Queued(c, Tail(queue))
         /\ \A d \in S : Queued(c, Append(queue, d))
<1>1. Len(queue) \in Nat /\ DOMAIN queue = 1..Len(queue)
  BY LenProperties
<1>2. PICK i \in 1..Len(queue) : queue[i] = c
  BY <1>1 DEF Queued
<1>3. queue # <<>>
  BY <1>1, <1>2
<1>4. ASSUME c # Head(queue) PROVE Queued(c, Tail(queue))
  <2>1. Head(queue) = queue[1]
    BY <1>3
  <2>2. i # 1 /\ i - 1 \in 1..(Len(queue) - 1)
    BY <1>1, <1>2, <1>4, <2>1
  <2>3. DOMAIN Tail(queue) = 1..(Len(queue) - 1) /\ Tail(queue)[i - 1] = queue[i]
    BY <1>1, <1>3, <2>2
  <2> QED
    BY <1>2, <2>2, <2>3 DEF Queued
<1>5. ASSUME NEW d \in S PROVE Queued(c, Append(queue, d))
  <2>1. DOMAIN Append(queue, d) = 1..(Len(queue) + 1) /\ Append(queue, d)[i] = queue[i]
    BY <1>1, <1>2
  <2>2. i \in 1..(Len(queue) + 1)
    BY <1>1, <1>2
  <2> QED
    BY <1>2, <2>1, <2>2 DEF Queued
<1> QED
  BY <1>3, <1>4, <1>5

LEMMA NothingQueued == \A c : ~Queued(c, <<>>)
  BY DEF Queued

LEMMA InitSearchInv == PagesInit => SearchInv
<1> SUFFICES ASSUME PagesInit PROVE SearchInv
  OBVIOUS
<1>1. [at |-> "idle", object |-> 0, own |-> FALSE, answer |-> None] \in LookupSet
  BY DEF LookupSet, None
<1>2. lookup \in [Lookups -> LookupSet] /\ \A c \in Lookups : lookup[c].at = "idle"
  BY <1>1 DEF PagesInit
<1>3. cache \in 0..Len(objects) /\ DOMAIN objects = {}
  BY DEF PagesInit
<1> QED
  BY <1>2, <1>3 DEF SearchInv, Owns

\* A search whose object and place in a queue are as they were.
LEMMA OwnerStays ==
  ASSUME SearchInv, NEW d \in Lookups, Owns(d), lookup'[d] = lookup[d],
         \A o \in DOMAIN objects :
            /\ o \in DOMAIN objects'
            /\ objects'[o].modules = objects[o].modules
            /\ objects'[o].refreshed = objects[o].refreshed
            /\ Queued(d, objects[o].waiting) => Queued(d, objects'[o].waiting),
         Queued(d, ready) => Queued(d, ready')
  PROVE  OwnerWaits(d)'
<1>1. OwnerWaits(d)
  BY DEF SearchInv
<1> QED
  BY <1>1 DEF OwnerWaits

\* Steps that do not look for modules.
LEMMA OthersKeepOffer ==
  ASSUME SearchInv, UNCHANGED <<lookup, objects, cache, ready>>
  PROVE  SearchInv' /\ OfferKept
<1>1. \A c \in Lookups : Owns(c)' => OwnerWaits(c)'
  BY DEF SearchInv, Owns, OwnerWaits
<1> QED
  BY <1>1 DEF SearchInv, OfferKept, Offered

\* A page that wants modules: nobody is in the queue then.
LEMMA PageKeepsOffer ==
  ASSUME SearchInv, NEW l \in Loads, PageLoads(l)
  PROVE  SearchInv' /\ OfferKept
<1>1. ready = <<>> /\ UNCHANGED <<objects, cache>>
  BY DEF PageLoads
<1>2. PICK wanted :
        lookup' = [c \in Lookups |-> IF c[1] = l /\ c[2] \in wanted
                                     THEN [lookup[c] EXCEPT !.at = "enter"] ELSE lookup[c]]
  BY DEF PageLoads
<1>3. ASSUME NEW c \in Lookups
      PROVE  lookup'[c] \in LookupSet /\ (Owns(c)' => Owns(c) /\ lookup'[c] = lookup[c])
  <2>1. lookup[c] \in LookupSet
    BY DEF SearchInv
  <2>2. [lookup[c] EXCEPT !.at = "enter"] \in LookupSet /\ [lookup[c] EXCEPT !.at = "enter"].at = "enter"
    BY <2>1 DEF LookupSet
  <2>3. lookup'[c] = lookup[c] \/ lookup'[c] = [lookup[c] EXCEPT !.at = "enter"]
    BY <1>2
  <2> QED
    BY <2>1, <2>2, <2>3 DEF Owns
<1>4. lookup' \in [Lookups -> LookupSet]
  BY <1>2, <1>3
<1>5. ASSUME NEW c \in Lookups, Owns(c)' PROVE OwnerWaits(c)'
  BY <1>1, <1>3, <1>5, OwnerStays, NothingQueued
<1> QED
  BY <1>1, <1>4, <1>5 DEF SearchInv, OfferKept, Offered

LEMMA WaitsIs ==
  ASSUME SearchInv, NEW c \in Lookups, NEW o \in Nat, NEW own \in BOOLEAN,
         lookup' = [lookup EXCEPT ![c].at = "await", ![c].object = o, ![c].own = own]
  PROVE  /\ lookup' \in [Lookups -> LookupSet]
         /\ lookup'[c].at = "await" /\ lookup'[c].object = o /\ lookup'[c].own = own
         /\ \A d \in Lookups : d # c => lookup'[d] = lookup[d]
<1> DEFINE next == [lookup[c] EXCEPT !.at = "await", !.object = o, !.own = own]
<1>1. lookup \in [Lookups -> LookupSet] /\ lookup[c] \in LookupSet
  BY DEF SearchInv
<1>2. lookup' = [lookup EXCEPT ![c] = next]
  OBVIOUS
<1>3. next \in LookupSet /\ next.at = "await" /\ next.object = o /\ next.own = own
  BY <1>1 DEF LookupSet
<1> HIDE DEF next
<1> QED
  BY <1>1, <1>2, <1>3

LEMMA AnswerEnds ==
  ASSUME SearchInv, NEW c \in Lookups, NEW modules \in Nat \cup {Thrown}, Answered(c, modules)
  PROVE  /\ lookup' \in [Lookups -> LookupSet]
         /\ lookup'[c].at = "done"
         /\ \A d \in Lookups : d # c => lookup'[d] = lookup[d]
<1> DEFINE next == [lookup[c] EXCEPT !.at = "done", !.answer = modules]
<1>1. lookup \in [Lookups -> LookupSet] /\ lookup[c] \in LookupSet
  BY DEF SearchInv
<1>2. lookup' = [lookup EXCEPT ![c] = next]
  BY DEF Answered
<1>3. next \in LookupSet /\ next.at = "done"
  BY <1>1 DEF LookupSet
<1> HIDE DEF next
<1> QED
  BY <1>1, <1>2, <1>3

\* Whoever is not at the head of the queue keeps its place.
LEMMA HeadLeaves ==
  ASSUME PagesInv, SearchInv, ready # <<>>, ready' = Tail(ready),
         NEW d \in Lookups, d # Head(ready), lookup'[d] = lookup[d], Owns(d)',
         \A o \in DOMAIN objects :
            /\ o \in DOMAIN objects'
            /\ objects'[o].modules = objects[o].modules
            /\ objects'[o].refreshed = objects[o].refreshed
            /\ Queued(d, objects[o].waiting) => Queued(d, objects'[o].waiting)
  PROVE  OwnerWaits(d)'
<1>1. Owns(d)
  BY DEF Owns
<1>2. ready \in Seq(Searching)
  BY DEF PagesInv
<1>3. Queued(d, ready) => Queued(d, ready')
  BY <1>2, QueueMoves
<1> QED
  BY <1>1, <1>3, OwnerStays

LEMMA HeadIsSearch ==
  ASSUME PagesInv, ready # <<>>
  PROVE  Head(ready) \in Searching /\ Head(ready) \in Lookups
<1>1. Head(ready) \in Searching
  BY HeadTailProperties DEF PagesInv
<1> QED
  BY <1>1 DEF Searching

\* A search that begins: only for a page of another build it makes an object.
LEMMA EnterKeepsOffer ==
  ASSUME PagesInv, SearchInv, ready # <<>>, Enter(Head(ready)), ready' = Tail(ready)
  PROVE  SearchInv' /\ OfferKept
<1> DEFINE c == Head(ready)
<1>1. c \in Searching /\ c \in Lookups /\ lookup[c].at = "enter"
  BY HeadIsSearch DEF Enter
<1>2. /\ objects \in Seq(ObjectSet(Searching)) /\ Len(objects) \in Nat
      /\ DOMAIN objects = 1..Len(objects)
      /\ cache \in 0..Len(objects)
      /\ \A o \in DOMAIN objects : objects[o].modules \in {None, objects[o].build}
  BY LenProperties DEF PagesInv, SearchInv
<1>3. \A o \in DOMAIN objects : objects[o] \in ObjectSet(Searching)
  BY <1>2
<1> HIDE DEF c
<1>4. CASE cache # 0 /\ Answered(c, objects[cache].modules) /\ UNCHANGED <<objects, cache>>
  <2>1. objects[cache].modules \in Nat \cup {Thrown}
    BY <1>2, <1>3, <1>4 DEF ObjectSet
  <2>2. /\ lookup' \in [Lookups -> LookupSet] /\ lookup'[c].at = "done"
        /\ \A d \in Lookups : d # c => lookup'[d] = lookup[d]
    BY <1>1, <1>4, <2>1, AnswerEnds
  <2>3. ASSUME NEW d \in Lookups, Owns(d)' PROVE OwnerWaits(d)'
    <3>1. d # c
      BY <2>2, <2>3 DEF Owns
    <3> QED
      BY <1>4, <2>2, <2>3, <3>1, HeadLeaves DEF c
  <2> QED
    BY <1>2, <1>4, <2>2, <2>3 DEF SearchInv, OfferKept, Offered
<1>5. CASE /\ cache # 0 /\ objects[cache].modules = None
           /\ objects' = [objects EXCEPT ![cache].refreshing = TRUE, ![cache].waiting = Append(@, c)]
           /\ Waits(c, cache, FALSE) /\ UNCHANGED cache
  <2> DEFINE next == [objects[cache] EXCEPT !.refreshing = TRUE, !.waiting = Append(@, c)]
  <2>1. cache \in DOMAIN objects /\ objects[cache] \in ObjectSet(Searching)
    BY <1>2, <1>3, <1>5
  <2>2. /\ next.modules = objects[cache].modules /\ next.build = objects[cache].build
        /\ next.refreshed = objects[cache].refreshed
        /\ next.waiting = Append(objects[cache].waiting, c)
        /\ objects[cache].waiting \in Seq(Searching)
    BY <2>1 DEF ObjectSet
  <2>3. objects' = [objects EXCEPT ![cache] = next]
    BY <1>5
  <2> HIDE DEF next
  <2>4. /\ DOMAIN objects' = DOMAIN objects /\ Len(objects') = Len(objects)
        /\ \A o \in DOMAIN objects : objects'[o] = IF o = cache THEN next ELSE objects[o]
    BY <1>2, <2>1, <2>3
  <2>5. \A d : Queued(d, objects[cache].waiting) => Queued(d, next.waiting)
    BY <1>1, <2>2, QueueMoves
  <2>6. /\ lookup' \in [Lookups -> LookupSet] /\ ~lookup'[c].own
        /\ \A d \in Lookups : d # c => lookup'[d] = lookup[d]
    <3> DEFINE other == FALSE
    <3>1. other \in BOOLEAN /\ ~other
      OBVIOUS
    <3>2. lookup' = [lookup EXCEPT ![c].at = "await", ![c].object = cache, ![c].own = other]
      BY <1>5 DEF Waits
    <3>3. cache \in Nat
      BY <1>2
    <3> HIDE DEF other
    <3>4. /\ lookup' \in [Lookups -> LookupSet] /\ lookup'[c].own = other
          /\ \A d \in Lookups : d # c => lookup'[d] = lookup[d]
      BY <1>1, <3>1, <3>2, <3>3, WaitsIs
    <3> QED
      BY <3>1, <3>4, Zenon
  <2>7. ASSUME NEW d \in Lookups, Owns(d)' PROVE OwnerWaits(d)'
    <3>1. d # c
      BY <2>6, <2>7 DEF Owns
    <3> QED
      BY <2>2, <2>4, <2>5, <2>6, <2>7, <3>1, HeadLeaves DEF c
  <2>8. \A o \in DOMAIN objects' : objects'[o].modules \in {None, objects'[o].build}
    BY <1>2, <2>2, <2>4
  <2>9. OfferKept
    BY <1>5 DEF OfferKept, Offered
  <2> QED
    BY <1>2, <1>5, <2>4, <2>6, <2>7, <2>8, <2>9 DEF SearchInv
<1>6. CASE /\ ~(cache # 0 /\ objects[cache].build = load[c[1]].page)
           /\ objects' = Append(objects, [build |-> load[c[1]].page, modules |-> None,
                                          refreshing |-> TRUE, waiting |-> <<c>>,
                                          refreshed |-> FALSE])
           /\ cache' = Len(objects) + 1
           /\ Waits(c, Len(objects) + 1, TRUE)
  <2> DEFINE new == [build |-> load[c[1]].page, modules |-> None, refreshing |-> TRUE,
                     waiting |-> <<c>>, refreshed |-> FALSE]
  <2>1. new.modules = None /\ Queued(c, new.waiting)
    BY DEF Queued
  <2>2. objects' = Append(objects, new)
    BY <1>6
  <2> HIDE DEF new
  <2>3. /\ Len(objects') = Len(objects) + 1 /\ DOMAIN objects' = 1..(Len(objects) + 1)
        /\ objects'[Len(objects) + 1] = new
        /\ \A o \in DOMAIN objects : o \in DOMAIN objects' /\ objects'[o] = objects[o]
    BY <1>2, <2>2
  <2>4. /\ lookup' \in [Lookups -> LookupSet] /\ lookup'[c].at = "await"
        /\ lookup'[c].object = Len(objects) + 1
        /\ \A d \in Lookups : d # c => lookup'[d] = lookup[d]
    <3> DEFINE own == TRUE
               o == Len(objects) + 1
    <3>1. own \in BOOLEAN /\ o \in Nat
      BY <1>2
    <3>2. lookup' = [lookup EXCEPT ![c].at = "await", ![c].object = o, ![c].own = own]
      BY <1>6 DEF Waits
    <3> HIDE DEF own
    <3> QED
      BY <1>1, <3>1, <3>2, WaitsIs
  <2>5. ASSUME NEW d \in Lookups, Owns(d)' PROVE OwnerWaits(d)'
    <3>1. CASE d = c
      BY <1>2, <2>1, <2>3, <2>4, <3>1 DEF OwnerWaits
    <3>2. CASE d # c
      BY <2>3, <2>4, <2>5, <3>2, HeadLeaves DEF c
    <3> QED
      BY <3>1, <3>2
  <2>6. \A o \in DOMAIN objects' : objects'[o].modules \in {None, objects'[o].build}
    <3>1. ASSUME NEW o \in DOMAIN objects' PROVE objects'[o].modules \in {None, objects'[o].build}
      <4>1. o \in DOMAIN objects \/ o = Len(objects) + 1
        BY <1>2, <2>3, <3>1
      <4> QED
        BY <1>2, <2>1, <2>3, <4>1
    <3> QED
      BY <3>1
  <2>7. OfferKept
    <3>1. SUFFICES ASSUME Offered # None PROVE NewBuildAsks
      BY DEF OfferKept
    <3>2. cache # 0 /\ cache \in DOMAIN objects /\ Offered = objects[cache].modules
      BY <1>2, <3>1 DEF Offered
    <3>3. Offered = objects[cache].build
      BY <1>2, <3>1, <3>2
    <3>4. load[c[1]].page # Offered
      BY <1>6, <3>2, <3>3
    <3> QED
      BY <1>1, <2>4, <3>4 DEF NewBuildAsks
  <2>8. cache' \in 0..Len(objects')
    BY <1>2, <1>6, <2>3
  <2> QED
    BY <2>4, <2>5, <2>6, <2>7, <2>8 DEF SearchInv
<1> QED
  BY <1>4, <1>5, <1>6 DEF Enter, c

\* A search that goes on: it gives an object up that never had modules.
LEMMA ResumeKeepsOffer ==
  ASSUME PagesInv, SearchInv, ready # <<>>, Resume(Head(ready)), ready' = Tail(ready)
  PROVE  SearchInv' /\ OfferKept
<1> DEFINE c == Head(ready)
<1>1. c \in Lookups /\ lookup[c].at = "await" /\ UNCHANGED objects
  BY HeadIsSearch DEF Resume
<1>2. /\ objects \in Seq(ObjectSet(Searching)) /\ Len(objects) \in Nat
      /\ DOMAIN objects = 1..Len(objects)
      /\ cache \in 0..Len(objects)
  BY LenProperties DEF PagesInv, SearchInv
<1>3. \A o \in DOMAIN objects : objects[o].modules \in Nat
  <2>1. \A o \in DOMAIN objects : objects[o] \in ObjectSet(Searching)
    BY <1>2
  <2> QED
    BY <2>1 DEF ObjectSet
<1>4. /\ \E modules \in Nat \cup {Thrown} : Answered(c, modules)
      /\ cache' \in 0..Len(objects) /\ OfferKept
  <2>1. CASE lookup[c].own
    <3> DEFINE o == lookup[c].object
    <3>1. /\ o \in DOMAIN objects
          /\ ~objects[o].refreshed => objects[o].modules = None
      BY <1>1, <2>1 DEF SearchInv, Owns, OwnerWaits
    <3>2. /\ Answered(c, objects[o].modules)
          /\ cache' = IF GivesUp(o) THEN 0 ELSE cache
      BY <2>1 DEF Resume
    <3>3. GivesUp(o) => Offered = None
      BY <3>1 DEF GivesUp, Offered
    <3>4. ~GivesUp(o) => Offered' = Offered
      BY <1>1, <3>2 DEF Offered
    <3> QED
      BY <1>2, <1>3, <3>1, <3>2, <3>3, <3>4 DEF OfferKept
  <2>2. CASE ~lookup[c].own
    <3>1. /\ Answered(c, IF cache = 0 THEN Thrown ELSE objects[cache].modules)
          /\ UNCHANGED cache
      BY <2>2 DEF Resume
    <3>2. (IF cache = 0 THEN Thrown ELSE objects[cache].modules) \in Nat \cup {Thrown}
      BY <1>2, <1>3
    <3> QED
      BY <1>1, <1>2, <3>1, <3>2 DEF OfferKept, Offered
  <2> QED
    BY <2>1, <2>2
<1>5. /\ lookup' \in [Lookups -> LookupSet] /\ lookup'[c].at = "done"
      /\ \A d \in Lookups : d # c => lookup'[d] = lookup[d]
  BY <1>1, <1>4, AnswerEnds
<1>6. ASSUME NEW d \in Lookups, Owns(d)' PROVE OwnerWaits(d)'
  <2>1. d # c
    BY <1>5, <1>6 DEF Owns
  <2> QED
    BY <1>1, <1>5, <1>6, <2>1, HeadLeaves
<1> QED
  BY <1>1, <1>4, <1>5, <1>6 DEF SearchInv

\* The end of a download puts whoever awaits it into the queue.
LEMMA SettleKeepsOffer ==
  ASSUME PagesInv, SearchInv, NEW o \in DOMAIN objects, ModulesSettle(o)
  PROVE  SearchInv' /\ OfferKept
<1>1. /\ ready = <<>> /\ ready' = objects[o].waiting /\ UNCHANGED <<lookup, cache>>
      /\ objects \in Seq(ObjectSet(Searching)) /\ objects[o] \in ObjectSet(Searching)
      /\ objects[o].modules \in {None, objects[o].build}
  BY DEF ModulesSettle, PagesInv, SearchInv
<1>2. PICK fetched \in BOOLEAN :
        objects' = [objects EXCEPT ![o].refreshing = FALSE, ![o].waiting = <<>>,
                                   ![o].refreshed = fetched,
                                   ![o].modules = IF fetched THEN objects[o].build ELSE @]
  BY DEF ModulesSettle
<1> DEFINE next == [objects[o] EXCEPT !.refreshing = FALSE, !.waiting = <<>>, !.refreshed = fetched,
                                      !.modules = IF fetched THEN objects[o].build ELSE @]
<1>3. /\ next.build = objects[o].build /\ (next.refreshed <=> fetched)
      /\ next.modules = IF fetched THEN objects[o].build ELSE objects[o].modules
  BY <1>1 DEF ObjectSet
<1>4. objects' = [objects EXCEPT ![o] = next]
  BY <1>2
<1> HIDE DEF next
<1>5. /\ DOMAIN objects' = DOMAIN objects /\ Len(objects') = Len(objects)
      /\ \A p \in DOMAIN objects : objects'[p] = IF p = o THEN next ELSE objects[p]
  BY <1>1, <1>4
<1>6. \A p \in DOMAIN objects' : objects'[p].modules \in {None, objects'[p].build}
  BY <1>1, <1>3, <1>5 DEF SearchInv
<1>7. ASSUME NEW d \in Lookups, Owns(d)' PROVE OwnerWaits(d)'
  <2> DEFINE p == lookup[d].object
  <2>1. Owns(d)
    BY <1>1, <1>7 DEF Owns
  <2>2. p \in DOMAIN objects /\ objects[p].modules = None /\ Queued(d, objects[p].waiting)
    BY <1>1, <2>1, NothingQueued DEF SearchInv, OwnerWaits
  <2>3. CASE p = o
    <3>1. Queued(d, ready')
      BY <1>1, <2>2, <2>3
    <3>2. objects'[o] = next
      BY <1>5
    <3>3. objects'[o].refreshed \/ objects'[o].modules = None
      BY <1>3, <2>2, <2>3, <3>2
    <3> QED
      BY <1>1, <1>5, <2>2, <2>3, <3>1, <3>3 DEF OwnerWaits
  <2>4. CASE p # o
    BY <1>1, <1>5, <2>2, <2>4 DEF OwnerWaits
  <2> QED
    BY <2>3, <2>4
<1>8. OfferKept
  <2>1. SUFFICES ASSUME Offered # None PROVE Offered' = Offered
    BY DEF OfferKept
  <2>2. cache # 0 /\ cache \in DOMAIN objects /\ Offered = objects[cache].modules
    BY <1>1, <2>1 DEF Offered, SearchInv
  <2>3. Offered' = objects'[cache].modules
    BY <1>1, <2>2 DEF Offered
  <2>4. objects'[cache].modules = objects[cache].modules
    BY <1>1, <1>3, <1>5, <2>1, <2>2
  <2> QED
    BY <2>2, <2>3, <2>4
<1> QED
  BY <1>1, <1>5, <1>6, <1>7, <1>8 DEF SearchInv

LEMMA ScheduledKeepsOffer ==
  ASSUME PagesInv, SearchInv, Scheduled
  PROVE  SearchInv' /\ OfferKept
<1>1. /\ cache # 0 /\ UNCHANGED <<lookup, cache, ready>>
      /\ objects' = [objects EXCEPT ![cache].refreshing = TRUE]
      /\ objects \in Seq(ObjectSet(Searching))
  BY DEF Scheduled, PagesInv
<1>2. cache \in DOMAIN objects /\ objects[cache] \in ObjectSet(Searching)
  BY <1>1 DEF SearchInv
<1> DEFINE next == [objects[cache] EXCEPT !.refreshing = TRUE]
<1>3. /\ next.build = objects[cache].build /\ next.modules = objects[cache].modules
      /\ next.refreshed = objects[cache].refreshed /\ next.waiting = objects[cache].waiting
  BY <1>2 DEF ObjectSet
<1>4. objects' = [objects EXCEPT ![cache] = next]
  BY <1>1
<1> HIDE DEF next
<1>5. /\ DOMAIN objects' = DOMAIN objects /\ Len(objects') = Len(objects)
      /\ \A o \in DOMAIN objects : objects'[o] = IF o = cache THEN next ELSE objects[o]
  <2>1. objects \in Seq(ObjectSet(Searching))
    BY <1>1
  <2> QED
    BY <1>2, <1>4, <2>1
<1>6. ASSUME NEW d \in Lookups, Owns(d)' PROVE OwnerWaits(d)'
  <2>1. Owns(d) /\ lookup'[d] = lookup[d]
    BY <1>1, <1>6 DEF Owns
  <2> QED
    BY <1>1, <1>3, <1>5, <2>1, OwnerStays
<1>7. \A o \in DOMAIN objects' : objects'[o].modules \in {None, objects'[o].build}
  BY <1>3, <1>5 DEF SearchInv
<1>8. Offered' = Offered
  BY <1>1, <1>2, <1>3, <1>5 DEF Offered
<1> QED
  BY <1>1, <1>5, <1>6, <1>7, <1>8 DEF SearchInv, OfferKept

LEMMA NextSearchInv ==
  PagesInv /\ SearchInv /\ [PagesNext]_pagesVars => SearchInv' /\ OfferKept
<1> SUFFICES ASSUME PagesInv, SearchInv, [PagesNext]_pagesVars PROVE SearchInv' /\ OfferKept
  OBVIOUS
<1>1. ASSUME NEW l \in Loads, LoadStarts(l) \/ PageFails(l) \/ PageWrong(l) \/ PageRejects(l)
                              \/ Resolve(l) \/ SessionEnds(l)
      PROVE  SearchInv' /\ OfferKept
  BY <1>1, OthersKeepOffer DEF LoadStarts, PageFails, PageWrong, PageRejects, Resolve, SessionEnds
<1>2. ASSUME NEW l \in Loads, PageLoads(l) PROVE SearchInv' /\ OfferKept
  BY <1>2, PageKeepsOffer
<1>3. CASE Run
  BY <1>3, EnterKeepsOffer, ResumeKeepsOffer DEF Run
<1>4. ASSUME NEW o \in DOMAIN objects, ModulesSettle(o) PROVE SearchInv' /\ OfferKept
  BY <1>4, SettleKeepsOffer
<1>5. CASE Scheduled
  BY <1>5, ScheduledKeepsOffer
<1>6. CASE Deploy \/ UNCHANGED pagesVars
  BY <1>6, OthersKeepOffer DEF Deploy, pagesVars
<1> QED
  BY <1>1, <1>2, <1>3, <1>4, <1>5, <1>6 DEF PagesNext, PageStep

\* The modules that the cache offers go only when a page of another build asks
\* for its own: not by a download that fails, nor by a caller that gives its
\* object up, for any number of accounts and builds.
THEOREM CachedModulesStay == PagesInit /\ [][PagesNext]_pagesVars => CacheKeepsModules
<1>1. ASSUME PagesInv, SearchInv, [PagesNext]_pagesVars
      PROVE  [(Offered # None /\ Offered' # Offered) =>
                \E c \in Lookups : /\ lookup[c].at = "enter" /\ lookup'[c].at = "await"
                                  /\ load[c[1]].page # Offered]_pagesVars
  BY <1>1, NextSearchInv DEF OfferKept, NewBuildAsks
<1> QED
  BY <1>1, InitPagesInv, InitSearchInv, NextPagesInv, NextSearchInv, PTL DEF CacheKeepsModules

-----------------------------------------------------------------------------
(* ProgressReports: as long as no write is lost, the row says that a       *)
(* refresh is under way only while some instance carries one or has yet to *)
(* write.                                                                  *)

\* A run that is under way is the entry of its instance, and only such a run
\* is reported to be running.
RunsAreEntries ==
  \A r \in Runs :
    /\ run[r].at # "new" => run[r].by \in Hosts
    /\ run[r].at = "under way" => entry[run[r].by] = r
    /\ run[r].at \in {"under way", "new"} => report[r] = "running"
    /\ run[r].at \in {"flushing", "answered"} => report[r] = "over"

\* What an instance has yet to write are reports of its own runs.
TokensAreOwn ==
  \A i \in Hosts :
    /\ \A k \in 1..Len(pendingWrites[i]) :
         run[pendingWrites[i][k]].at # "new" /\ run[pendingWrites[i][k]].by = i
    /\ sending[i] # {} => \E r \in Runs : run[r].at # "new" /\ run[r].by = i

\* A report on its way that a refresh is under way is not the last word of an
\* instance that carries none.
RunningIsFollowed ==
  \A i \in Hosts : "running" \in sending[i] => Carries(i) \/ pendingWrites[i] # <<>>

\* Neither is the one in the row.
RowIsFollowed ==
  /\ stored = "running" => \E i \in Hosts : Carries(i) \/ ~Written(i)
  /\ stored = "none" => (\A r \in Runs : run[r].at = "new") \/ \E i \in Hosts : ~Written(i)

\* An import is one run, and answered when it has been written.
ImportIsWritten ==
  kind = "import" =>
    /\ \A r \in Runs : r # 1 => run[r].at = "new"
    /\ run[1].at = "answered" => \A i \in Hosts : Written(i)

Core == RunsAreEntries /\ TokensAreOwn /\ RunningIsFollowed /\ RowIsFollowed /\ ImportIsWritten

ReportsInv == ReportsTypeOK /\ (faults = 0 /\ ~deleted => Core)

-----------------------------------------------------------------------------

LEMMA InitReports == MaxRuns \in Nat \ {0} /\ ReportsInit => ReportsInv
  <1> SUFFICES ASSUME MaxRuns \in Nat \ {0}, ReportsInit PROVE ReportsInv
    OBVIOUS
  <1>1. /\ \A r \in Runs : run[r].at = "new" /\ report[r] = "running"
        /\ \A i \in Hosts : pendingWrites[i] = <<>> /\ sending[i] = {}
    BY DEF ReportsInit
  <1>2. ReportsTypeOK
    <2>1. [at |-> "new", by |-> 0] \in RunStates /\ "running" \in Statuses
      BY DEF RunStates, Statuses
    <2>2. run \in [Runs -> RunStates] /\ report \in [Runs -> Statuses]
      BY <2>1 DEF ReportsInit
    <2>3. pendingWrites \in [Hosts -> Seq(Runs)] /\ sending \in [Hosts -> SUBSET Statuses]
      BY DEF ReportsInit
    <2>4. entry \in [Hosts -> Runs \cup {NoRun}]
      BY DEF ReportsInit
    <2> QED BY <2>2, <2>3, <2>4 DEF ReportsInit, ReportsTypeOK
  <1>3. 1 \in Runs
    BY DEF Runs
  <1>4. RunsAreEntries /\ TokensAreOwn /\ RunningIsFollowed
    <2>1. RunsAreEntries
      BY <1>1 DEF RunsAreEntries
    <2>2. ASSUME NEW i \in Hosts, NEW k \in 1..Len(pendingWrites[i]) PROVE FALSE
      <3>1. Len(pendingWrites[i]) = 0
        BY <1>1
      <3> QED BY <3>1
    <2>3. TokensAreOwn
      BY <1>1, <2>2 DEF TokensAreOwn
    <2>4. RunningIsFollowed
      BY <1>1 DEF RunningIsFollowed
    <2> QED BY <2>1, <2>3, <2>4
  <1>5. RowIsFollowed
    BY <1>1 DEF RowIsFollowed, ReportsInit
  <1>6. run[1].at = "new"
    BY <1>1, <1>3
  <1>7. ImportIsWritten
    BY <1>1, <1>6 DEF ImportIsWritten
  <1> QED BY <1>2, <1>4, <1>5, <1>7 DEF ReportsInv, Core

\* Sequences of runs.
LEMMA Tokens ==
  ASSUME NEW s \in Seq(Runs), NEW r \in Runs
  PROVE  /\ Append(s, r) \in Seq(Runs) /\ Append(s, r) # <<>>
         /\ \A k \in 1..Len(Append(s, r)) :
               Append(s, r)[k] = r \/ (k \in 1..Len(s) /\ Append(s, r)[k] = s[k])
         /\ s # <<>> =>
               /\ Head(s) = s[1] /\ 1 \in 1..Len(s) /\ Head(s) \in Runs
               /\ Tail(s) \in Seq(Runs)
               /\ \A k \in 1..Len(Tail(s)) : k + 1 \in 1..Len(s) /\ Tail(s)[k] = s[k + 1]
  OBVIOUS

\* A run goes on in its instance.
LEMMA RunMoves ==
  ASSUME NEW x \in RunStates, NEW a \in {"new", "under way", "flushing", "answered"}
  PROVE  /\ [x EXCEPT !.at = a] \in RunStates
         /\ [x EXCEPT !.at = a].at = a
         /\ [x EXCEPT !.at = a].by = x.by
  BY DEF RunStates

-----------------------------------------------------------------------------
(* Types *)

\* What the reporter of a run does to its report and its writes.
LEMMA ReportsType ==
  ASSUME ReportsTypeOK, NEW r \in Runs, NEW s \in Statuses, Reports(r, s)
  PROVE  report' \in [Runs -> Statuses] /\ pendingWrites' \in [Hosts -> Seq(Runs)]
  <1>1. CASE entry[run[r].by] = r
    <2>1. /\ report' = [report EXCEPT ![r] = s]
          /\ pendingWrites' = [pendingWrites EXCEPT ![run[r].by] = Append(@, r)]
      BY <1>1 DEF Reports, Persist
    <2>2. report' \in [Runs -> Statuses]
      BY <2>1 DEF ReportsTypeOK
    <2>3. ASSUME NEW j \in Hosts PROVE pendingWrites'[j] \in Seq(Runs)
      BY <2>1, Tokens DEF ReportsTypeOK
    <2>4. pendingWrites' \in [Hosts -> Seq(Runs)]
      BY <2>1, <2>3 DEF ReportsTypeOK
    <2> QED BY <2>2, <2>4
  <1>2. CASE entry[run[r].by] # r
    BY <1>2 DEF Reports, ReportsTypeOK
  <1> QED BY <1>1, <1>2

LEMMA TypeStep ==
  ASSUME ReportsTypeOK, [ReportsNext]_reportVars
  PROVE  ReportsTypeOK'
  <1>0. "running" \in Statuses /\ "over" \in Statuses
    BY DEF Statuses
  <1>1. CASE UNCHANGED reportVars
    BY <1>1 DEF reportVars, ReportsTypeOK
  <1>2. ASSUME NEW i \in Hosts, Expire(i) PROVE ReportsTypeOK'
    BY <1>2 DEF Expire, ReportsTypeOK
  <1>3. ASSUME NEW i \in Hosts, Clear(i) PROVE ReportsTypeOK'
    BY <1>3 DEF Clear, ReportsTypeOK
  <1>4. ASSUME NEW i \in Hosts, Stop(i) PROVE ReportsTypeOK'
    <2>1. ASSUME NEW r \in Runs PROVE [run[r] EXCEPT !.at = "answered"] \in RunStates
      BY RunMoves DEF ReportsTypeOK
    <2>2. run' \in [Runs -> RunStates]
      BY <1>4, <2>1 DEF Stop, ReportsTypeOK
    <2>3. pendingWrites' \in [Hosts -> Seq(Runs)]
      BY <1>4 DEF Stop, ReportsTypeOK
    <2>4. sending' \in [Hosts -> SUBSET Statuses]
      BY <1>4 DEF Stop, ReportsTypeOK
    <2>5. entry' \in [Hosts -> Runs \cup {NoRun}] /\ faults' \in Nat
      BY <1>4 DEF Stop, Fault, ReportsTypeOK
    <2> QED BY <1>4, <2>2, <2>3, <2>4, <2>5 DEF Stop, ReportsTypeOK
  <1>5. ASSUME NEW i \in Hosts, NEW r \in Runs, StartRun(i, r) PROVE ReportsTypeOK'
    <2>1. [at |-> "under way", by |-> i] \in RunStates
      BY DEF RunStates
    <2>2. run' \in [Runs -> RunStates]
      BY <1>5, <2>1 DEF StartRun, ReportsTypeOK
    <2>3. Append(pendingWrites[i], r) \in Seq(Runs)
      BY Tokens DEF ReportsTypeOK
    <2>4. pendingWrites' \in [Hosts -> Seq(Runs)]
      BY <1>5, <2>3 DEF StartRun, Persist, ReportsTypeOK
    <2>5. entry' \in [Hosts -> Runs \cup {NoRun}]
      BY <1>5 DEF StartRun, ReportsTypeOK
    <2> QED BY <1>5, <2>2, <2>4, <2>5 DEF StartRun, ReportsTypeOK
  <1>6. ASSUME NEW r \in Runs, Update(r) PROVE ReportsTypeOK'
    <2>1. report' \in [Runs -> Statuses] /\ pendingWrites' \in [Hosts -> Seq(Runs)]
      BY <1>0, <1>6, ReportsType DEF Update
    <2> QED BY <1>6, <2>1 DEF Update, ReportsTypeOK
  <1>7. ASSUME NEW r \in Runs, Ends(r) PROVE ReportsTypeOK'
    <2>1. report' \in [Runs -> Statuses] /\ pendingWrites' \in [Hosts -> Seq(Runs)]
      BY <1>0, <1>7, ReportsType DEF Ends
    <2>2. [run[r] EXCEPT !.at = IF kind = "import" THEN "flushing" ELSE "answered"] \in RunStates
      BY RunMoves DEF ReportsTypeOK
    <2>3. run' \in [Runs -> RunStates]
      BY <1>7, <2>2 DEF Ends, ReportsTypeOK
    <2> QED BY <1>7, <2>1, <2>3 DEF Ends, ReportsTypeOK
  <1>8. ASSUME NEW r \in Runs, Flushed(r) PROVE ReportsTypeOK'
    <2>1. [run[r] EXCEPT !.at = "answered"] \in RunStates
      BY RunMoves DEF ReportsTypeOK
    <2>2. run' \in [Runs -> RunStates]
      BY <1>8, <2>1 DEF Flushed, ReportsTypeOK
    <2> QED BY <1>8, <2>2 DEF Flushed, ReportsTypeOK
  <1>9. ASSUME NEW i \in Hosts, Send(i) PROVE ReportsTypeOK'
    <2>1. Tail(pendingWrites[i]) \in Seq(Runs) /\ Head(pendingWrites[i]) \in Runs
      BY <1>9, Tokens DEF Send, ReportsTypeOK
    <2>2. pendingWrites' \in [Hosts -> Seq(Runs)]
      BY <1>9, <2>1 DEF Send, ReportsTypeOK
    <2>3. sending[i] \cup {report[Head(pendingWrites[i])]} \in SUBSET Statuses
      BY <2>1 DEF ReportsTypeOK
    <2>4. sending' \in [Hosts -> SUBSET Statuses]
      BY <1>9, <2>3 DEF Send, ReportsTypeOK
    <2> QED BY <1>9, <2>2, <2>4 DEF Send, ReportsTypeOK
  <1>10. ASSUME NEW i \in Hosts, Lands(i) PROVE ReportsTypeOK'
    <2>1. PICK s \in sending[i] :
             /\ stored' = s /\ sending' = [sending EXCEPT ![i] = @ \ {s}]
             /\ UNCHANGED <<kind, run, report, entry, pendingWrites, deleted, faults>>
      BY <1>10 DEF Lands
    <2>2. sending[i] \in SUBSET Statuses
      BY DEF ReportsTypeOK
    <2>3. s \in Statuses /\ sending[i] \ {s} \in SUBSET Statuses
      BY <2>2
    <2>4. sending' \in [Hosts -> SUBSET Statuses]
      BY <2>1, <2>3 DEF ReportsTypeOK
    <2> QED BY <2>1, <2>3, <2>4 DEF ReportsTypeOK
  <1>11. ASSUME NEW i \in Hosts, WriteFails(i) PROVE ReportsTypeOK'
    <2>1. sending' \in [Hosts -> SUBSET Statuses]
      BY <1>11 DEF WriteFails, ReportsTypeOK
    <2> QED BY <1>11, <2>1 DEF WriteFails, Fault, ReportsTypeOK
  <1> QED BY <1>1, <1>2, <1>3, <1>4, <1>5, <1>6, <1>7, <1>8, <1>9, <1>10, <1>11
          DEF ReportsNext

-----------------------------------------------------------------------------
(* The steps without a fault. *)

\* The fields of what the steps change, by name.
LEMMA Fields ==
  ASSUME ReportsTypeOK
  PROVE  /\ \A r \in Runs : run[r] \in RunStates /\ report[r] \in Statuses
         /\ \A i \in Hosts : pendingWrites[i] \in Seq(Runs) /\ sending[i] \in SUBSET Statuses
  BY DEF ReportsTypeOK

\* What an instance has yet to write stays its own while its runs go on.
LEMMA TokensStay ==
  ASSUME ReportsTypeOK, TokensAreOwn, NEW j \in Hosts,
         \A q \in Runs : run[q].at # "new" => run'[q].at # "new" /\ run'[q].by = run[q].by
  PROVE  /\ \A k \in 1..Len(pendingWrites[j]) :
               run'[pendingWrites[j][k]].at # "new" /\ run'[pendingWrites[j][k]].by = j
         /\ sending[j] # {} => \E q \in Runs : run'[q].at # "new" /\ run'[q].by = j
  <1>1. ASSUME NEW k \in 1..Len(pendingWrites[j])
        PROVE  run'[pendingWrites[j][k]].at # "new" /\ run'[pendingWrites[j][k]].by = j
    <2>1. pendingWrites[j][k] \in Runs
      BY Fields
    <2>2. run[pendingWrites[j][k]].at # "new" /\ run[pendingWrites[j][k]].by = j
      BY DEF TokensAreOwn
    <2> QED BY <2>1, <2>2
  <1>2. ASSUME sending[j] # {} PROVE \E q \in Runs : run'[q].at # "new" /\ run'[q].by = j
    <2>1. PICK q \in Runs : run[q].at # "new" /\ run[q].by = j
      BY <1>2 DEF TokensAreOwn
    <2>2. run'[q].at # "new" /\ run'[q].by = j
      BY <2>1
    <2> QED BY <2>2
  <1> QED BY <1>1, <1>2

LEMMA BeginKeeps ==
  ASSUME ReportsTypeOK, Core, NEW i \in Hosts, NEW r \in Runs, StartRun(i, r)
  PROVE  Core'
  <1>1. /\ run[r].at = "new" /\ ~Carries(i)
        /\ kind = "import" => r = 1
        /\ run' = [run EXCEPT ![r] = [at |-> "under way", by |-> i]]
        /\ entry' = [entry EXCEPT ![i] = r]
        /\ pendingWrites' = [pendingWrites EXCEPT ![i] = Append(@, r)]
        /\ UNCHANGED <<kind, stored, report, sending>>
    BY DEF StartRun, Persist
  <1>2. /\ run'[r].at = "under way" /\ run'[r].by = i
        /\ \A q \in Runs : q # r => run'[q] = run[q]
    BY <1>1 DEF ReportsTypeOK
  <1>3. /\ entry'[i] = r
        /\ \A j \in Hosts : j # i => entry'[j] = entry[j]
    BY <1>1 DEF ReportsTypeOK
  <1>4. /\ pendingWrites'[i] = Append(pendingWrites[i], r)
        /\ \A j \in Hosts : j # i => pendingWrites'[j] = pendingWrites[j]
    BY <1>1 DEF ReportsTypeOK
  <1>5. /\ pendingWrites'[i] # <<>>
        /\ \A k \in 1..Len(pendingWrites'[i]) :
              pendingWrites'[i][k] = r \/ (k \in 1..Len(pendingWrites[i]) /\ pendingWrites'[i][k] = pendingWrites[i][k])
    BY <1>4, Fields, Tokens
  <1>6. \A q \in Runs : run[q].at # "new" => run'[q] = run[q]
    BY <1>1, <1>2
  <1>7. RunsAreEntries'
    <2> SUFFICES ASSUME NEW q \in Runs
                 PROVE  /\ run'[q].at # "new" => run'[q].by \in Hosts
                        /\ run'[q].at = "under way" => entry'[run'[q].by] = q
                        /\ run'[q].at \in {"under way", "new"} => report'[q] = "running"
                        /\ run'[q].at \in {"flushing", "answered"} => report'[q] = "over"
      BY DEF RunsAreEntries
    <2>1. CASE q = r
      BY <1>1, <1>2, <1>3, <2>1 DEF Core, RunsAreEntries
    <2>2. CASE q # r
      <3>1. run'[q] = run[q] /\ report'[q] = report[q]
        BY <1>1, <1>2, <2>2
      <3>2. run[q].at = "under way" => run[q].by # i
        BY <1>1 DEF Carries
      <3> QED BY <1>3, <3>1, <3>2 DEF Core, RunsAreEntries
    <2> QED BY <2>1, <2>2
  <1>8. TokensAreOwn'
    <2> SUFFICES ASSUME NEW j \in Hosts
                 PROVE  /\ \A k \in 1..Len(pendingWrites'[j]) :
                              run'[pendingWrites'[j][k]].at # "new" /\ run'[pendingWrites'[j][k]].by = j
                        /\ sending'[j] # {} => \E q \in Runs : run'[q].at # "new" /\ run'[q].by = j
      BY DEF TokensAreOwn
    <2>1. \A q \in Runs :
             run[q].at # "new" => run'[q].at # "new" /\ run'[q].by = run[q].by
      BY <1>6
    <2>2. /\ \A k \in 1..Len(pendingWrites[j]) :
                run'[pendingWrites[j][k]].at # "new" /\ run'[pendingWrites[j][k]].by = j
          /\ sending[j] # {} => \E q \in Runs : run'[q].at # "new" /\ run'[q].by = j
      BY <2>1, TokensStay DEF Core
    <2>3. ASSUME NEW k \in 1..Len(pendingWrites'[j])
          PROVE  run'[pendingWrites'[j][k]].at # "new" /\ run'[pendingWrites'[j][k]].by = j
      <3>1. CASE j = i
        <4>1. pendingWrites'[i][k] = r \/ (k \in 1..Len(pendingWrites[i]) /\ pendingWrites'[i][k] = pendingWrites[i][k])
          BY <1>5, <3>1
        <4> QED BY <1>2, <2>2, <3>1, <4>1
      <3>2. CASE j # i
        BY <1>4, <2>2, <3>2
      <3> QED BY <3>1, <3>2
    <2>4. sending'[j] = sending[j]
      BY <1>1
    <2> QED BY <2>2, <2>3, <2>4
  <1>9. RunningIsFollowed'
    <2> SUFFICES ASSUME NEW j \in Hosts, "running" \in sending'[j]
                 PROVE  Carries(j)' \/ pendingWrites'[j] # <<>>
      BY DEF RunningIsFollowed
    <2>1. CASE j = i
      BY <1>5, <2>1
    <2>2. CASE j # i
      <3>1. Carries(j) \/ pendingWrites[j] # <<>>
        BY <1>1 DEF Core, RunningIsFollowed
      <3>2. Carries(j) => Carries(j)'
        BY <1>6 DEF Carries
      <3> QED BY <1>4, <2>2, <3>1, <3>2
    <2> QED BY <2>1, <2>2
  <1>10. RowIsFollowed'
    BY <1>5 DEF RowIsFollowed, Written
  <1>11. ImportIsWritten'
    BY <1>1, <1>2 DEF Core, ImportIsWritten
  <1> QED BY <1>7, <1>8, <1>9, <1>10, <1>11 DEF Core

\* A run that is under way and reports adds a write of its own instance, and
\* no other instance does anything.
LEMMA ReporterWrites ==
  ASSUME ReportsTypeOK, Core, NEW r \in Runs, run[r].at = "under way",
         NEW s, Reports(r, s), UNCHANGED <<entry, sending>>,
         \A q \in Runs : /\ q # r => run'[q] = run[q]
                         /\ run[q].at # "new" => run'[q].at # "new" /\ run'[q].by = run[q].by
  PROVE  /\ report' = [report EXCEPT ![r] = s]
         /\ \E j \in Hosts : pendingWrites'[j] # <<>>
         /\ TokensAreOwn'
         /\ RunningIsFollowed'
  <1> DEFINE i == run[r].by
  <1>1. i \in Hosts /\ entry[i] = r
    BY DEF Core, RunsAreEntries
  <1>2. report' = [report EXCEPT ![r] = s] /\ pendingWrites' = [pendingWrites EXCEPT ![i] = Append(@, r)]
    BY <1>1 DEF Reports, Persist
  <1> HIDE DEF i
  <1>3. /\ pendingWrites'[i] = Append(pendingWrites[i], r)
        /\ \A j \in Hosts : j # i => pendingWrites'[j] = pendingWrites[j]
    BY <1>1, <1>2 DEF ReportsTypeOK
  <1>4. /\ pendingWrites'[i] # <<>>
        /\ \A k \in 1..Len(pendingWrites'[i]) :
              pendingWrites'[i][k] = r \/ (k \in 1..Len(pendingWrites[i]) /\ pendingWrites'[i][k] = pendingWrites[i][k])
    <2>1. pendingWrites[i] \in Seq(Runs)
      BY <1>1, Fields
    <2>2. /\ Append(pendingWrites[i], r) # <<>>
          /\ \A k \in 1..Len(Append(pendingWrites[i], r)) :
                \/ Append(pendingWrites[i], r)[k] = r
                \/ k \in 1..Len(pendingWrites[i]) /\ Append(pendingWrites[i], r)[k] = pendingWrites[i][k]
      BY <2>1, Tokens, Zenon
    <2> QED BY <1>3, <2>2
  <1>5. run'[r].at # "new" /\ run'[r].by = i
    BY DEF i
  <1>6. TokensAreOwn'
    <2> SUFFICES ASSUME NEW j \in Hosts
                 PROVE  /\ \A k \in 1..Len(pendingWrites'[j]) :
                              run'[pendingWrites'[j][k]].at # "new" /\ run'[pendingWrites'[j][k]].by = j
                        /\ sending'[j] # {} => \E q \in Runs : run'[q].at # "new" /\ run'[q].by = j
      BY DEF TokensAreOwn
    <2>1. /\ \A k \in 1..Len(pendingWrites[j]) :
                run'[pendingWrites[j][k]].at # "new" /\ run'[pendingWrites[j][k]].by = j
          /\ sending[j] # {} => \E q \in Runs : run'[q].at # "new" /\ run'[q].by = j
      BY TokensStay DEF Core
    <2>2. ASSUME NEW k \in 1..Len(pendingWrites'[j])
          PROVE  run'[pendingWrites'[j][k]].at # "new" /\ run'[pendingWrites'[j][k]].by = j
      <3>1. CASE j = i
        <4>1. pendingWrites'[i][k] = r \/ (k \in 1..Len(pendingWrites[i]) /\ pendingWrites'[i][k] = pendingWrites[i][k])
          BY <1>4, <3>1
        <4> QED BY <1>5, <2>1, <3>1, <4>1
      <3>2. CASE j # i
        BY <1>3, <2>1, <3>2
      <3> QED BY <3>1, <3>2
    <2>3. sending'[j] = sending[j]
      OBVIOUS
    <2> QED BY <2>1, <2>2, <2>3
  <1>7. RunningIsFollowed'
    <2> SUFFICES ASSUME NEW j \in Hosts, "running" \in sending'[j]
                 PROVE  Carries(j)' \/ pendingWrites'[j] # <<>>
      BY DEF RunningIsFollowed
    <2>1. CASE j = i
      BY <1>4, <2>1
    <2>2. CASE j # i
      <3>1. Carries(j) \/ pendingWrites[j] # <<>>
        BY DEF Core, RunningIsFollowed
      <3>2. Carries(j) => Carries(j)'
        <4> SUFFICES ASSUME NEW q \in Runs, run[q].at = "under way", run[q].by = j
                     PROVE  Carries(j)'
          BY DEF Carries
        <4>1. run'[q] = run[q]
          BY <2>2 DEF i
        <4> QED BY <4>1 DEF Carries
      <3> QED BY <1>3, <2>2, <3>1, <3>2
    <2> QED BY <2>1, <2>2
  <1>8. \E j \in Hosts : pendingWrites'[j] # <<>>
    BY <1>1, <1>4
  <1> QED BY <1>2, <1>6, <1>7, <1>8 DEF i

LEMMA UpdateKeeps ==
  ASSUME ReportsTypeOK, Core, NEW r \in Runs, Update(r)
  PROVE  Core'
  <1>1. /\ run[r].at = "under way" /\ Reports(r, "running")
        /\ UNCHANGED <<kind, stored, run, entry, sending>>
    BY DEF Update
  <1>2. /\ report' = [report EXCEPT ![r] = "running"]
        /\ \E j \in Hosts : pendingWrites'[j] # <<>>
        /\ TokensAreOwn' /\ RunningIsFollowed'
    BY <1>1, ReporterWrites
  <1>3. report' = report
    BY <1>1, <1>2 DEF ReportsTypeOK, Core, RunsAreEntries
  <1>4. RunsAreEntries'
    BY <1>1, <1>3 DEF Core, RunsAreEntries
  <1>5. RowIsFollowed'
    BY <1>2 DEF RowIsFollowed, Written
  <1>6. ImportIsWritten'
    BY <1>1 DEF Core, ImportIsWritten
  <1> QED BY <1>2, <1>4, <1>5, <1>6 DEF Core

LEMMA EndsKeeps ==
  ASSUME ReportsTypeOK, Core, NEW r \in Runs, Ends(r)
  PROVE  Core'
  <1> DEFINE a == IF kind = "import" THEN "flushing" ELSE "answered"
  <1>1. /\ run[r].at = "under way" /\ Reports(r, "over")
        /\ run' = [run EXCEPT ![r].at = a]
        /\ UNCHANGED <<kind, stored, entry, sending>>
    BY DEF Ends
  <1>2. run[r] \in RunStates /\ a \in {"flushing", "answered"}
    BY Fields
  <1>3. kind = "import" => a = "flushing"
    OBVIOUS
  <1> HIDE DEF a
  <1>4. /\ run'[r].at = a /\ run'[r].by = run[r].by
        /\ \A q \in Runs : q # r => run'[q] = run[q]
    <2>1. a \in {"new", "under way", "flushing", "answered"}
      BY <1>2
    <2>2. /\ [run[r] EXCEPT !.at = a].at = a
          /\ [run[r] EXCEPT !.at = a].by = run[r].by
      BY <1>2, <2>1, RunMoves
    <2> QED BY <1>1, <2>2 DEF ReportsTypeOK
  <1>5. /\ report' = [report EXCEPT ![r] = "over"]
        /\ \E j \in Hosts : pendingWrites'[j] # <<>>
        /\ TokensAreOwn' /\ RunningIsFollowed'
    BY <1>1, <1>2, <1>4, ReporterWrites
  <1>6. RunsAreEntries'
    <2> SUFFICES ASSUME NEW q \in Runs
                 PROVE  /\ run'[q].at # "new" => run'[q].by \in Hosts
                        /\ run'[q].at = "under way" => entry'[run'[q].by] = q
                        /\ run'[q].at \in {"under way", "new"} => report'[q] = "running"
                        /\ run'[q].at \in {"flushing", "answered"} => report'[q] = "over"
      BY DEF RunsAreEntries
    <2>1. CASE q = r
      <3>1. report'[q] = "over" /\ run'[q].at \notin {"under way", "new"}
        BY <1>2, <1>4, <1>5, <2>1 DEF ReportsTypeOK
      <3>2. run'[q].by \in Hosts
        BY <1>1, <1>4, <2>1 DEF Core, RunsAreEntries
      <3> QED BY <3>1, <3>2
    <2>2. CASE q # r
      <3>1. run'[q] = run[q] /\ report'[q] = report[q] /\ entry' = entry
        BY <1>1, <1>4, <1>5, <2>2 DEF ReportsTypeOK
      <3> QED BY <3>1 DEF Core, RunsAreEntries
    <2> QED BY <2>1, <2>2
  <1>7. RowIsFollowed'
    BY <1>5 DEF RowIsFollowed, Written
  <1>8. ImportIsWritten'
    <2> SUFFICES ASSUME kind = "import"
                 PROVE  /\ \A q \in Runs : q # 1 => run'[q].at = "new"
                        /\ run'[1].at # "answered"
      BY <1>1 DEF ImportIsWritten
    <2>1. r = 1
      BY <1>1 DEF Core, ImportIsWritten
    <2>2. run'[1].at = "flushing"
      BY <1>3, <1>4, <2>1
    <2> QED BY <1>4, <2>1, <2>2 DEF Core, ImportIsWritten
  <1> QED BY <1>5, <1>6, <1>7, <1>8 DEF Core

LEMMA FlushedKeeps ==
  ASSUME ReportsTypeOK, Core, NEW r \in Runs, Flushed(r)
  PROVE  Core'
  <1>1. /\ run[r].at = "flushing" /\ Written(run[r].by)
        /\ run' = [run EXCEPT ![r].at = "answered"]
        /\ UNCHANGED <<kind, stored, report, entry, pendingWrites, sending>>
    BY DEF Flushed
  <1>2. /\ run'[r].at = "answered" /\ run'[r].by = run[r].by
        /\ \A q \in Runs : q # r => run'[q] = run[q]
    <2>1. run[r] \in RunStates
      BY Fields
    <2>2. /\ [run[r] EXCEPT !.at = "answered"].at = "answered"
          /\ [run[r] EXCEPT !.at = "answered"].by = run[r].by
      BY <2>1 DEF RunStates
    <2> QED BY <1>1, <2>2 DEF ReportsTypeOK
  <1>3. RunsAreEntries'
    <2> SUFFICES ASSUME NEW q \in Runs
                 PROVE  /\ run'[q].at # "new" => run'[q].by \in Hosts
                        /\ run'[q].at = "under way" => entry'[run'[q].by] = q
                        /\ run'[q].at \in {"under way", "new"} => report'[q] = "running"
                        /\ run'[q].at \in {"flushing", "answered"} => report'[q] = "over"
      BY DEF RunsAreEntries
    <2>1. CASE q = r
      BY <1>1, <1>2, <2>1 DEF Core, RunsAreEntries
    <2>2. CASE q # r
      BY <1>1, <1>2, <2>2 DEF Core, RunsAreEntries
    <2> QED BY <2>1, <2>2
  <1>4. TokensAreOwn'
    <2> SUFFICES ASSUME NEW j \in Hosts
                 PROVE  /\ \A k \in 1..Len(pendingWrites'[j]) :
                              run'[pendingWrites'[j][k]].at # "new" /\ run'[pendingWrites'[j][k]].by = j
                        /\ sending'[j] # {} => \E q \in Runs : run'[q].at # "new" /\ run'[q].by = j
      BY DEF TokensAreOwn
    <2>1. \A q \in Runs : run[q].at # "new" => run'[q].at # "new" /\ run'[q].by = run[q].by
      BY <1>2
    <2>2. /\ \A k \in 1..Len(pendingWrites[j]) :
                run'[pendingWrites[j][k]].at # "new" /\ run'[pendingWrites[j][k]].by = j
          /\ sending[j] # {} => \E q \in Runs : run'[q].at # "new" /\ run'[q].by = j
      BY <2>1, TokensStay DEF Core
    <2>3. pendingWrites' = pendingWrites /\ sending' = sending
      BY <1>1
    <2> QED BY <2>2, <2>3
  <1>5. ASSUME NEW j \in Hosts PROVE Carries(j)' <=> Carries(j)
    <2>1. ASSUME NEW q \in Runs
          PROVE  run'[q].at = "under way" /\ run'[q].by = j
                 <=> run[q].at = "under way" /\ run[q].by = j
      BY <1>1, <1>2
    <2> QED BY <2>1 DEF Carries
  <1>6. ASSUME NEW j \in Hosts PROVE Written(j)' <=> Written(j)
    BY <1>1 DEF Written
  <1>7. RunningIsFollowed'
    BY <1>1, <1>5 DEF Core, RunningIsFollowed
  <1>8. RowIsFollowed'
    BY <1>1, <1>5, <1>6 DEF Core, RowIsFollowed
  <1>9. ImportIsWritten'
    <2> SUFFICES ASSUME kind = "import"
                 PROVE  /\ \A q \in Runs : q # 1 => run'[q].at = "new"
                        /\ \A j \in Hosts : Written(j)
      BY <1>1, <1>6 DEF ImportIsWritten
    <2>1. r = 1 /\ \A q \in Runs : q # 1 => run[q].at = "new"
      BY <1>1 DEF Core, ImportIsWritten
    <2>2. ASSUME NEW j \in Hosts PROVE Written(j)
      <3>1. CASE j = run[1].by
        BY <1>1, <2>1, <3>1
      <3>2. CASE j # run[1].by
        <4>1. ASSUME NEW q \in Runs, run[q].at # "new", run[q].by = j PROVE FALSE
          BY <2>1, <3>2, <4>1
        <4>2. sending[j] = {}
          BY <4>1 DEF Core, TokensAreOwn
        <4>3. pendingWrites[j] = <<>>
          <5>1. pendingWrites[j] \in Seq(Runs)
            BY Fields
          <5>2. ASSUME pendingWrites[j] # <<>> PROVE FALSE
            <6>1. 1 \in 1..Len(pendingWrites[j]) /\ pendingWrites[j][1] \in Runs
              BY <5>1, <5>2
            <6> QED BY <4>1, <6>1 DEF Core, TokensAreOwn
          <5> QED BY <5>2
        <4> QED BY <4>2, <4>3 DEF Written
      <3> QED BY <3>1, <3>2
    <2> QED BY <1>2, <2>1, <2>2
  <1> QED BY <1>3, <1>4, <1>7, <1>8, <1>9 DEF Core

LEMMA ExpireKeeps ==
  ASSUME ReportsTypeOK, Core, NEW i \in Hosts, Expire(i)
  PROVE  Core'
  <1>1. /\ entry[i] # NoRun /\ report[entry[i]] = "over"
        /\ entry' = [entry EXCEPT ![i] = NoRun]
        /\ UNCHANGED <<kind, stored, run, report, pendingWrites, sending>>
    BY DEF Expire
  <1>2. RunsAreEntries'
    <2> SUFFICES ASSUME NEW q \in Runs, run[q].at = "under way"
                 PROVE  entry'[run[q].by] = q
      BY <1>1 DEF Core, RunsAreEntries
    <2>1. run[q].by \in Hosts /\ entry[run[q].by] = q /\ report[q] = "running"
      BY DEF Core, RunsAreEntries
    <2>2. run[q].by # i
      BY <1>1, <2>1
    <2> QED BY <1>1, <2>1, <2>2 DEF ReportsTypeOK
  <1>3. TokensAreOwn'
    BY <1>1 DEF Core, TokensAreOwn
  <1>4. \A j \in Hosts : (Carries(j)' <=> Carries(j)) /\ (Written(j)' <=> Written(j))
    BY <1>1 DEF Carries, Written
  <1>5. RunningIsFollowed' /\ RowIsFollowed' /\ ImportIsWritten'
    BY <1>1, <1>4 DEF Core, RunningIsFollowed, RowIsFollowed, ImportIsWritten
  <1> QED BY <1>2, <1>3, <1>5 DEF Core

LEMMA SendKeeps ==
  ASSUME ReportsTypeOK, Core, NEW i \in Hosts, Send(i)
  PROVE  Core'
  <1> DEFINE h == Head(pendingWrites[i])
  <1>1. /\ pendingWrites[i] # <<>> /\ sending[i] = {}
        /\ sending' = [sending EXCEPT ![i] = @ \cup {report[h]}]
        /\ pendingWrites' = [pendingWrites EXCEPT ![i] = Tail(@)]
        /\ UNCHANGED <<kind, stored, run, report, entry>>
    BY DEF Send, Turn
  <1>2. /\ h = pendingWrites[i][1] /\ 1 \in 1..Len(pendingWrites[i]) /\ h \in Runs
        /\ \A k \in 1..Len(Tail(pendingWrites[i])) :
              k + 1 \in 1..Len(pendingWrites[i]) /\ Tail(pendingWrites[i])[k] = pendingWrites[i][k + 1]
    <2>1. pendingWrites[i] \in Seq(Runs)
      BY Fields
    <2> QED BY <1>1, <2>1
  <1>3. run[h].at # "new" /\ run[h].by = i
    BY <1>2 DEF Core, TokensAreOwn
  <1> HIDE DEF h
  <1>4. /\ sending'[i] = {report[h]} /\ pendingWrites'[i] = Tail(pendingWrites[i])
        /\ \A j \in Hosts : j # i => sending'[j] = sending[j] /\ pendingWrites'[j] = pendingWrites[j]
    BY <1>1 DEF ReportsTypeOK
  <1>5. RunsAreEntries'
    BY <1>1 DEF Core, RunsAreEntries
  <1>6. TokensAreOwn'
    <2> SUFFICES ASSUME NEW j \in Hosts
                 PROVE  /\ \A k \in 1..Len(pendingWrites'[j]) :
                              run[pendingWrites'[j][k]].at # "new" /\ run[pendingWrites'[j][k]].by = j
                        /\ sending'[j] # {} => \E q \in Runs : run[q].at # "new" /\ run[q].by = j
      BY <1>1 DEF TokensAreOwn
    <2>1. CASE j = i
      <3>1. ASSUME NEW k \in 1..Len(Tail(pendingWrites[i]))
            PROVE  run[Tail(pendingWrites[i])[k]].at # "new" /\ run[Tail(pendingWrites[i])[k]].by = i
        <4>1. k + 1 \in 1..Len(pendingWrites[i]) /\ Tail(pendingWrites[i])[k] = pendingWrites[i][k + 1]
          BY <1>2
        <4> QED BY <4>1 DEF Core, TokensAreOwn
      <3> QED BY <1>2, <1>3, <1>4, <2>1, <3>1
    <2>2. CASE j # i
      BY <1>4, <2>2 DEF Core, TokensAreOwn
    <2> QED BY <2>1, <2>2
  <1>7. \A j \in Hosts : Carries(j)' <=> Carries(j)
    BY <1>1 DEF Carries
  <1>8. RunningIsFollowed'
    <2> SUFFICES ASSUME NEW j \in Hosts, "running" \in sending'[j]
                 PROVE  Carries(j) \/ pendingWrites'[j] # <<>>
      BY <1>7 DEF RunningIsFollowed
    <2>1. CASE j = i
      <3>1. report[h] = "running" /\ run[h] \in RunStates
        BY <1>2, <1>4, <2>1, Fields
      <3>2. run[h].at = "under way"
        BY <1>2, <1>3, <3>1 DEF Core, RunsAreEntries, RunStates
      <3> QED BY <1>2, <1>3, <2>1, <3>2 DEF Carries
    <2>2. CASE j # i
      BY <1>4, <2>2 DEF Core, RunningIsFollowed
    <2> QED BY <2>1, <2>2
  <1>9. RowIsFollowed'
    BY <1>4 DEF RowIsFollowed, Written
  <1>10. ImportIsWritten'
    BY <1>1 DEF Core, ImportIsWritten, Written
  <1> QED BY <1>5, <1>6, <1>8, <1>9, <1>10 DEF Core

LEMMA LandsKeeps ==
  ASSUME ReportsTypeOK, Core, NEW i \in Hosts, Lands(i)
  PROVE  Core'
  <1>1. PICK s \in sending[i] :
           /\ stored' = s /\ sending' = [sending EXCEPT ![i] = @ \ {s}]
           /\ UNCHANGED <<kind, run, report, entry, pendingWrites>>
    BY DEF Lands
  <1>2. s \in Statuses
    BY Fields
  <1>3. \A j \in Hosts : sending'[j] \subseteq sending[j] /\ pendingWrites'[j] = pendingWrites[j]
    BY <1>1 DEF ReportsTypeOK
  <1>4. RunsAreEntries'
    BY <1>1 DEF Core, RunsAreEntries
  <1>5. TokensAreOwn'
    <2> SUFFICES ASSUME NEW j \in Hosts
                 PROVE  /\ \A k \in 1..Len(pendingWrites[j]) :
                              run[pendingWrites[j][k]].at # "new" /\ run[pendingWrites[j][k]].by = j
                        /\ sending'[j] # {} => \E q \in Runs : run[q].at # "new" /\ run[q].by = j
      BY <1>1 DEF TokensAreOwn
    <2>1. sending'[j] # {} => sending[j] # {}
      BY <1>3
    <2> QED BY <2>1 DEF Core, TokensAreOwn
  <1>6. \A j \in Hosts : Carries(j)' <=> Carries(j)
    BY <1>1 DEF Carries
  <1>7. RunningIsFollowed'
    BY <1>3, <1>6 DEF Core, RunningIsFollowed
  <1>8. RowIsFollowed'
    <2>1. s # "none"
      BY <1>2 DEF Statuses
    <2>2. s = "running" => Carries(i) \/ pendingWrites[i] # <<>>
      BY DEF Core, RunningIsFollowed
    <2> QED BY <1>1, <1>3, <1>6, <2>1, <2>2 DEF RowIsFollowed, Written
  <1>9. ImportIsWritten'
    BY <1>1 DEF Core, ImportIsWritten, Written
  <1> QED BY <1>4, <1>5, <1>7, <1>8, <1>9 DEF Core

-----------------------------------------------------------------------------

LEMMA NextReports == ReportsInv /\ [ReportsNext]_reportVars => ReportsInv'
  <1> SUFFICES ASSUME ReportsInv, [ReportsNext]_reportVars PROVE ReportsInv'
    OBVIOUS
  <1>1. ReportsTypeOK /\ ReportsTypeOK'
    BY TypeStep DEF ReportsInv
  <1> SUFFICES ASSUME faults' = 0, ~deleted' PROVE Core'
    BY <1>1 DEF ReportsInv
  <1>2. CASE UNCHANGED reportVars
    <2>1. /\ UNCHANGED <<deleted, faults>>
          /\ UNCHANGED <<kind, stored, run, report, entry, pendingWrites, sending>>
      BY <1>2 DEF reportVars
    <2>2. Core
      BY <2>1 DEF ReportsInv
    <2>3. \A j \in Hosts : (Carries(j)' <=> Carries(j)) /\ (Written(j)' <=> Written(j))
      BY <2>1 DEF Carries, Written
    <2>4. RunsAreEntries'
      BY <2>1, <2>2 DEF Core, RunsAreEntries
    <2>5. TokensAreOwn'
      BY <2>1, <2>2 DEF Core, TokensAreOwn
    <2>6. RunningIsFollowed'
      BY <2>1, <2>2, <2>3 DEF Core, RunningIsFollowed
    <2>7. RowIsFollowed' /\ ImportIsWritten'
      BY <2>1, <2>2, <2>3 DEF Core, RowIsFollowed, ImportIsWritten
    <2> QED BY <2>4, <2>5, <2>6, <2>7 DEF Core
  <1>3. ASSUME NEW i \in Hosts, Clear(i) \/ Stop(i) \/ WriteFails(i) PROVE FALSE
    BY <1>1, <1>3 DEF Clear, Stop, WriteFails, Fault, ReportsTypeOK
  <1>4. ASSUME UNCHANGED <<deleted, faults>> PROVE Core
    BY <1>4 DEF ReportsInv
  <1>5. ASSUME NEW i \in Hosts, NEW r \in Runs, StartRun(i, r) PROVE Core'
    <2>1. UNCHANGED <<deleted, faults>>
      BY <1>5 DEF StartRun
    <2> QED BY <1>1, <1>4, <1>5, <2>1, BeginKeeps
  <1>6. ASSUME NEW r \in Runs, Update(r) \/ Ends(r) \/ Flushed(r) PROVE Core'
    <2>1. UNCHANGED <<deleted, faults>>
      BY <1>6 DEF Update, Ends, Flushed
    <2> QED BY <1>1, <1>4, <1>6, <2>1, UpdateKeeps, EndsKeeps, FlushedKeeps
  <1>7. ASSUME NEW i \in Hosts, Expire(i) \/ Send(i) \/ Lands(i) PROVE Core'
    <2>1. UNCHANGED <<deleted, faults>>
      BY <1>7 DEF Expire, Send, Lands
    <2> QED BY <1>1, <1>4, <1>7, <2>1, ExpireKeeps, SendKeeps, LandsKeeps
  <1> QED BY <1>2, <1>3, <1>5, <1>6, <1>7 DEF ReportsNext

\* When all is quiet, the last report of all is the one in the row.
LEMMA QuietMeansOver ==
  ASSUME MaxRuns \in Nat \ {0}, ReportsInv
  PROVE  FinalReportStands
  <1> SUFFICES ASSUME faults = 0, ~deleted, Quiet PROVE stored = "over"
    BY DEF FinalReportStands
  <1>1. Core /\ ReportsTypeOK
    BY DEF ReportsInv
  <1>2. 1 \in Runs
    BY DEF Runs
  <1>3. \A i \in Hosts : Written(i) /\ ~Carries(i)
    BY <1>1, <1>2 DEF Quiet, Core, ImportIsWritten, Carries, ReportsTypeOK
  <1>4. stored # "running" /\ stored # "none"
    BY <1>1, <1>2, <1>3 DEF Core, RowIsFollowed, Quiet
  <1> QED BY <1>1, <1>4 DEF ReportsTypeOK, Statuses

\* Without a lost write, and whatever instances refresh the account and write
\* at once, a report that nobody will change any more says that it is over.
THEOREM ReportsEnd ==
  ASSUME MaxRuns \in Nat \ {0}
  PROVE  ReportsSpec => []FinalReportStands
  <1>1. ReportsInit => ReportsInv
    BY InitReports
  <1>2. ReportsInv /\ [ReportsNext]_reportVars => ReportsInv'
    BY NextReports
  <1>3. ReportsInv => FinalReportStands
    BY QuietMeansOver
  <1> QED BY <1>1, <1>2, <1>3, PTL DEF ReportsSpec

=============================================================================
