---------------------------- MODULE ReferralCache ----------------------------
(***************************************************************************)
(* The list of one account's referral rewards: at the provider, in the      *)
(* memory of each instance, and in app_settings, with the operations that   *)
(* fetch, use and drop it (src/server/utils/referral-reward-cache.ts,       *)
(* accounts.ts).  Operations hold the account's advisory lock; the panel's  *)
(* GET of the list holds nothing.                                           *)
(***************************************************************************)
EXTENDS Naturals, Sequences

CONSTANTS Servers, \* instances of the server, with one clock
          Rewards,
          MaxTime  \* bound: milliseconds that matter

VARIABLES
  available,  \* rewards that the provider would apply
  memory,     \* referralRewardsByAccount of each instance
  storedList, \* the row of app_settings
  writes,     \* pendingWrites of each instance
  usage,      \* the operation that holds the lock
  panel,      \* a GET of the list on each instance
  lost,       \* a write has failed
  now

cacheVars == <<available, memory, storedList, writes, usage, panel, lost, now>>

\* A list has the time at which it was fetched; 0: there is no list.
NoRecord == [rewards |-> {}, at |-> 0, deleted |-> FALSE]
NoUsage == [kind |-> "none", host |-> CHOOSE h \in Servers : TRUE, at |-> "idle",
            wanted |-> {}, local |-> NoRecord, row |-> NoRecord, attempted |-> {}, since |-> 0, from |-> 0]
NoPanel == [at |-> "idle", local |-> NoRecord, row |-> NoRecord]

CacheInit ==
  /\ available = Rewards
  /\ memory = [h \in Servers |-> NoRecord]
  /\ storedList = NoRecord
  /\ writes = [h \in Servers |-> <<>>]
  /\ usage = NoUsage
  /\ panel = [h \in Servers |-> NoPanel]
  /\ lost = FALSE
  /\ now = 1

Later(a, b) == IF a > b THEN a ELSE b

-----------------------------------------------------------------------------
(* Memory and row. *)

PersistList(h, list) == writes' = [writes EXCEPT ![h] = Append(@, list)]

(* cacheAvailableReferralRewards with the fetched list. *)
KeepList(h) ==
  LET list == [rewards |-> available, at |-> now, deleted |-> FALSE]
  IN  memory' = [memory EXCEPT ![h] = list] /\ PersistList(h, list)

(* consumeCachedReferralReward. *)
Consume(h, r) ==
  IF r \in memory[h].rewards
  THEN LET list == [memory[h] EXCEPT !.rewards = @ \ {r}, !.at = Later(now, @ + 1)]
       IN  memory' = [memory EXCEPT ![h] = list] /\ PersistList(h, list)
  ELSE UNCHANGED <<memory, writes>>

\* Faulty variant: the memory of the instance goes before the row.
MemoryFirst(list, local, row) == IF local = NoRecord THEN row ELSE list

(* hydrateCachedReferralRewards, with what it has read before. *)
Hydrated(list, local, row) ==
  IF row.at = 0 \/ row.at < local.at THEN list
  ELSE IF row.deleted THEN NoRecord
  ELSE row

(* A write of the chain, which fails silently. *)
Write(h) ==
  /\ writes[h] # <<>>
  /\ \/ storedList' = Head(writes[h]) /\ UNCHANGED lost
     \/ lost' = TRUE /\ UNCHANGED storedList
  /\ writes' = [writes EXCEPT ![h] = Tail(@)]
  /\ UNCHANGED <<available, memory, usage, panel, now>>

-----------------------------------------------------------------------------
(* The operations. *)

Locks(h, kind, stage) ==
  /\ usage.kind = "none"
  /\ usage' = [NoUsage EXCEPT !.kind = kind, !.host = h, !.at = stage, !.since = now]

Refresh(h) ==
  /\ Locks(h, "refresh", "fetch")
  /\ UNCHANGED <<available, memory, storedList, writes, panel, lost, now>>

Use(h) ==
  /\ Locks(h, "use", "flush")
  /\ UNCHANGED <<available, memory, storedList, writes, panel, lost, now>>

(* The account gets new credentials, or goes. *)
Drop(h) ==
  /\ Locks(h, "drop", "end")
  /\ memory' = [memory EXCEPT ![h] = NoRecord]
  /\ PersistList(h, [rewards |-> {}, at |-> Later(now, memory[h].at + 1), deleted |-> TRUE])
  /\ UNCHANGED <<available, storedList, panel, lost, now>>

(* useAccountReferralRewardOnce hydrates, and selects from the memory. *)
UseFlushed ==
  /\ usage.at = "flush" /\ writes[usage.host] = <<>>
  /\ usage' = [usage EXCEPT !.at = "row", !.local = memory[usage.host]]
  /\ UNCHANGED <<available, memory, storedList, writes, panel, lost, now>>

UseRead ==
  /\ usage.at = "row"
  /\ usage' = [usage EXCEPT !.at = "select", !.row = storedList]
  /\ UNCHANGED <<available, memory, storedList, writes, panel, lost, now>>

UseSelect ==
  /\ usage.at = "select"
  /\ LET list == Hydrated(memory[usage.host], usage.local, usage.row)
     IN  /\ memory' = [memory EXCEPT ![usage.host] = list]
         /\ \E r \in Rewards :
              usage' = IF r \in list.rewards
                       THEN [usage EXCEPT !.at = "apply", !.wanted = {r}, !.since = now,
                                          !.from = list.at, !.attempted = Rewards]
                       ELSE [usage EXCEPT !.at = "end"]
  /\ UNCHANGED <<available, storedList, writes, panel, lost, now>>

(* What the provider answers takes time.  A refresh goes on with a reward   *)
(* that it has not tried, as long as a quota is exhausted.                  *)
FetchList ==
  /\ usage.at = "fetch"
  /\ \/ /\ now > usage.since
        /\ KeepList(usage.host)
        /\ \/ usage' = [usage EXCEPT !.at = "end"]
           \/ \E r \in available \ usage.attempted :
                usage' = [usage EXCEPT !.at = "apply", !.wanted = {r},
                                       !.attempted = @ \cup {r}, !.since = now]
     \/ usage' = [usage EXCEPT !.at = "end"] /\ UNCHANGED <<memory, writes>>
  /\ UNCHANGED <<available, storedList, panel, lost, now>>

Apply ==
  /\ usage.at = "apply" /\ now > usage.since
  /\ \E r \in usage.wanted :
       \/ /\ r \in available
          /\ available' = available \ {r}
          /\ Consume(usage.host, r)
          /\ usage' = [usage EXCEPT !.at = "fetch", !.wanted = {}, !.since = now]
       \/ /\ available' \in {available, available \ {r}}
          /\ usage' = [usage EXCEPT !.at = "latest", !.since = now]
          /\ UNCHANGED <<memory, writes>>
  /\ UNCHANGED <<storedList, panel, lost, now>>

(* After an error the list is fetched again: a refresh goes on when the     *)
(* reward is gone from it, the use of one ends.                             *)
Latest ==
  /\ usage.at = "latest"
  /\ \/ /\ now > usage.since
        /\ KeepList(usage.host)
        /\ usage' = [usage EXCEPT !.wanted = {}, !.since = now,
                       !.at = IF usage.kind = "refresh" /\ usage.wanted \cap available = {}
                              THEN "fetch" ELSE "end"]
     \/ usage' = [usage EXCEPT !.at = "end", !.wanted = {}] /\ UNCHANGED <<memory, writes>>
  /\ UNCHANGED <<available, storedList, panel, lost, now>>

(* runAccountOperation flushes before it unlocks. *)
UsageUnlocks ==
  /\ usage.at = "end" /\ writes[usage.host] = <<>>
  /\ usage' = NoUsage
  /\ UNCHANGED <<available, memory, storedList, writes, panel, lost, now>>

-----------------------------------------------------------------------------
(* GET referral-rewards, on an instance.  Bound: one at a time. *)

PanelAsks(h) ==
  /\ \A k \in Servers : panel[k].at = "idle"
  /\ writes[h] = <<>>
  /\ panel' = [panel EXCEPT ![h].at = "row", ![h].local = memory[h]]
  /\ UNCHANGED <<available, memory, storedList, writes, usage, lost, now>>

PanelReads(h) ==
  /\ panel[h].at = "row"
  /\ panel' = [panel EXCEPT ![h].at = "hydrate", ![h].row = storedList]
  /\ UNCHANGED <<available, memory, storedList, writes, usage, lost, now>>

PanelAnswers(h) ==
  /\ panel[h].at = "hydrate"
  /\ memory' = [memory EXCEPT ![h] = Hydrated(@, panel[h].local, panel[h].row)]
  /\ panel' = [panel EXCEPT ![h] = NoPanel]
  /\ UNCHANGED <<available, storedList, writes, usage, lost, now>>

-----------------------------------------------------------------------------
(* An instance stops, with what it has in memory. *)
Reboot(h) ==
  /\ memory' = [memory EXCEPT ![h] = NoRecord]
  /\ writes' = [writes EXCEPT ![h] = <<>>]
  /\ panel' = [panel EXCEPT ![h] = NoPanel]
  /\ usage' = IF usage.host = h THEN NoUsage ELSE usage
  /\ UNCHANGED <<available, storedList, lost, now>>

Tick ==
  /\ now < MaxTime
  /\ now' = now + 1
  /\ UNCHANGED <<available, memory, storedList, writes, usage, panel, lost>>

CacheNext ==
  \/ \E h \in Servers :
       \/ Write(h) \/ Reboot(h)
       \/ Refresh(h) \/ Use(h) \/ Drop(h)
       \/ PanelAsks(h) \/ PanelReads(h) \/ PanelAnswers(h)
  \/ UseFlushed \/ UseRead \/ UseSelect
  \/ FetchList \/ Apply \/ Latest \/ UsageUnlocks
  \/ Tick

-----------------------------------------------------------------------------
(* The reward that a request uses comes from a list at least as new as the  *)
(* one in the database, so that no instance goes back to a list that        *)
(* another one has fetched anew, used up or dropped                         *)
(* (referral-reward-cache.ts:69-91, accounts.ts:1091-1098).                 *)
SelectsFromNewest ==
  ~lost /\ usage.kind = "use" /\ usage.at = "apply" => usage.from >= storedList.at
=============================================================================
