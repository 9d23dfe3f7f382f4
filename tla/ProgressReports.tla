--------------------------- MODULE ProgressReports ---------------------------
(***************************************************************************)
(* The reports of progress that the panel polls                            *)
(* (src/server/utils/account-refresh-progress.ts for the refreshes of an    *)
(* account, account-import-progress.ts for an import).  Each instance keeps *)
(* its entries in memory and copies them, one write after another, to a row *)
(* of app_settings, so that a poll may reach any instance.  A write takes   *)
(* the report as it is when its turn comes, not when it was asked for.      *)
(***************************************************************************)
EXTENDS Naturals, Sequences

CONSTANTS Hosts,
          MaxRuns,   \* bound: refreshes of the account
          MaxWrites, \* bound: writes that wait before a phase adds another
          MaxFaults  \* bound: writes that fail and instances that stop

Runs == 1..MaxRuns
NoRun == 0

VARIABLES
  kind,    \* whose report it is: the refreshes of an account, or an import
  stored,  \* the row
  run,     \* each refresh, or the import: its stage and its instance
  report,  \* its snapshot.status: running, or "over" for complete and error
  entry,   \* progressByAccount and progressByOperation
  pendingWrites, \* the tokens whose writes wait
  sending, \* statements under way, with what they carry
  deleted, \* the account is gone
  faults

reportVars == <<kind, stored, run, report, entry, pendingWrites, sending, deleted, faults>>

ReportsInit ==
  /\ kind \in {"refresh", "import"}
  /\ stored = "none"
  /\ run = [r \in Runs |-> [at |-> "new", by |-> 0]]
  /\ report = [r \in Runs |-> "running"]
  /\ entry = [i \in Hosts |-> NoRun]
  /\ pendingWrites = [i \in Hosts |-> <<>>]
  /\ sending = [i \in Hosts |-> {}]
  /\ deleted = FALSE
  /\ faults = 0

Fault == faults < MaxFaults /\ faults' = faults + 1

-----------------------------------------------------------------------------
(* The reporter.  Its token, the number of its run, keeps a run from        *)
(* touching the report of a later one.                                      *)

Persist(i, r) == pendingWrites' = [pendingWrites EXCEPT ![i] = Append(@, r)]

Carries(i) == \E r \in Runs : run[r].at = "under way" /\ run[r].by = i

(* One refresh of the account at a time in each instance; the id of an      *)
(* import is used once.                                                     *)
StartRun(i, r) ==
  /\ run[r].at = "new" /\ \A q \in 1..(r - 1) : run[q].at # "new"
  /\ ~Carries(i)
  /\ kind = "import" => r = 1
  /\ run' = [run EXCEPT ![r] = [at |-> "under way", by |-> i]]
  /\ entry' = [entry EXCEPT ![i] = r]
  /\ Persist(i, r)
  /\ UNCHANGED <<kind, stored, report, sending, deleted, faults>>

\* updateEntry
Reports(r, status) ==
  IF entry[run[r].by] = r
  THEN report' = [report EXCEPT ![r] = status] /\ Persist(run[r].by, r)
  ELSE UNCHANGED <<report, pendingWrites>>

Update(r) ==
  /\ run[r].at = "under way"
  /\ Len(pendingWrites[run[r].by]) < MaxWrites
  /\ Reports(r, "running")
  /\ UNCHANGED <<kind, stored, run, entry, sending, deleted, faults>>

(* A refresh that got its lock has had its writes made before it ends.      *)
Ends(r) ==
  /\ run[r].at = "under way"
  /\ Reports(r, "over")
  /\ run' = [run EXCEPT ![r].at = IF kind = "import" THEN "flushing" ELSE "answered"]
  /\ UNCHANGED <<kind, stored, entry, sending, deleted, faults>>

Written(i) == pendingWrites[i] = <<>> /\ sending[i] = {}

(* flushAccountImportProgress, before the import is answered.               *)
Flushed(r) ==
  /\ run[r].at = "flushing" /\ Written(run[r].by)
  /\ run' = [run EXCEPT ![r].at = "answered"]
  /\ UNCHANGED <<kind, stored, report, entry, pendingWrites, sending, deleted, faults>>

\* Reports of imports are dropped from memory a while after their end.
Expire(i) ==
  /\ kind = "import" /\ entry[i] # NoRun /\ report[entry[i]] = "over"
  /\ entry' = [entry EXCEPT ![i] = NoRun]
  /\ UNCHANGED <<kind, stored, run, report, pendingWrites, sending, deleted, faults>>

-----------------------------------------------------------------------------
(* The row. *)

\* Faulty variant: a write does not wait for the one before it.
AtOnce(i) == TRUE

Turn(i) == sending[i] = {}

Send(i) ==
  /\ pendingWrites[i] # <<>> /\ Turn(i)
  /\ sending' = [sending EXCEPT ![i] = @ \cup {report[Head(pendingWrites[i])]}]
  /\ pendingWrites' = [pendingWrites EXCEPT ![i] = Tail(@)]
  /\ UNCHANGED <<kind, stored, run, report, entry, deleted, faults>>

Lands(i) ==
  \E status \in sending[i] :
    /\ stored' = status
    /\ sending' = [sending EXCEPT ![i] = @ \ {status}]
    /\ UNCHANGED <<kind, run, report, entry, pendingWrites, deleted, faults>>

(* The error is swallowed, and the next write goes on. *)
WriteFails(i) ==
  /\ sending[i] # {}
  /\ Fault
  /\ sending' = [sending EXCEPT ![i] = {}]
  /\ UNCHANGED <<kind, stored, run, report, entry, pendingWrites, deleted>>

(* clearAccountRefreshProgress, when the account has been deleted.  Its     *)
(* statement may fail, and waits for none of the writes.                    *)
Clear(i) ==
  /\ kind = "refresh" /\ ~deleted
  /\ deleted' = TRUE
  /\ entry' = [entry EXCEPT ![i] = NoRun]
  /\ stored' \in {"none", stored}
  /\ UNCHANGED <<kind, run, report, pendingWrites, sending, faults>>

(* The instance stops, and with it what it was doing. *)
Stop(i) ==
  /\ Fault
  /\ run' = [r \in Runs |-> IF run[r].by = i THEN [run[r] EXCEPT !.at = "answered"] ELSE run[r]]
  /\ entry' = [entry EXCEPT ![i] = NoRun]
  /\ pendingWrites' = [pendingWrites EXCEPT ![i] = <<>>]
  /\ sending' = [sending EXCEPT ![i] = {}]
  /\ UNCHANGED <<kind, stored, report, deleted>>

ReportsNext ==
  \/ \E i \in Hosts : Expire(i) \/ Clear(i) \/ Stop(i)
  \/ \E i \in Hosts, r \in Runs : StartRun(i, r)
  \/ \E r \in Runs : Update(r) \/ Ends(r) \/ Flushed(r)
  \/ \E i \in Hosts : Send(i) \/ Lands(i) \/ WriteFails(i)

ReportsSpec == ReportsInit /\ [][ReportsNext]_reportVars

-----------------------------------------------------------------------------
Statuses == {"running", "over"}
RunStates == [at : {"new", "under way", "flushing", "answered"}, by : Hosts \cup {0}]

ReportsTypeOK ==
  /\ kind \in {"refresh", "import"}
  /\ stored \in Statuses \cup {"none"}
  /\ run \in [Runs -> RunStates]
  /\ report \in [Runs -> Statuses]
  /\ entry \in [Hosts -> Runs \cup {NoRun}]
  /\ pendingWrites \in [Hosts -> Seq(Runs)]
  /\ sending \in [Hosts -> SUBSET Statuses]
  /\ deleted \in BOOLEAN
  /\ faults \in Nat

(* Whatever instances refresh the account at once, when no refresh is under *)
(* way and every write has been made the report does not say that one is,   *)
(* and an import that has been answered is never reported to be running:    *)
(* the panel would show its progress bar for ever                          *)
(* (account-refresh-progress.ts:53-62, batch.post.ts:76-82).  A write that  *)
(* is lost with its instance is not made up for.                            *)
Quiet ==
  /\ run[1].at # "new" /\ \A r \in Runs : run[r].at \in {"new", "answered"}
  /\ kind = "refresh" => \A i \in Hosts : Written(i)

FinalReportStands ==
  faults = 0 /\ ~deleted /\ Quiet => stored = "over"
=============================================================================
