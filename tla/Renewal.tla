------------------------------- MODULE Renewal -------------------------------
(***************************************************************************)
(* The cancellation of one account's automatic renewal: refreshes and the   *)
(* panel's button run a script (src/server/utils/cancel_autorenew.py) that  *)
(* talks to the provider and to Stripe, with a time limit, and record its   *)
(* result (src/server/utils/accounts.ts).  The operations of the account    *)
(* wait for each other; AUTO_CANCEL_SUBSCRIPTION_RENEWAL is on.             *)
(***************************************************************************)
EXTENDS Naturals

CONSTANTS MaxSubscriptions, \* bound: subscriptions that the owner takes out
          MaxMishaps        \* bound: failures, and the owner resuming a renewal

VARIABLES
  current,  \* the subscription of the account at the provider, 0: none
  taken,    \* number of subscriptions there were
  renews,   \* the current one renews itself
  stopped,  \* subscriptions whose renewal was stopped some time
  late,     \* a cancellation on its way whose sender was killed, 0: none
  record,   \* columns cancelled_subscription_id, subscription_cancelled_at,
            \* ..._checked_at ("fresh": within a day) and ..._cancel_error
  job,      \* the operation under way, and its script
  mishaps

renewalVars == <<current, taken, renews, stopped, late, record, job, mishaps>>

Subs == 1..MaxSubscriptions
NoJob == [kind |-> "none", at |-> "idle", lite |-> 0, found |-> 0]
Blank == [cancelled |-> 0, since |-> FALSE, fresh |-> FALSE, error |-> FALSE]

RenewalInit ==
  /\ current = 1 /\ taken = 1 /\ renews = TRUE
  /\ stopped = {}
  /\ late = 0
  /\ record = Blank
  /\ job = NoJob
  /\ mishaps = 0

Mishap == mishaps < MaxMishaps /\ mishaps' = mishaps + 1

-----------------------------------------------------------------------------
(* The provider and the owner. *)

OwnerResumes ==
  /\ Mishap /\ current # 0 /\ ~renews
  /\ renews' = TRUE
  /\ UNCHANGED <<current, taken, stopped, late, record, job>>

(* Stopped, or not paid. *)
PeriodEnds ==
  /\ current # 0
  /\ current' = 0
  /\ UNCHANGED <<taken, renews, stopped, late, record, job, mishaps>>

OwnerSubscribes ==
  /\ current = 0 /\ taken < MaxSubscriptions
  /\ taken' = taken + 1 /\ current' = taken + 1 /\ renews' = TRUE
  /\ UNCHANGED <<stopped, late, record, job, mishaps>>

Stopping(s) ==
  /\ stopped' = stopped \cup {s}
  /\ renews' = (renews /\ s # current)

OwnerStops ==
  /\ current # 0 /\ renews
  /\ Stopping(current)
  /\ UNCHANGED <<current, taken, late, record, job, mishaps>>

(* What a killed script had sent arrives, or never does. *)
LateArrives ==
  /\ late # 0
  /\ late' = 0
  /\ Stopping(late) \/ UNCHANGED <<stopped, renews>>
  /\ UNCHANGED <<current, taken, record, job, mishaps>>

DayPasses ==
  /\ record.fresh
  /\ record' = [record EXCEPT !.fresh = FALSE]
  /\ UNCHANGED <<current, taken, renews, stopped, late, job, mishaps>>

-----------------------------------------------------------------------------
(* The operations. *)

RefreshBegins ==
  /\ job = NoJob
  /\ job' = [NoJob EXCEPT !.kind = "refresh", !.at = "page"]
  /\ UNCHANGED <<current, taken, renews, stopped, late, record, mishaps>>

Button ==
  /\ job = NoJob
  /\ job' = [NoJob EXCEPT !.kind = "button", !.at = "go"]
  /\ UNCHANGED <<current, taken, renews, stopped, late, record, mishaps>>

(* Faulty variant: what was cancelled once is never looked at again. *)
ChecksOnce(lite) == record.cancelled # lite \/ ~record.since

ShouldCheck(lite) ==
  \/ record.cancelled # lite
  \/ ~record.since
  \/ ~record.fresh

(* The page names the subscription.  A refresh that fails stores no column *)
(* of this group.                                                          *)
ReadPage ==
  /\ job.at = "page"
  /\ \/ Mishap /\ job' = NoJob
     \/ /\ job' = [job EXCEPT !.lite = current,
                              !.at = IF current # 0 /\ ShouldCheck(current) THEN "go" ELSE "keep"]
        /\ UNCHANGED mishaps
  /\ UNCHANGED <<current, taken, renews, stopped, late, record>>

(* The columns of another subscription than the page's are reset. *)
Reset == IF job.lite # 0 /\ record.cancelled \notin {0, job.lite} THEN Blank ELSE record

Keep ==
  /\ job.at = "keep"
  /\ record' = Reset
  /\ job' = NoJob
  /\ UNCHANGED <<current, taken, renews, stopped, late, mishaps>>

-----------------------------------------------------------------------------
(* The script. *)

(* Its go page, the portal session and the portal page. *)
FindPortal ==
  /\ job.at = "go"
  /\ \/ Mishap /\ job' = [job EXCEPT !.at = "failed"]
     \/ job' = [job EXCEPT !.at = IF current = 0 THEN "failed" ELSE "status"] /\ UNCHANGED mishaps
  /\ UNCHANGED <<current, taken, renews, stopped, late, record>>

Status ==
  /\ job.at = "status"
  /\ \/ Mishap /\ job' = [job EXCEPT !.at = "failed"]
     \/ /\ job' = IF current = 0 THEN [job EXCEPT !.at = "failed"]
                  ELSE [job EXCEPT !.found = current,
                                   !.at = IF renews THEN "cancel" ELSE "done"]
        /\ UNCHANGED mishaps
  /\ UNCHANGED <<current, taken, renews, stopped, late, record>>

(* The cancellation: answered, refused, or applied without an answer. *)
Cancel ==
  /\ job.at = "cancel"
  /\ \/ Stopping(job.found) /\ job' = [job EXCEPT !.at = "verify"] /\ UNCHANGED mishaps
     \/ /\ Mishap
        /\ Stopping(job.found) \/ UNCHANGED <<stopped, renews>>
        /\ job' = [job EXCEPT !.at = "failed"]
  /\ UNCHANGED <<current, taken, late, record>>

(* The status once more, a second later; "submitted but not changed" fails. *)
Verify ==
  /\ job.at = "verify"
  /\ \/ Mishap /\ job' = [job EXCEPT !.at = "failed"]
     \/ /\ job' = IF current = 0 \/ renews THEN [job EXCEPT !.at = "failed"]
                  ELSE [job EXCEPT !.found = current, !.at = "done"]
        /\ UNCHANGED mishaps
  /\ UNCHANGED <<current, taken, renews, stopped, late, record>>

(* runScript's timer fires before the script has ended: it is killed, and  *)
(* what it prints or has sent is not waited for.                           *)
Kill ==
  /\ Mishap
  /\ job.at \in {"go", "status", "cancel", "verify", "done"}
  /\ late' = IF job.at = "cancel" /\ late = 0 THEN job.found ELSE late
  /\ job' = [job EXCEPT !.at = "failed"]
  /\ UNCHANGED <<current, taken, renews, stopped, record>>

-----------------------------------------------------------------------------
(* The result. *)

\* Faulty variant: the subscription of the page is taken for the cancelled one.
OfPage == IF job.lite # 0 THEN job.lite ELSE job.found

(* A refresh takes the page's if the script names none (accounts.ts:620), *)
(* where the button fails; it always names one.                           *)
OfScript == IF job.found # 0 THEN job.found ELSE job.lite

(* The button goes on with a refresh. *)
Succeed ==
  /\ job.at = "done"
  /\ record' = [cancelled |-> OfScript, since |-> TRUE, fresh |-> TRUE, error |-> FALSE]
  /\ job' = IF job.kind = "button" THEN [NoJob EXCEPT !.kind = "refresh", !.at = "page"] ELSE NoJob
  /\ UNCHANGED <<current, taken, renews, stopped, late, mishaps>>

(* Only the button counts a failure as a check. *)
Fail ==
  /\ job.at = "failed"
  /\ record' = [cancelled |-> 0, since |-> FALSE, error |-> TRUE,
                fresh |-> IF job.kind = "button" THEN TRUE ELSE Reset.fresh]
  /\ job' = NoJob
  /\ UNCHANGED <<current, taken, renews, stopped, late, mishaps>>

JobWorks ==
  \/ ReadPage \/ Keep
  \/ FindPortal \/ Status \/ Cancel \/ Verify
  \/ Succeed \/ Fail

RenewalNext ==
  \/ OwnerResumes \/ OwnerStops \/ PeriodEnds \/ OwnerSubscribes
  \/ LateArrives \/ DayPasses
  \/ RefreshBegins \/ Button
  \/ JobWorks
  \/ Kill

(* Scheduled refreshes come back, operations go on, and days pass. *)
RenewalFairness ==
  /\ WF_renewalVars(JobWorks)
  /\ WF_renewalVars(RefreshBegins)
  /\ WF_renewalVars(DayPasses)
  /\ WF_renewalVars(LateArrives)

RenewalSpec == RenewalInit /\ [][RenewalNext]_renewalVars /\ RenewalFairness

-----------------------------------------------------------------------------
Stages == {"idle", "page", "keep", "go", "status", "cancel", "verify", "done", "failed"}
Jobs == [kind : {"none", "refresh", "button"}, at : Stages, lite : Nat, found : Nat]

RenewalTypeOK ==
  /\ current \in Nat /\ taken \in Nat
  /\ renews \in BOOLEAN
  /\ late \in Nat
  /\ record \in [cancelled : Nat, since : BOOLEAN, fresh : BOOLEAN, error : BOOLEAN]
  /\ job \in Jobs
  /\ mishaps \in Nat

(* A subscription that does not renew itself was stopped, and so was the    *)
(* one that the script is about to report: it names one.                    *)
StoppedIsKnown ==
  /\ current # 0 /\ ~renews => current \in stopped
  /\ job.at = "done" => job.found # 0 /\ job.found \in stopped

(* A subscription that the row calls cancelled has been cancelled at the    *)
(* provider, whatever the script was doing when it failed or was killed     *)
(* (cancel-autorenew.ts:58, accounts.ts:611-634).                           *)
RecordIsTrue ==
  record.cancelled # 0 => record.cancelled \in stopped

(* In the end no subscription renews itself, although scripts are killed,  *)
(* answers are lost, the owner resumes a renewal or subscribes anew        *)
(* (accounts.ts:599-610).                                                  *)
RenewalStops == <>[](current # 0 => ~renews)
=============================================================================
