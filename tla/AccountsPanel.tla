---------------------------- MODULE AccountsPanel ----------------------------
(***************************************************************************)
(* The accounts page of the web panel (src/app/pages/accounts.vue) with the *)
(* list of accounts that it shares (src/app/composables/useAccounts.ts):    *)
(* what its buttons do while the list is fetched, polled for progress and   *)
(* refreshed by a timer.  Rows and the list hold the version of each        *)
(* account.  The statistics are fetched beside the list in the same way.    *)
(***************************************************************************)
EXTENDS Naturals, FiniteSets

CONSTANTS Accounts,
          Workers,   \* accounts of a batch that are worked on at once
          MaxEvents  \* bound: clicks, changes by others and failures

VARIABLES
  rows,     \* the accounts at the server
  shown,    \* accounts.value
  fetches,  \* requests of the list under way
  work,     \* the handlers of single accounts and of a batch
  rowBar,   \* singleRefreshProgress is shown
  batchBar, \* batchProgress is shown
  batch,    \* the batch, and the accounts that no worker has taken
  delayed,  \* listsRefreshTimer is set
  visible,  \* the tab is in the foreground
  events

panelVars == <<rows, shown, fetches, work, rowBar, batchBar, batch, delayed, visible, events>>

\* "row": the refresh of one account; "models": its switch for chinese models;
\* "edit": the other buttons of a row; "import": an account that is added, or a
\* reward that is used; "batch": one account of a batch.
Works == {"row", "models", "edit", "import", "batch"} \X Accounts
Page == <<"page">>
Batch == <<"batch">>
Added == <<"added">>
NoList == [a \in Accounts |-> 0]
NoWork == [at |-> "idle", poll |-> "off", result |-> 0]

PanelInit ==
  /\ rows = [a \in Accounts |-> 1]
  /\ shown = rows
  /\ fetches = {}
  /\ work = [w \in Works |-> NoWork]
  /\ rowBar = FALSE /\ batchBar = FALSE
  /\ batch = [at |-> "idle", todo |-> {}]
  /\ delayed = FALSE
  /\ visible = TRUE
  /\ events = 0

Event == events < MaxEvents /\ events' = events + 1

-----------------------------------------------------------------------------
(* fetchAccounts.  The page's own are silent; the others keep `loading` set *)
(* until they are answered.  An answer counts if no later request was sent: *)
(* a silent one that has been overtaken is left out.                        *)

Fetch(who) ==
  fetches' = {[f EXCEPT !.latest = FALSE, !.read = TRUE, !.seen = NoList] :
                f \in {g \in fetches : g.of # Page}}
             \cup {[of |-> who, latest |-> TRUE, read |-> FALSE, seen |-> NoList]}

Loading == \E f \in fetches : f.of # Page

ServerReads(f) ==
  /\ f \in fetches /\ ~f.read
  /\ fetches' = (fetches \ {f}) \cup {[f EXCEPT !.read = TRUE, !.seen = rows]}
  /\ UNCHANGED <<rows, shown, work, rowBar, batchBar, batch, delayed, visible, events>>

(* Whoever waits for the list goes on; a batch is over, and only some of    *)
(* the batches set the timer.                                               *)
GoesOn(f) ==
  /\ fetches' = fetches \ {f}
  /\ work' = IF f.of \in Works THEN [work EXCEPT ![f.of].at = "drain"] ELSE work
  /\ IF f.of = Batch
     THEN batch' = [batch EXCEPT !.at = "idle"] /\ batchBar' = FALSE /\ delayed' \in {delayed, TRUE}
     ELSE UNCHANGED <<batch, batchBar, delayed>>
  /\ UNCHANGED <<rows, rowBar, visible>>

Answer(f) ==
  /\ f \in fetches /\ f.read
  /\ shown' = IF f.latest THEN f.seen ELSE shown
  /\ GoesOn(f)
  /\ UNCHANGED events

FetchFails(f) ==
  /\ f \in fetches
  /\ Event
  /\ GoesOn(f)
  /\ UNCHANGED shown

-----------------------------------------------------------------------------
(* onRefresh with refreshAccount; the other buttons, which poll nothing.    *)
(* Enabling an account is both, one after the other.                        *)

ClickRefresh(a) ==
  /\ work[<<"row", a>>].at = "idle"
  /\ Event
  /\ work' = [work EXCEPT ![<<"row", a>>] = [NoWork EXCEPT !.at = "post", !.poll = "asked"]]
  /\ rowBar' = FALSE
  /\ UNCHANGED <<rows, shown, fetches, batchBar, batch, delayed, visible>>

ClickEdit(a) ==
  /\ Event
  /\ \E button \in {"edit", "models"} :
       /\ work[<<button, a>>].at = "idle"
       /\ work' = [work EXCEPT ![<<button, a>>].at = "post"]
  /\ UNCHANGED <<rows, shown, fetches, rowBar, batchBar, batch, delayed, visible>>

(* onAdd with addAccounts, whose own progress does not stop the timer;      *)
(* useReferralReward, which polls nothing.                                  *)
ClickAdd(a) ==
  /\ work[<<"import", a>>].at = "idle"
  /\ Event
  /\ \E poll \in {"asked", "off"} :
       work' = [work EXCEPT ![<<"import", a>>] = [NoWork EXCEPT !.at = "post", !.poll = poll]]
  /\ UNCHANGED <<rows, shown, fetches, rowBar, batchBar, batch, delayed, visible>>

(* The server carries the operation out, and answers with the account. *)
Serve(w) ==
  /\ work[w].at = "post"
  /\ rows' = [rows EXCEPT ![w[2]] = @ + 1]
  /\ work' = [work EXCEPT ![w].at = "reply", ![w].result = rows'[w[2]]]
  /\ UNCHANGED <<shown, fetches, rowBar, batchBar, batch, delayed, visible, events>>

(* The rows' buttons fetch the list and wait for it; the switch for chinese *)
(* models puts its account into the list and fetches nothing                *)
(* (onEnableChineseModels); an import, like the use of a reward, does both  *)
(* and does not wait; a batch fetches at its end.                           *)
Shows(w) ==
  /\ work' = [work EXCEPT ![w].at = "drain", ![w].result = 0]
  /\ shown' = [shown EXCEPT ![w[2]] = work[w].result]

Reply(w) ==
  /\ work[w].at = "reply"
  /\ \/ /\ w[1] = "batch"
        /\ work' = [work EXCEPT ![w].at = "drain"]
        /\ UNCHANGED <<shown, fetches>>
     \/ w[1] = "models" /\ Shows(w) /\ UNCHANGED fetches
     \/ w[1] = "import" /\ Shows(w) /\ Fetch(Added)
     \/ /\ w[1] \in {"row", "edit"}
        /\ work' = [work EXCEPT ![w].at = "lists", ![w].result = 0]
        /\ Fetch(w)
        /\ UNCHANGED shown
  /\ UNCHANGED <<rows, rowBar, batchBar, batch, delayed, visible, events>>

RequestFails(w) ==
  /\ work[w].at \in {"post", "reply"}
  /\ Event
  /\ work' = [work EXCEPT ![w].at = "drain", ![w].result = 0]
  /\ UNCHANGED <<rows, shown, fetches, rowBar, batchBar, batch, delayed, visible>>

\* Faulty variant: the poll under way is not waited for.
PollForgotten(w) == TRUE

PollEnded(w) == work[w].poll = "off"

(* The finally of refreshAccount, then its caller: a batch puts the account *)
(* it got into the list (applyAccount).                                     *)
Drained(w) ==
  /\ work[w].at = "drain" /\ PollEnded(w)
  /\ work' = [work EXCEPT ![w].at = "idle", ![w].result = 0]
  /\ shown' = IF work[w].result # 0 THEN [shown EXCEPT ![w[2]] = work[w].result] ELSE shown
  /\ rowBar' = (rowBar /\ w[1] # "row")
  /\ delayed' = (delayed \/ w[1] = "row")
  /\ batchBar' = (batchBar \/ w[1] = "batch")
  /\ UNCHANGED <<rows, fetches, batch, visible, events>>

-----------------------------------------------------------------------------
(* pollProgress: asked, answered and asleep by turns, until `polling` is    *)
(* found to be false.                                                       *)

Polls(w, next) ==
  work' = [work EXCEPT ![w].poll = IF work[w].at \in {"post", "reply", "lists"} THEN next ELSE "off"]

PollAnswers(w) ==
  /\ work[w].poll = "asked"
  /\ Polls(w, "asleep")
  /\ rowBar' \in {rowBar, rowBar \/ w[1] = "row"}
  /\ batchBar' \in {batchBar, batchBar \/ w[1] = "batch"}
  /\ UNCHANGED <<rows, shown, fetches, batch, delayed, visible, events>>

PollWakes(w) ==
  /\ work[w].poll = "asleep"
  /\ Polls(w, "asked")
  /\ UNCHANGED <<rows, shown, fetches, rowBar, batchBar, batch, delayed, visible, events>>

-----------------------------------------------------------------------------
(* runAccountBatch *)

ClickBatch ==
  /\ batch.at = "idle" /\ ~batchBar
  /\ Event
  /\ \E todo \in SUBSET Accounts \ {{}} : batch' = [at |-> "running", todo |-> todo]
  /\ batchBar' = TRUE
  /\ UNCHANGED <<rows, shown, fetches, work, rowBar, delayed, visible>>

Working == {a \in Accounts : work[<<"batch", a>>].at # "idle"}

(* A worker takes the next account; only some actions poll. *)
BatchTakes ==
  /\ Cardinality(Working) < Workers
  /\ \E a \in batch.todo, poll \in {"asked", "off"} :
       /\ batch' = [batch EXCEPT !.todo = @ \ {a}]
       /\ work' = [work EXCEPT ![<<"batch", a>>] = [NoWork EXCEPT !.at = "post", !.poll = poll]]
  /\ UNCHANGED <<rows, shown, fetches, rowBar, batchBar, delayed, visible, events>>

BatchLists ==
  /\ batch.at = "running" /\ batch.todo = {} /\ Working = {}
  /\ batch' = [batch EXCEPT !.at = "lists"]
  /\ Fetch(Batch)
  /\ UNCHANGED <<rows, shown, work, rowBar, batchBar, delayed, visible, events>>

-----------------------------------------------------------------------------
(* The page. *)

(* The interval.  Assumption: a silent request is answered within 30 s.     *)
Tick ==
  /\ visible /\ ~Loading /\ ~rowBar /\ ~batchBar
  /\ \A f \in fetches : f.of # Page
  /\ Fetch(Page)
  /\ UNCHANGED <<rows, shown, work, rowBar, batchBar, batch, delayed, visible, events>>

Delayed ==
  /\ delayed
  /\ delayed' = FALSE
  /\ Fetch(Page)
  /\ UNCHANGED <<rows, shown, work, rowBar, batchBar, batch, visible, events>>

VisibilityChange ==
  /\ visible' = ~visible
  /\ IF visible THEN UNCHANGED fetches ELSE Fetch(Page)
  /\ UNCHANGED <<rows, shown, work, rowBar, batchBar, batch, delayed, events>>

(* The scheduled refreshes and other panels. *)
Others(a) ==
  /\ Event
  /\ rows' = [rows EXCEPT ![a] = @ + 1]
  /\ UNCHANGED <<shown, fetches, work, rowBar, batchBar, batch, delayed, visible>>

ListStep == \E f \in fetches : ServerReads(f) \/ Answer(f)
WorkStep == \E w \in Works : Serve(w) \/ Reply(w) \/ Drained(w)
PollStep == \E w \in Works : PollAnswers(w) \/ PollWakes(w)
BatchStep == BatchTakes \/ BatchLists

PanelNext ==
  \/ ListStep
  \/ \E f \in fetches : FetchFails(f)
  \/ \E a \in Accounts : ClickRefresh(a) \/ ClickEdit(a) \/ ClickAdd(a) \/ Others(a)
  \/ WorkStep \/ PollStep
  \/ \E w \in Works : RequestFails(w)
  \/ ClickBatch \/ BatchStep
  \/ Tick \/ Delayed \/ VisibilityChange

(* Requests are answered or fail, and timers fire. *)
PanelFairness ==
  /\ WF_panelVars(ListStep)
  /\ WF_panelVars(WorkStep) /\ WF_panelVars(PollStep)
  /\ WF_panelVars(BatchStep)
  /\ WF_panelVars(Tick)
  /\ WF_panelVars(Delayed)

PanelSpec == PanelInit /\ [][PanelNext]_panelVars /\ PanelFairness

-----------------------------------------------------------------------------
(* A page in the foreground comes to show every account as it is, whatever  *)
(* answers overtake each other or are lost: no progress bar and no pending  *)
(* request is left behind to stop the timer that catches up                 *)
(* (accounts.vue:183-193, useAccounts.ts:183-198 and 348-355).              *)
PanelCatchesUp ==
  \A a \in Accounts : ~<>[](visible /\ shown[a] # rows[a])
=============================================================================
