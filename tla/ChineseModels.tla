---------------------------- MODULE ChineseModels ----------------------------
(***************************************************************************)
(* One member account's switch for chinese models: the setting at the       *)
(* provider, what the account's row says of it, and the operations that     *)
(* read or change it (src/server/utils/accounts.ts,                         *)
(* opencode-chinese-models.ts).  They wait for each other in the account's  *)
(* chain.  The account has a workspace and an active subscription, and      *)
(* AUTO_ENABLE_CHINESE_MODELS has its default.                              *)
(***************************************************************************)
EXTENDS Naturals, Sequences

CONSTANTS MaxChain,   \* bound: operations in the chain
          MaxTrouble  \* bound: failures, restarts and changes on the website

VARIABLES
  setting,  \* the provider's switch
  flag,     \* the chinese_models_* columns; "due": not checked for an hour
  chain,    \* operations of the account, the first one under way
  stage,    \* where that one is
  shown,    \* the setting that it has read
  trouble   \* how much has gone wrong

modelsVars == <<setting, flag, chain, stage, shown, trouble>>

UserOps == {"enable", "turnOn", "turnOff", "sync"}
Toggles == {"enable", "turnOn", "turnOff"}
Target(op) == op # "turnOff"

ModelsInit ==
  /\ setting \in BOOLEAN
  /\ flag = [on |-> FALSE, manualOff |-> FALSE, error |-> FALSE, due |-> TRUE]
  /\ chain = <<>>
  /\ stage = "idle"
  /\ shown = FALSE
  /\ trouble = 0

Troubled == trouble < MaxTrouble /\ trouble' = trouble + 1

-----------------------------------------------------------------------------
(* An operation joins the chain; refreshes share the one that is there and *)
(* are not bounded.                                                        *)
Ask(op) ==
  /\ op # "refresh" => Len(chain) < MaxChain
  /\ op = "refresh" => \A i \in DOMAIN chain : chain[i] # "refresh"
  /\ chain' = Append(chain, op)
  /\ UNCHANGED <<setting, flag, stage, shown, trouble>>

(* New credentials for the row: another account, with its own setting. *)
AskToReplace == Troubled /\ Len(chain) < MaxChain /\ chain' = Append(chain, "replace")
                /\ UNCHANGED <<setting, flag, stage, shown>>

Begin ==
  /\ stage = "idle" /\ chain # <<>> /\ Head(chain) # "replace"
  /\ stage' = IF Head(chain) \in Toggles THEN "load" ELSE "read"
  /\ UNCHANGED <<setting, flag, chain, shown, trouble>>

Finish(saved) ==
  /\ flag' = saved
  /\ stage' = "idle"
  /\ chain' = Tail(chain)
  /\ UNCHANGED shown

Toggled(op) ==
  [flag EXCEPT !.on = Target(op), !.error = FALSE, !.due = FALSE, !.manualOff = ~Target(op)]

(* The columns after a toggle that failed, or failed to be confirmed. *)
Failed(op) ==
  [flag EXCEPT !.error = TRUE, !.due = FALSE, !.manualOff = @ /\ op # "turnOn"]

Reload(next) ==
  \/ Troubled /\ Finish(Failed(Head(chain))) /\ UNCHANGED setting
  \/ setting = Target(Head(chain)) /\ Finish(Toggled(Head(chain))) /\ UNCHANGED <<setting, trouble>>
  \/ next

(* The form of the workspace page: already as wanted, or to be posted. *)
Load ==
  /\ stage = "load"
  /\ Reload(/\ setting # Target(Head(chain))
            /\ stage' = "post" /\ shown' = setting
            /\ UNCHANGED <<setting, flag, chain, trouble>>)

(* The action takes the current value and stores its opposite.  It may be   *)
(* applied although its answer is lost.                                     *)
Post ==
  /\ stage = "post"
  /\ \/ /\ setting' = ~shown /\ stage' = "confirm"
        /\ UNCHANGED <<flag, chain, shown, trouble>>
     \/ /\ Troubled
        /\ setting' \in {setting, ~shown}
        /\ Finish(Failed(Head(chain)))

(* Polled for a minute; somebody may have switched it back. *)
Confirm ==
  /\ stage = "confirm"
  /\ Reload(/\ setting # Target(Head(chain))
            /\ Finish(Failed(Head(chain)))
            /\ UNCHANGED <<setting, trouble>>)

-----------------------------------------------------------------------------
(* The refresh and the synchronisation read the region list of the page,   *)
(* which a page of another version may not show.                            *)
Read ==
  /\ stage = "read"
  /\ \/ stage' = "saveShown" /\ shown' = setting /\ UNCHANGED <<flag, chain, trouble>>
     \/ Troubled /\ stage' = "saveHidden" /\ UNCHANGED <<flag, chain, shown>>
     \/ /\ Troubled
        /\ Finish(IF Head(chain) = "sync" THEN [flag EXCEPT !.error = TRUE, !.due = FALSE]
                  ELSE flag)
  /\ UNCHANGED setting

\* Faulty variant: the flag that the page shows is not stored.
ErrorCleared == [flag EXCEPT !.error = FALSE, !.due = FALSE]

AsShown == [flag EXCEPT !.on = shown, !.error = FALSE, !.due = FALSE]

AsRead(op) ==
  IF stage = "saveShown" THEN AsShown
  ELSE IF op = "sync" THEN [flag EXCEPT !.error = TRUE, !.due = FALSE]
  ELSE flag

(* autoEnableChineseModelsForAccount, on the row that the refresh saved. *)
AutoEnables(saved) ==
  /\ ~saved.on /\ ~saved.manualOff
  /\ saved.due \/ saved.error

(* The enabling that a refresh leaves behind joins the end of the chain. *)
Save ==
  /\ stage \in {"saveShown", "saveHidden"}
  /\ LET op == Head(chain)
         saved == AsRead(op)
     IN  /\ flag' = saved
         /\ chain' = IF op = "refresh" /\ AutoEnables(saved) THEN Append(Tail(chain), "enable")
                     ELSE Tail(chain)
  /\ stage' = "idle"
  /\ UNCHANGED <<setting, shown, trouble>>

(* accountCredentialResetState keeps what the operator wanted. *)
Replace ==
  /\ stage = "idle" /\ chain # <<>> /\ Head(chain) = "replace"
  /\ setting' \in BOOLEAN
  /\ Finish([flag EXCEPT !.on = FALSE, !.error = FALSE, !.due = TRUE])
  /\ UNCHANGED trouble

-----------------------------------------------------------------------------
(* An hour passes since the columns were checked. *)
HourPasses ==
  /\ ~flag.due
  /\ flag' = [flag EXCEPT !.due = TRUE]
  /\ UNCHANGED <<setting, chain, stage, shown, trouble>>

(* The owner of the account uses the provider's page. *)
Website ==
  /\ Troubled
  /\ setting' = ~setting
  /\ UNCHANGED <<flag, chain, stage, shown>>

(* The process stops: the chain is in memory. *)
Restart ==
  /\ Troubled
  /\ chain' = <<>>
  /\ stage' = "idle"
  /\ UNCHANGED <<setting, flag, shown>>

Work == Begin \/ Load \/ Post \/ Confirm \/ Read \/ Save \/ Replace

ModelsNext ==
  \/ \E op \in UserOps \cup {"refresh"} : Ask(op)
  \/ AskToReplace
  \/ Work
  \/ HourPasses \/ Website \/ Restart

(* The chain goes on, and the scheduled task comes back to the account. *)
ModelsFairness ==
  /\ WF_modelsVars(Work)
  /\ WF_modelsVars(Ask("refresh"))

-----------------------------------------------------------------------------
(* Answers that were lost, restarts and changes on the website leave the    *)
(* row wrong for a while, but the refreshes bring the switch that the panel *)
(* shows back to the provider's (accounts.ts:706-712).                      *)
StoredBecomesTrue ==
  <>[](stage = "idle" => flag.on = setting)

(* "首次同步后自动开启中国模型" (README.md:178), and the next refresh tries   *)
(* again after a failure (accounts.ts:409-410): a member account on which   *)
(* the user never turned chinese models off gets them.                      *)
ModelsGetEnabled ==
  (\A i \in DOMAIN chain : chain[i] # "turnOff") /\ ~flag.manualOff
    ~> setting \/ flag.manualOff \/ \E i \in DOMAIN chain : chain[i] = "turnOff"
=============================================================================
