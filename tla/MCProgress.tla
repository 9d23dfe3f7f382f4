----------------------------- MODULE MCProgress -----------------------------
(* What goes on until it is done, on small instances: the callers of the   *)
(* pool's workers (ProxyWorkerPool), its controller (AdaptiveWorkers), the *)
(* proxied requests (ProxyRequest), and what the operations of an account  *)
(* change at the provider (ChineseModels, Renewal), and the panel's list of *)
(* accounts (AccountsPanel).  They share no state, so one run explores them *)
(* side by side: `part` names the one that moves.                           *)
EXTENDS ProxyWorkerPool, ProxyRequest, AdaptiveWorkers, Renewal
CONSTANTS r1, r2, r3, r4

VARIABLES
    part,
    setting, flag, chain, stage, shown, trouble,
    rows, listed, fetches, work, rowBar, batchBar, batch, delayed, visible, events

modelVars == <<setting, flag, chain, stage, shown, trouble>>
panelVars == <<rows, listed, fetches, work, rowBar, batchBar, batch, delayed, visible, events>>

\* Four callers, two workers at most and a line of two.
MCRequests == {r1, r2, r3, r4}

\* Two calls, one worker, one slot.
MCConnections == {r1, r2}

Models == INSTANCE ChineseModels WITH MaxChain <- 2, MaxTrouble <- 2

\* One account, and two clicks, failures or changes by others.
Panel == INSTANCE AccountsPanel
            WITH Accounts <- {1}, Workers <- 1, MaxEvents <- 2, shown <- listed

MCInit ==
    /\ part \in {"pool", "request", "adaptive", "models", "renewal", "panel"}
    /\ Init
    /\ RequestInit
    /\ AdaptiveInit
    /\ part # "models" => setting = FALSE
    /\ Models!ModelsInit
    /\ RenewalInit
    /\ Panel!PanelInit

\* Part p moves and no other.
Only(p) ==
    /\ part = p /\ UNCHANGED part
    /\ p # "pool" => UNCHANGED vars
    /\ p # "request" => UNCHANGED requestVars
    /\ p # "adaptive" => UNCHANGED adaptiveVars
    /\ p # "models" => UNCHANGED modelVars
    /\ p # "renewal" => UNCHANGED renewalVars
    /\ p # "panel" => UNCHANGED panelVars

MCNext ==
    \/ Only("pool") /\ Next
    \/ Only("request") /\ RequestNext
    \/ Only("adaptive") /\ AdaptiveNext
    \/ Only("models") /\ Models!ModelsNext
    \/ Only("renewal") /\ RenewalNext
    \/ Only("panel") /\ Panel!PanelNext

\* The fairness of each part, which is asked of it only where it moves.  What is
\* not enabled in the initial state of its part needs no guard.
MCFairness ==
    /\ Fairness
    /\ RequestFairness
    /\ WF_adaptiveVars(part = "adaptive" /\ Sample)
    /\ WF_modelVars(Models!Work)
    /\ WF_modelVars(part = "models" /\ Models!Ask("refresh"))
    /\ WF_renewalVars(JobWorks)
    /\ WF_renewalVars(part = "renewal" /\ RefreshBegins)
    /\ WF_renewalVars(DayPasses)
    /\ WF_renewalVars(LateArrives)
    /\ WF_panelVars(Panel!ListStep)
    /\ WF_panelVars(Panel!WorkStep)
    /\ WF_panelVars(Panel!PollStep)
    /\ WF_panelVars(Panel!BatchStep)
    /\ WF_panelVars(part = "panel" /\ Panel!Tick)
    /\ WF_panelVars(Panel!Delayed)

MCSpec ==
    /\ MCInit
    /\ [][MCNext]_<<part, vars, requestVars, adaptiveVars, modelVars, renewalVars, panelVars>>
    /\ MCFairness

-----------------------------------------------------------------------------
(* The properties of the parts.                                            *)

StoredBecomesTrue == Models!StoredBecomesTrue
\* Where the renewal is the part that moves.
RenewalStopsHere == part = "renewal" => RenewalStops
PanelCatchesUp == Panel!PanelCatchesUp
=============================================================================
