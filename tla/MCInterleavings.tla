-------------------------- MODULE MCInterleavings ---------------------------
(* What the models that are checked for safety alone keep whatever order   *)
(* their steps come in, on small instances: the locks of the operations    *)
(* (OperationLocks), the transports (TunnelFetch, ShadowsocksStream), the *)
(* plan of the proxy nodes (IpPlan),                                       *)
(* their lists (Subscriptions), the account pages (WorkspacePages) and the *)
(* reports of progress (ProgressReports).                                  *)
(* They share no state, so one run explores them side by side: `part`      *)
(* names the one that moves.                                               *)
EXTENDS OperationLocks, ProgressReports, TunnelFetch, ShadowsocksStream, IpPlan,
        Subscriptions, WorkspacePages, TLC
CONSTANTS i1, i2, refresh1, settings, deletion, other, task, edit,
          uri1, uri2, f1, f2, l1, l2

VARIABLE part

\* A refresh, a settings change, two deletions, a task and an edit of the pool
\* of proxy nodes, in two instances.
TwoInstances == {i1, i2}
SafetyOps == {refresh1, settings, deletion, other, task, edit}
OneEach == {refresh1, deletion}
MCInstanceOf == [o \in Ops |-> IF o \in {deletion, edit} THEN i2 ELSE i1]
MCKindOf ==
    refresh1 :> "refresh" @@ settings :> "operation" @@ task :> "task"
    @@ edit :> "assignment" @@ deletion :> "deletion" @@ other :> "deletion"
MCKeysOf ==
    refresh1 :> {2} @@ settings :> {2} @@ task :> {1} @@ edit :> {4}
    @@ deletion :> {2, 3} @@ other :> {2, 3}

\* A body in three chunks, two of which split a CRLF or look like a header.
Response(framing, chunks) ==
    [framing |-> framing, chunks |-> chunks, redirects |-> FALSE, broken |-> FALSE]
SplitChunks == <<<<"x", "r", "n">>, <<"0", "r">>, <<"n">>>>
MCResponses ==
    {Response(f, SplitChunks) : f \in {"chunked", "length", "close"}}
    \cup {Response("none", <<>>), Response("length", <<>>),
          [Response("length", <<<<"x", "r">>>>) EXCEPT !.redirects = TRUE],
          [Response("chunked", SplitChunks) EXCEPT !.broken = TRUE]}

\* Two refreshes of one subscription; two accounts, one of which knows its
\* workspace.
MCRefreshers == {f1, f2}
MCUris == {uri1, uri2}
MCLoads == {l1, l2}
MCStored == {l1}

\* Those that do not move and may begin in several states stand at one.
MCInit ==
    /\ part \in {"locks", "tunnel", "cipher", "plan", "feeds", "pages", "reports"}
    /\ Init
    /\ part # "tunnel" =>
          /\ transport = "socks" /\ method = "GET" /\ policy = "follow"
          /\ response = Response("none", <<>>)
    /\ TunnelInit
    /\ StreamInit
    /\ part # "plan" => input = [bound |-> <<0, 0, 0>>, available |-> {},
                                 region |-> <<0, 0, 0>>, block |-> 1]
    /\ PlanInit
    /\ part # "feeds" => imported = {}
    /\ SubsInit
    /\ PagesInit
    /\ part # "reports" => kind = "import"
    /\ ReportsInit

\* Part p moves and no other.
Only(p) ==
    /\ part = p /\ UNCHANGED part
    /\ p # "locks" => UNCHANGED vars
    /\ p # "tunnel" => UNCHANGED tunnelVars
    /\ p # "cipher" => UNCHANGED streamVars
    /\ p # "plan" => UNCHANGED planVars
    /\ p # "feeds" => UNCHANGED subsVars
    /\ p # "pages" => UNCHANGED pagesVars
    /\ p # "reports" => UNCHANGED reportVars

MCNext ==
    \/ Only("locks") /\ Next
    \/ Only("tunnel") /\ TunnelNext
    \/ Only("cipher") /\ StreamNext
    \/ Only("plan") /\ PlanNext
    \/ Only("feeds") /\ SubsNext
    \/ Only("pages") /\ PagesNext
    \/ Only("reports") /\ ReportsNext

MCSpec ==
    MCInit /\ [][MCNext]_<<part, vars, tunnelVars, streamVars, planVars,
                           subsVars, pagesVars, reportVars>>

=============================================================================
