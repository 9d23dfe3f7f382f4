---------------------------- MODULE WorkspacePages ----------------------------
(***************************************************************************)
(* Loading an account's workspace page from the provider, with the route    *)
(* modules that name its server actions (src/server/utils/opencode.ts):     *)
(* retries, rediscovery of a workspace that moved, and the module cache     *)
(* that all accounts of the process share.                                  *)
(*                                                                         *)
(* JavaScript runs a continuation to its next await: `ready` holds what     *)
(* must run before anything else can happen.  Promises resume their         *)
(* waiters in the order in which they came.                                 *)
(***************************************************************************)
EXTENDS Naturals, Sequences

CONSTANTS Loads,     \* accounts whose page is loaded
          Stored,    \* those of them with a workspace id in their row
          Retries,   \* length of WORKSPACE_RETRY_DELAYS_MS
          MaxBuilds  \* bound: builds that the provider deploys

VARIABLES
  session, \* the provider accepts the account's cookie
  build,   \* the build that pages show
  load,    \* each account's load
  lookup,  \* the two searches for an action's id in each page
  objects, \* RouteModuleCache objects, oldest first
  cache,   \* routeModuleCache, an index of objects; 0: null
  ready    \* searches that run now, in order

pagesVars == <<session, build, load, lookup, objects, cache, ready>>

Lookups == Loads \X {"referral", "billing"}
None == 0     \* no modules: build numbers start at 1
Thrown == MaxBuilds + 1

PagesInit ==
  /\ session = [l \in Loads |-> TRUE]
  /\ build = 1
  /\ load = [l \in Loads |-> [at |-> "idle", stored |-> l \in Stored, attempt |-> 0, page |-> None]]
  /\ lookup = [c \in Lookups |-> [at |-> "idle", object |-> 0, own |-> FALSE, answer |-> None]]
  /\ objects = <<>>
  /\ cache = 0
  /\ ready = <<>>

Ended == {"info", "error", "expired", "thrown"}

-----------------------------------------------------------------------------
(* The page. *)

LoadGoes(l, stage) == load' = [load EXCEPT ![l].at = stage]

(* fetchOpenCodeAccount, with the workspace id of the row or without. *)
LoadStarts(l) ==
  /\ ready = <<>> /\ load[l].at = "idle"
  /\ LoadGoes(l, IF load[l].stored THEN "page" ELSE "auth")
  /\ UNCHANGED <<session, build, lookup, objects, cache, ready>>

(* shouldRediscoverCachedWorkspace: only for the stored id, and a status. *)
Unavailable(l) == IF load[l].stored THEN LoadGoes(l, "auth") ELSE LoadGoes(l, "error")

Again(l) == load' = [load EXCEPT ![l].attempt = @ + 1]

(* fetchWorkspacePage: 408, 429, 5xx and failures of the network are tried  *)
(* again; the last of them counts.                                          *)
PageFails(l) ==
  /\ ready = <<>> /\ load[l].at = "page"
  /\ \/ load[l].attempt < Retries /\ Again(l)
     \/ load[l].attempt = Retries /\ Unavailable(l)
     \/ load[l].attempt = Retries /\ LoadGoes(l, "error")
  /\ UNCHANGED <<session, build, lookup, objects, cache, ready>>

(* 404 and 410; another status, a page that cannot be parsed or another     *)
(* place than a workspace.                                                  *)
PageWrong(l) ==
  /\ ready = <<>> /\ load[l].at = "page"
  /\ Unavailable(l) \/ LoadGoes(l, "error")
  /\ UNCHANGED <<session, build, lookup, objects, cache, ready>>

(* 401, 403, or the login page. *)
PageRejects(l) ==
  /\ ready = <<>> /\ load[l].at = "page" /\ ~session[l]
  /\ LoadGoes(l, "expired")
  /\ UNCHANGED <<session, build, lookup, objects, cache, ready>>

(* A page with rewards wants the id of one action, one with a subscription  *)
(* that of another.                                                         *)
PageLoads(l) ==
  /\ ready = <<>> /\ load[l].at = "page" /\ session[l]
  /\ \E calls \in {<<>>, <<"referral">>, <<"billing">>, <<"referral", "billing">>} :
       LET wanted == {calls[i] : i \in DOMAIN calls}
       IN  /\ load' = [load EXCEPT ![l].page = build,
                                   ![l].at = IF wanted = {} THEN "info" ELSE "modules"]
           /\ lookup' = [c \in Lookups |->
                           IF c[1] = l /\ c[2] \in wanted THEN [lookup[c] EXCEPT !.at = "enter"]
                           ELSE lookup[c]]
           /\ ready' = [i \in DOMAIN calls |-> <<l, calls[i]>>]
  /\ UNCHANGED <<session, build, objects, cache>>

Found(l) == load' = [load EXCEPT ![l].at = "page", ![l].attempt = 0, ![l].stored = FALSE]

(* resolveWorkspaceId.  The redirect may name the id that has just failed:  *)
(* its error stands.  Whatever names none counts as a cookie that expired;  *)
(* a failure of the network is an error.                                    *)
Resolve(l) ==
  /\ ready = <<>> /\ load[l].at = "auth"
  /\ \/ session[l] /\ Found(l)
     \/ session[l] /\ load[l].stored /\ LoadGoes(l, "error")
     \/ LoadGoes(l, "expired")
     \/ LoadGoes(l, "error")
  /\ UNCHANGED <<session, build, lookup, objects, cache, ready>>

-----------------------------------------------------------------------------
(* loadOpenCodeRouteModules, up to its await. *)

Waits(c, o, own) ==
  lookup' = [lookup EXCEPT ![c].at = "await", ![c].object = o, ![c].own = own]

Answered(c, modules) ==
  LET after == [lookup EXCEPT ![c].at = "done", ![c].answer = modules]
      mine == {d \in Lookups : d[1] = c[1] /\ after[d].at # "idle"}
  IN  /\ lookup' = after
      /\ load' = IF \E d \in mine : after[d].at # "done" THEN load
                 ELSE [load EXCEPT ![c[1]].at = IF \E d \in mine : after[d].answer = Thrown
                                                THEN "thrown" ELSE "info"]

Enter(c) ==
  LET page == load[c[1]].page
  IN  /\ lookup[c].at = "enter"
      /\ IF cache # 0 /\ objects[cache].build = page
         THEN IF objects[cache].modules # None
              THEN Answered(c, objects[cache].modules) /\ UNCHANGED <<objects, cache>>
              ELSE /\ objects' = [objects EXCEPT ![cache].refreshing = TRUE,
                                                 ![cache].waiting = Append(@, c)]
                   /\ Waits(c, cache, FALSE)
                   /\ UNCHANGED <<cache, load>>
         ELSE /\ objects' = Append(objects, [build |-> page, modules |-> None, refreshing |-> TRUE,
                                             waiting |-> <<c>>, refreshed |-> FALSE])
              /\ cache' = Len(objects) + 1
              /\ Waits(c, Len(objects) + 1, TRUE)
              /\ UNCHANGED load

\* Faulty variant: a useless object takes whatever is in the cache with it.
GivesUpAnyway(o) == ~objects[o].refreshed

GivesUp(o) == ~objects[o].refreshed /\ cache = o

(* After it: whoever made the object returns its modules, and takes a       *)
(* useless one out of the cache; others look into the cache once more.      *)
Resume(c) ==
  LET o == lookup[c].object
  IN  /\ lookup[c].at = "await"
      /\ IF lookup[c].own
         THEN /\ Answered(c, objects[o].modules)
              /\ cache' = IF GivesUp(o) THEN 0 ELSE cache
         ELSE /\ Answered(c, IF cache = 0 THEN Thrown ELSE objects[cache].modules)
              /\ UNCHANGED cache
      /\ UNCHANGED objects

Run ==
  /\ ready # <<>>
  /\ Enter(Head(ready)) \/ Resume(Head(ready))
  /\ ready' = Tail(ready)
  /\ UNCHANGED <<session, build>>

(* A download ends: with some module, or with none, and then what there was *)
(* stays.  A module that fails counts as empty where it is fetched          *)
(* (opencode.ts:417-424), so the catch branch that would clear them         *)
(* (456-459) is never taken.                                                *)
ModulesSettle(o) ==
  /\ ready = <<>> /\ objects[o].refreshing
  /\ \E fetched \in BOOLEAN :
       objects' = [objects EXCEPT ![o].refreshing = FALSE, ![o].waiting = <<>>,
                                  ![o].refreshed = fetched,
                                  ![o].modules = IF fetched THEN objects[o].build ELSE @]
  /\ ready' = objects[o].waiting
  /\ UNCHANGED <<session, build, load, lookup, cache>>

(* The task, every 15 minutes. *)
Scheduled ==
  /\ ready = <<>> /\ cache # 0 /\ ~objects[cache].refreshing
  /\ objects' = [objects EXCEPT ![cache].refreshing = TRUE]
  /\ UNCHANGED <<session, build, load, lookup, cache, ready>>

-----------------------------------------------------------------------------
Deploy ==
  /\ ready = <<>> /\ build < MaxBuilds
  /\ build' = build + 1
  /\ UNCHANGED <<session, load, lookup, objects, cache, ready>>

SessionEnds(l) ==
  /\ ready = <<>> /\ session[l]
  /\ session' = [session EXCEPT ![l] = FALSE]
  /\ UNCHANGED <<build, load, lookup, objects, cache, ready>>

PageStep(l) ==
  \/ PageFails(l) \/ PageWrong(l) \/ PageRejects(l) \/ PageLoads(l) \/ Resolve(l)

PagesNext ==
  \/ \E l \in Loads : LoadStarts(l) \/ PageStep(l) \/ SessionEnds(l)
  \/ Run
  \/ \E o \in DOMAIN objects : ModulesSettle(o)
  \/ Scheduled \/ Deploy

-----------------------------------------------------------------------------
(* The modules that the cache offers go only when a page of another build   *)
(* asks for its own: never because a download failed, be it the scheduled   *)
(* one of their object or the first of an object that the cache has moved   *)
(* on from, whose caller finds out late (opencode.ts:405-408, 450-454).     *)
Offered == IF cache = 0 THEN None ELSE objects[cache].modules

CacheKeepsModules ==
  [][(Offered # None /\ Offered' # Offered) =>
       \E c \in Lookups : /\ lookup[c].at = "enter" /\ lookup'[c].at = "await"
                         /\ load[c[1]].page # Offered]_pagesVars

(* "OpenCode auth Cookie is no longer valid ... Please replace this         *)
(* account's Cookie value" (opencode.ts:46-47) is said of a cookie that the *)
(* provider does not accept.                                                *)
ExpiredMeansRejected ==
  \A l \in Loads : load[l].at = "expired" => ~session[l]

(* "如果请求成功且页面包含可解析的账号数据，返回结果" (docs/superpowers/specs/ *)
(* 2026-07-13-workspace-id-cache-design.md:22): a page that was loaded and  *)
(* parsed is the result, whether or not its modules could be fetched.       *)
ParsedPageIsReturned ==
  \A l \in Loads : load[l].at # "thrown"
=============================================================================
