---------------------------- MODULE Subscriptions ----------------------------
(***************************************************************************)
(* One proxy subscription (src/server/utils/proxy-subscriptions.ts): its    *)
(* cached list of nodes, which refreshes replace in a transaction, and the  *)
(* nodes of the pool imported from it.                                      *)
(*                                                                         *)
(* PostgreSQL runs these transactions at READ COMMITTED: a DELETE works on  *)
(* the rows committed when it begins, waits for the transactions that have  *)
(* deleted some of them, and then leaves out the rows that are gone.  It    *)
(* does not see the rows that those transactions have inserted.             *)
(***************************************************************************)
EXTENDS Naturals, Sequences

CONSTANTS Refreshers,  \* requests that refresh the subscription
          Uris,        \* node links that it may contain
          MaxFetches   \* bound: answers of the subscription's server

VARIABLES
  subscribed, \* the row of proxy_subscriptions exists
  content,    \* what each answer of the server contained
  listed,     \* committed rows of proxy_subscription_nodes
  refresh,    \* each request, and its transaction
  import,     \* the rows an import has read
  imported    \* uris of the pool

subsVars == <<subscribed, content, listed, refresh, import, imported>>

NoRefresh == [at |-> "idle", fetch |-> 0, seen |-> {}, doomed |-> {}, staged |-> {}]
NoImport == [at |-> "idle", rows |-> {}, existing |-> {}]

SubsInit ==
  /\ subscribed = TRUE
  /\ content = <<>>
  /\ listed = {}
  /\ refresh = [r \in Refreshers |-> NoRefresh]
  /\ import = NoImport
  /\ imported \in SUBSET Uris

RowsOf(k) == {[fetch |-> k, uri |-> u] : u \in content[k]}

-----------------------------------------------------------------------------
(* refreshProxySubscription, from the route or after the creation. *)
Fetch(r) ==
  /\ refresh[r].at = "idle" /\ subscribed
  /\ refresh' = [refresh EXCEPT ![r].at = "fetching"]
  /\ UNCHANGED <<subscribed, content, listed, import, imported>>

(* fetchSubscription: a list, never an empty one, or an error that the      *)
(* handler records.                                                         *)
Fetched(r) ==
  /\ refresh[r].at = "fetching"
  /\ \/ /\ Len(content) < MaxFetches
        /\ \E uris \in SUBSET Uris \ {{}} : content' = Append(content, uris)
        /\ refresh' = [refresh EXCEPT ![r].at = "begin", ![r].fetch = Len(content) + 1]
     \/ refresh' = [refresh EXCEPT ![r] = NoRefresh] /\ UNCHANGED content
  /\ UNCHANGED <<subscribed, listed, import, imported>>

(* BEGIN and the start of the DELETE, whose snapshot this is. *)
DeleteStarts(r) ==
  /\ refresh[r].at = "begin"
  /\ refresh' = [refresh EXCEPT ![r].at = "delete", ![r].seen = listed]
  /\ UNCHANGED <<subscribed, content, listed, import, imported>>

(* It waits while another transaction holds a row that it wants. *)
DeleteEnds(r) ==
  /\ refresh[r].at = "delete"
  /\ \A q \in Refreshers \ {r} : refresh[q].doomed \cap refresh[r].seen \cap listed = {}
  /\ refresh' = [refresh EXCEPT ![r].at = "insert",
                                ![r].doomed = refresh[r].seen \cap listed]
  /\ UNCHANGED <<subscribed, content, listed, import, imported>>

(* Faulty variant: the rows are inserted outside of the transaction. *)
InsertAtOnce(r) ==
  /\ refresh[r].at = "insert" /\ subscribed
  /\ \E row \in RowsOf(refresh[r].fetch) \ listed : listed' = listed \cup {row}
  /\ UNCHANGED <<subscribed, content, refresh, import, imported>>

Insert(r) ==
  /\ refresh[r].at = "insert" /\ subscribed
  /\ \E row \in RowsOf(refresh[r].fetch) \ refresh[r].staged :
       refresh' = [refresh EXCEPT ![r].staged = @ \cup {row}]
  /\ UNCHANGED <<subscribed, content, listed, import, imported>>

(* The UPDATE of last_node_count and COMMIT. *)
Commit(r) ==
  /\ refresh[r].at = "insert" /\ subscribed
  /\ refresh[r].staged = RowsOf(refresh[r].fetch)
  /\ listed' = (listed \ refresh[r].doomed) \cup refresh[r].staged
  /\ refresh' = [refresh EXCEPT ![r] = NoRefresh]
  /\ UNCHANGED <<subscribed, content, import, imported>>

(* A statement fails, the foreign key's when the subscription is gone, and  *)
(* recordSubscriptionError stores the message.                              *)
Rollback(r) ==
  /\ refresh[r].at \in {"begin", "delete", "insert"}
  /\ refresh' = [refresh EXCEPT ![r] = NoRefresh]
  /\ UNCHANGED <<subscribed, content, listed, import, imported>>

(* deleteProxySubscription: it cascades to the list, waits for transactions *)
(* that have inserted rows of it, and leaves the pool alone.                *)
Unsubscribe ==
  /\ subscribed
  /\ \A r \in Refreshers : refresh[r].doomed \cup refresh[r].staged = {}
  /\ subscribed' = FALSE
  /\ listed' = {}
  /\ UNCHANGED <<content, refresh, import, imported>>

-----------------------------------------------------------------------------
(* importSubscriptionNodes: the selected rows, then the pool's urls, then   *)
(* one INSERT that leaves out the urls that are in the pool by then.        *)
ImportReads ==
  /\ import.at = "idle" /\ subscribed
  /\ \E rows \in SUBSET listed \ {{}} : import' = [NoImport EXCEPT !.at = "rows", !.rows = rows]
  /\ UNCHANGED <<subscribed, content, listed, refresh, imported>>

ImportCompares ==
  /\ import.at = "rows"
  /\ import' = [import EXCEPT !.at = "pool", !.existing = imported]
  /\ UNCHANGED <<subscribed, content, listed, refresh, imported>>

ImportInserts ==
  /\ import.at = "pool"
  /\ LET fresh == {row.uri : row \in import.rows} \ import.existing
     IN imported' = IF subscribed THEN imported \cup fresh ELSE imported
  /\ import' = NoImport
  /\ UNCHANGED <<subscribed, content, listed, refresh>>

SubsNext ==
  \/ \E r \in Refreshers :
       \/ Fetch(r) \/ Fetched(r) \/ DeleteStarts(r) \/ DeleteEnds(r)
       \/ Insert(r) \/ Commit(r) \/ Rollback(r)
  \/ Unsubscribe
  \/ ImportReads \/ ImportCompares \/ ImportInserts

-----------------------------------------------------------------------------
(* Of every answer of the server the list shows all or nothing, whatever    *)
(* refreshes overlap or fail half-way (proxy-subscriptions.ts:132-160).     *)
ListIsWhole ==
  \A k \in DOMAIN content : RowsOf(k) \cap listed \in {{}, RowsOf(k)}

(* "Fetches the subscription URL and atomically replaces the cached node    *)
(* list" (proxy-subscriptions.ts:129): the list is that of one answer.      *)
ListIsOneFetch ==
  \A row, other \in listed : row.fetch = other.fetch
=============================================================================
