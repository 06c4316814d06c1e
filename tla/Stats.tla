--------------------------------- MODULE Stats ---------------------------------
(***************************************************************************)
(* The numbers on the home page: StatsService answers from its cache and   *)
(* computes them anew in threads of its own, from the two databases that   *)
(* the scans and the deletions write.                                      *)
(*                                                                         *)
(* A number is how many changes its database has seen; clearing the        *)
(* history is a change too.  The handlers of the user interface and the    *)
(* home page's tasks run on one thread, get_stats() in an executor's, the  *)
(* refresh in one more; get_stats() and invalidate() hold the lock.        *)
(***************************************************************************)
EXTENDS Integers, FiniteSets

CONSTANTS
  Worker,      \* the threads of a refresh
  Fetch,       \* the home page's tasks
  MaxChanges,  \* bound: scans, deletions and clearings
  MaxErrors    \* bound: refreshes that fail

ASSUME StatsAssumption == MaxChanges \in Nat /\ MaxErrors \in Nat

VARIABLES
  scanRows,      \* scan_history.db
  deletionRows,  \* deletion_history.db
  cache,         \* _cache
  fresh,         \* it is younger than the TTL
  dirty,         \* _dirty
  refreshing,    \* _refreshing
  worker,        \* the threads: where each one is and what it has read
  fetch,         \* the tasks: where each one is and what it was answered
  latest,        \* the task of _stats_fetch_generation, or "none"
  homeStats,     \* what the home page shows
  recording,     \* a scan has completed and is not recorded yet
  changes, errors

statsVars == <<scanRows, deletionRows, cache, fresh, dirty, refreshing, worker, fetch, latest,
               homeStats, recording, changes, errors>>
dbVars    == <<scanRows, deletionRows>>
cacheVars == <<cache, fresh, dirty, refreshing>>

NoStats == [scans |-> 0, deletions |-> 0]
Truth   == [scans |-> scanRows, deletions |-> deletionRows]
Rests   == [at |-> "rest", stats |-> NoStats]

StatsInit ==
  /\ scanRows = 0 /\ deletionRows = 0
  /\ cache = NoStats /\ fresh = FALSE /\ dirty = TRUE /\ refreshing = FALSE
  /\ worker = [w \in Worker |-> Rests] /\ fetch = [f \in Fetch |-> Rests]
  /\ latest = "none" /\ homeStats = NoStats
  /\ recording = FALSE /\ changes = 0 /\ errors = 0

------------------------------------------------------------------------------
(* What changes the databases.                                              *)
CountChange == changes < MaxChanges /\ changes' = changes + 1

(* dispatch_scan_complete(): the listener invalidates the cache before the  *)
(* scan is recorded.                                                        *)
CompleteScan ==
  /\ ~recording /\ CountChange
  /\ recording' = TRUE /\ dirty' = TRUE
  /\ UNCHANGED <<dbVars, cache, fresh, refreshing, worker, fetch, latest, homeStats, errors>>

RecordScan ==
  /\ recording /\ recording' = FALSE
  /\ scanRows' = scanRows + 1
  /\ UNCHANGED <<deletionRows, cacheVars, worker, fetch, latest, homeStats, changes, errors>>

(* log_deletion_event() tells nobody; a listing that loses the files        *)
(* invalidates the cache, if there is one.                                  *)
LogDeletion ==
  /\ ~recording /\ CountChange
  /\ deletionRows' = deletionRows + 1
  /\ dirty' \in {dirty, TRUE}
  /\ UNCHANGED <<scanRows, cache, fresh, refreshing, worker, fetch, latest, homeStats,
                 recording, errors>>

(* clear_history() does not invalidate it.                                  *)
ClearScans ==
  /\ ~recording /\ scanRows # 0 /\ CountChange
  /\ scanRows' = 0
  /\ UNCHANGED <<deletionRows, cacheVars, worker, fetch, latest, homeStats, recording, errors>>

------------------------------------------------------------------------------
(* StatsService.                                                            *)
Expire ==   \* the TTL
  /\ fresh /\ fresh' = FALSE
  /\ UNCHANGED <<dbVars, cache, dirty, refreshing, worker, fetch, latest, homeStats,
                 recording, changes, errors>>

(* Variant: what was computed once is good until somebody says it is not. *)
StaleWithoutTtl == dirty

Stale == dirty \/ ~fresh

(* get_stats(): the cache as it is, and a refresh if that is old and none   *)
(* is known to run.                                                         *)
GetStats(f) ==
  /\ fetch[f].at = "asked"
  /\ fetch' = [fetch EXCEPT ![f] = [at |-> "answered", stats |-> cache]]
  /\ IF Stale /\ ~refreshing
     THEN \E w \in Worker : /\ worker[w].at = "rest"
                            /\ worker' = [worker EXCEPT ![w].at = "scans"]
                            /\ refreshing' = TRUE
     ELSE UNCHANGED <<worker, refreshing>>
  /\ UNCHANGED <<dbVars, cache, fresh, dirty, latest, homeStats, recording, changes, errors>>

(* _refresh_worker(): the scans, the deletions, the flag, the cache.        *)
ReadScans(w) ==
  /\ worker[w].at = "scans"
  /\ worker' = [worker EXCEPT ![w].at = "deletions", ![w].stats.scans = scanRows]
  /\ UNCHANGED <<dbVars, cacheVars, fetch, latest, homeStats, recording, changes, errors>>

ReadDeletions(w) ==
  /\ worker[w].at = "deletions"
  /\ worker' = [worker EXCEPT ![w].at = "read", ![w].stats.deletions = deletionRows]
  /\ UNCHANGED <<dbVars, cacheVars, fetch, latest, homeStats, recording, changes, errors>>

FailRefresh(w) ==
  /\ worker[w].at \in {"scans", "deletions"} /\ errors < MaxErrors
  /\ errors' = errors + 1 /\ refreshing' = FALSE
  /\ worker' = [worker EXCEPT ![w] = Rests]
  /\ UNCHANGED <<dbVars, cache, fresh, dirty, fetch, latest, homeStats, recording, changes>>

EndRefresh(w) ==
  /\ worker[w].at = "read"
  /\ worker' = [worker EXCEPT ![w].at = "store"]
  /\ refreshing' = FALSE
  /\ UNCHANGED <<dbVars, cache, fresh, dirty, fetch, latest, homeStats, recording, changes,
                 errors>>

(* The callback updates the page, which shows what it showed.               *)
StoreStats(w) ==
  /\ worker[w].at = "store"
  /\ cache' = worker[w].stats /\ fresh' = TRUE /\ dirty' = FALSE
  /\ worker' = [worker EXCEPT ![w] = Rests]
  /\ UNCHANGED <<dbVars, refreshing, fetch, latest, homeStats, recording, changes, errors>>

------------------------------------------------------------------------------
(* The home page.                                                           *)

(* on_show(): a new generation, and a task that asks for the numbers.       *)
ShowHome(f) ==
  /\ fetch[f].at = "rest"
  /\ fetch' = [fetch EXCEPT ![f].at = "asked"]
  /\ latest' = f
  /\ UNCHANGED <<dbVars, cacheVars, worker, homeStats, recording, changes, errors>>

(* The task goes on: an answer of an older generation is dropped.           *)
TakeStats(f) ==
  /\ fetch[f].at = "answered"
  /\ fetch' = [fetch EXCEPT ![f] = Rests]
  /\ homeStats' = IF latest = f THEN fetch[f].stats ELSE homeStats
  /\ UNCHANGED <<dbVars, cacheVars, worker, latest, recording, changes, errors>>

WorkerStep(w) == ReadScans(w) \/ ReadDeletions(w) \/ EndRefresh(w) \/ StoreStats(w)
FetchStep(f)  == GetStats(f) \/ TakeStats(f)

StatsNext ==
  \/ CompleteScan \/ RecordScan \/ LogDeletion \/ ClearScans \/ Expire
  \/ \E w \in Worker : WorkerStep(w) \/ FailRefresh(w)
  \/ \E f \in Fetch : FetchStep(f) \/ ShowHome(f)

------------------------------------------------------------------------------
(* However the refreshes and invalidations cross, the home page, if it is   *)
(* shown again and again for long enough to be answered, comes to show what *)
(* the databases hold and goes on doing so once nothing changes any more: a *)
(* lost invalidation and an older refresh that stores last are made good    *)
(* when the cache has expired (get_stats, _refresh_worker,                  *)
(* _fetch_dashboard_data_async).                                            *)
StatsSettle ==
  []<><<\E f \in Fetch : latest = f /\ TakeStats(f)>>_statsVars => <>[](homeStats = Truth)
===============================================================================
