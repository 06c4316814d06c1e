------------------------------- MODULE AppStore -------------------------------
(***************************************************************************)
(* The StateStore with the coordinator that turns calls into actions, in   *)
(* any order.                                                              *)
(***************************************************************************)
EXTENDS AppState

CONSTANTS
  HistoryLoads,\* the lists of rows that are loaded into the history
  MaxPage      \* bound: the page indices that are asked for

HistoryRow == [ts : Int, mode : Int, text : STRING]

ASSUME StoreAssumption == MaxPage \in Nat /\ HistoryLoads \subseteq Seq(HistoryRow)

VARIABLES
  store,
  picked   \* history: the files selected last, since the groups last changed

storeVars == <<store, picked>>

StoreInit == store = create_initial_state /\ picked = {}

Picked(a) == IF a.type = "FileSelectionChanged" THEN a.file_ids
             ELSE IF a.type = "ScanCompleted" \/ store'.groups # store.groups THEN {}
             ELSE picked

dispatch(a) == store' = Reduce(store, a) /\ picked' = Picked(a)

------------------------------------------------------------------------------
(* The coordinator's calls about the history and the preferences.           *)
history_data_loaded == \E rows \in HistoryLoads : dispatch(Value("HistoryDataLoaded", rows))
history_set_filter  == \E q \in {"", "x", "y"} : dispatch(Value("HistoryGridFilterChanged", q))
history_set_page    == \E p \in -1..MaxPage : dispatch(Value("HistoryGridPageChanged", p))
history_set_subtab  ==
  \E k \in VALID_SUBTABS \cup {"none"} : dispatch(Value("HistorySubTabChanged", k))
history_set_sort ==
  \E col \in VALID_COLUMNS \cup {"none"}, asc \in BOOLEAN :
    dispatch([type |-> "HistoryGridSortChanged", column |-> col, asc |-> asc])
deletion_history_data_loaded ==
  \E rows \in HistoryLoads : dispatch(Value("DeletionHistoryDataLoaded", rows))
preferences ==
  \/ \E v \in {"flip", "on", "off"} : dispatch(Value("AdvancedModeToggled", v))
  \/ \E v \in BOOLEAN : dispatch(Value("SetDryRun", v))
  \/ \E t \in {"", "x"} : dispatch(Value("ResultsViewTextFilterChanged", t))
  \/ \E put, drop \in SUBSET {"view_mode"} :
       dispatch([type |-> "WorkspaceUiPreferencesChanged", set |-> put, drop |-> drop \ put])

ViewsNext ==
  \/ history_data_loaded \/ history_set_filter \/ history_set_page \/ history_set_subtab
  \/ history_set_sort \/ deletion_history_data_loaded \/ preferences

(* The calls about scans, tabs, themes and files.  The review pushes all    *)
(* its marks, also those of files that are in no group any more.            *)
selection ==
  \/ \E fs \in Selections : dispatch(SelectionChanged(fs))
  \/ dispatch([type |-> "FileSelectionCleared"])
set_active_tab == \E k \in VALID_MAIN_TAB_KEYS \cup {"exclude"} : dispatch(SetActiveTab(k))
theme == \E t \in VALID_THEMES \cup {"none"} : dispatch(ThemeChanged(t))
scan_started == \E m \in ScanModes : dispatch(Value("ScanStarted", m))
report_scan_progress == dispatch(Value("ScanProgressSnapshot", "some"))
scan_ended ==
  \E r \in {"cancelled", "error"} : dispatch(Value("ScanEnded", r))
scan_paused  == dispatch([type |-> "ScanPaused"])
scan_resumed == dispatch([type |-> "ScanResumed"])
scan_completed ==
  \E gs \in Listings, m \in ScanModes : dispatch(ScanCompleted(gs, m))
review_open_group == \E g \in {0, 1} : dispatch(Value("ReviewNavigate", g))
review_set_filter ==
  \E k \in VALID_FILTERS \cup {"none"} : dispatch(Value("ReviewViewFilterChanged", k))
results_files_removed == \E ps \in SUBSET File : dispatch(FilesRemoved(ps))
results_groups_pruned ==
  \E ps \in SUBSET File : dispatch(GroupsPruned(Pruned(store.groups, ps)))

CallsNext ==
  \/ selection \/ set_active_tab \/ theme \/ scan_started \/ report_scan_progress
  \/ scan_ended \/ scan_paused \/ scan_resumed \/ scan_completed \/ review_open_group
  \/ review_set_filter \/ results_files_removed \/ results_groups_pruned

StoreNext == ViewsNext \/ CallsNext
StoreSpec == StoreInit /\ [][StoreNext]_storeVars

------------------------------------------------------------------------------
(* Every matching row of the history is on exactly one page, and no page is *)
(* empty unless nothing matches, whatever index is asked for                *)
(* (apply_scan_history_view).                                               *)
PagesComplete ==
  LET rows == SortedRows(store)
  IN  /\ FlattenSeq([p \in 1..NumPages(Len(rows)) |-> PageRows(store, p - 1)]) = rows
      /\ rows # <<>> => \A p \in 0..MaxPage : PageRows(store, p) # <<>>

(* A selection does not outlive the groups it was made for: what the store  *)
(* holds selected was selected since a scan, a removal or a pruning last    *)
(* changed its groups (_reduce_scan, _reduce_results).                      *)
SelectionCurrent == store.selected_files \subseteq picked

(* What the pages read of the store at any moment is consistent: both hold. *)
StoreConsistent == PagesComplete /\ SelectionCurrent
===============================================================================
