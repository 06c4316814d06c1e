------------------------------- MODULE AppState -------------------------------
(***************************************************************************)
(* The application's state: AppState, the actions, reduce() with its four  *)
(* sub-reducers, and the page of the scan history that is computed from    *)
(* the state.                                                              *)
(*                                                                         *)
(* A duplicate group is the set of its files.  A history row is a record   *)
(* of the column it is sorted by, the text it is filtered by and a number. *)
(* Strings that the reducer validates are taken from small sets with one   *)
(* member it does not know.                                                *)
(***************************************************************************)
EXTENDS Integers, FiniteSets, SequencesExt

CONSTANTS
  File,        \* the files that groups are made of
  Listings,    \* the lists of groups that a scan may hand over
  Selections,  \* the sets of marks that the review may push
  ScanModes,   \* the engines' mode keys
  PageSize     \* history_page_size

ASSUME AppStateAssumption ==
  /\ Listings \subseteq SUBSET SUBSET File
  /\ Selections \subseteq SUBSET File
  /\ "files" \in ScanModes
  /\ PageSize \in Nat \ {0}

VALID_MAIN_TAB_KEYS == {"dashboard", "review", "history", "settings"}
VALID_THEMES        == {"light", "dark", "system"}
VALID_SUBTABS       == {"scan", "deletion"}
VALID_FILTERS       == {"all", "pictures"}
VALID_COLUMNS       == {"date", "mode"}
NoGroup             == -1

create_initial_state ==
  [ mode |-> "idle", theme |-> "system", groups |-> {}, selected_files |-> {},
    scan_progress |-> "none", subtab |-> "scan", prefs |-> {}, scan_mode |-> "files",
    active_tab |-> "dashboard", review_unlocked |-> FALSE, dry_run |-> FALSE,
    advanced_mode |-> FALSE, selected_group_id |-> NoGroup,
    history_scan_rows |-> <<>>, history_sort_column |-> "date",
    history_sort_asc |-> FALSE, history_filter |-> "", history_page |-> 0,
    history_deletion_rows |-> <<>>, review_file_filter |-> "all",
    results_text_filter |-> "", scan_can_pause |-> FALSE,
    scan_can_resume |-> FALSE, scan_is_cancelled |-> FALSE ]

------------------------------------------------------------------------------
(* The actions that the coordinator and the bridge dispatch.                *)
SetActiveTab(k)      == [type |-> "SetActiveTab", key |-> k]
ThemeChanged(t)      == [type |-> "ThemeChanged", theme |-> t]
ScanCompleted(gs, m) == [type |-> "ScanCompleted", groups |-> gs, scan_mode |-> m]
GroupsPruned(gs)     == [type |-> "GroupsPruned", groups |-> gs]
FilesRemoved(ps)     == [type |-> "ResultsFilesRemoved", paths |-> ps]
SelectionChanged(fs) == [type |-> "FileSelectionChanged", file_ids |-> fs]
Value(name, v)       == [type |-> name, value |-> v]

(* groups_prune.py: a group that keeps fewer than two files is none.        *)
Pruned(gs, paths) == {g \in {h \ paths : h \in gs} : Cardinality(g) >= 2}

(* What a tab makes of the mode when no scan is running.                    *)
ModeForTab(key) == IF key = "review" THEN "review" ELSE "idle"

ReduceUi(s, a) ==
  CASE a.type = "AdvancedModeToggled" ->
         [s EXCEPT !.advanced_mode = IF a.value = "flip" THEN ~@ ELSE a.value = "on"]
    [] a.type = "ThemeChanged" ->
         IF a.theme \in VALID_THEMES THEN [s EXCEPT !.theme = a.theme] ELSE s
    [] a.type = "SetActiveTab" ->
         IF a.key \notin VALID_MAIN_TAB_KEYS \/ a.key = s.active_tab THEN s
         ELSE [s EXCEPT !.active_tab = a.key,
                        !.mode = IF @ = "scanning" THEN @ ELSE ModeForTab(a.key)]
    [] a.type = "HistorySubTabChanged" ->
         [s EXCEPT !.subtab = IF a.value \in VALID_SUBTABS THEN a.value ELSE "scan"]

(* Fields that every end of a scan resets.                                  *)
ScanOver(s, cancelled) ==
  [s EXCEPT !.scan_progress = "none", !.scan_can_pause = FALSE,
            !.scan_can_resume = FALSE, !.scan_is_cancelled = cancelled]

ReduceScan(s, a) ==
  CASE a.type = "FileSelectionChanged" -> [s EXCEPT !.selected_files = a.file_ids]
    [] a.type = "FileSelectionCleared" -> [s EXCEPT !.selected_files = {}]
    [] a.type = "ScanStarted" ->
         [ScanOver(s, FALSE) EXCEPT !.mode = "scanning", !.scan_mode = a.value,
                                    !.scan_can_pause = TRUE]
    [] a.type = "ScanProgressSnapshot" -> [s EXCEPT !.scan_progress = a.value]
    [] a.type = "ScanEnded" ->
         IF a.value \notin {"cancelled", "error"} THEN s
         ELSE [ScanOver(s, a.value = "cancelled") EXCEPT !.mode = "idle"]
    [] a.type = "ScanPaused" -> [s EXCEPT !.scan_can_pause = FALSE, !.scan_can_resume = TRUE]
    [] a.type = "ScanResumed" -> [s EXCEPT !.scan_can_pause = TRUE, !.scan_can_resume = FALSE]
    [] a.type = "ScanCompleted" ->
         [ScanOver(s, FALSE) EXCEPT
            !.mode = "results", !.groups = a.groups, !.scan_mode = a.scan_mode,
            !.selected_group_id = NoGroup, !.active_tab = "review",
            !.review_unlocked = TRUE, !.review_file_filter = "all",
            !.selected_files = {}]
    [] a.type = "ReviewNavigate" ->
         [s EXCEPT !.mode = "review", !.selected_group_id = a.value,
                   !.review_unlocked = TRUE]

ReduceHistory(s, a) ==
  CASE a.type = "HistoryDataLoaded" ->
         [s EXCEPT !.history_scan_rows = a.value, !.history_page = 0]
    [] a.type = "HistoryGridSortChanged" ->
         [s EXCEPT !.history_sort_column = IF a.column \in VALID_COLUMNS THEN a.column
                                           ELSE "date",
                   !.history_sort_asc = a.asc, !.history_page = 0]
    [] a.type = "HistoryGridFilterChanged" ->
         [s EXCEPT !.history_filter = a.value, !.history_page = 0]
    [] a.type = "HistoryGridPageChanged" ->
         [s EXCEPT !.history_page = IF a.value < 0 THEN 0 ELSE a.value]
    [] a.type = "DeletionHistoryDataLoaded" ->
         [s EXCEPT !.history_deletion_rows = a.value]

ReduceResults(s, a) ==
  CASE a.type = "ResultsViewTextFilterChanged" -> [s EXCEPT !.results_text_filter = a.value]
    [] a.type = "SetDryRun" -> [s EXCEPT !.dry_run = a.value]
    [] a.type = "ResultsFilesRemoved" ->
         IF a.paths = {} THEN s
         ELSE [s EXCEPT !.groups = Pruned(@, a.paths), !.selected_files = {}]
    [] a.type = "GroupsPruned" -> [s EXCEPT !.groups = a.groups, !.selected_files = {}]
    [] a.type = "ReviewViewFilterChanged" ->
         [s EXCEPT !.review_file_filter = IF a.value \in VALID_FILTERS THEN a.value ELSE "all"]
    [] a.type = "WorkspaceUiPreferencesChanged" ->
         [s EXCEPT !.prefs = (@ \ a.drop) \cup a.set]

UiActions   == {"AdvancedModeToggled", "ThemeChanged", "SetActiveTab", "HistorySubTabChanged"}
ScanActions == {"FileSelectionChanged", "FileSelectionCleared", "ScanStarted",
                "ScanProgressSnapshot", "ScanEnded", "ScanPaused", "ScanResumed",
                "ScanCompleted", "ReviewNavigate"}
HistoryActions == {"HistoryDataLoaded", "HistoryGridSortChanged", "HistoryGridFilterChanged",
                   "HistoryGridPageChanged", "DeletionHistoryDataLoaded"}

Reduce(s, a) == CASE a.type \in UiActions      -> ReduceUi(s, a)
                  [] a.type \in ScanActions    -> ReduceScan(s, a)
                  [] a.type \in HistoryActions -> ReduceHistory(s, a)
                  [] OTHER                     -> ReduceResults(s, a)

------------------------------------------------------------------------------
(* history_view.py: the page of the history that the state stands for.      *)
Matches(row, q) == q = "" \/ row.text = q
SortKey(row, col) == IF col = "mode" THEN row.mode ELSE row.ts

(* The matching rows in order.  The sort is stable, with reverse too.       *)
SortedRows(s) ==
  LET all    == s.history_scan_rows
      hits   == {i \in DOMAIN all : Matches(all[i], s.history_filter)}
      key(i) == SortKey(all[i], s.history_sort_column)
      before(i, j) == \/ IF s.history_sort_asc THEN key(i) < key(j) ELSE key(i) > key(j)
                      \/ key(i) = key(j) /\ i < j
      order  == SetToSortSeq(hits, before)
  IN  [k \in 1..Cardinality(hits) |-> all[order[k]]]

(* Variant: a last page for the rest, even if there is none. *)
NumPagesOver(n) == n \div PageSize + 1

NumPages(n) == IF n = 0 THEN 1 ELSE (n + PageSize - 1) \div PageSize

(* The page that is shown when page p is asked for.                         *)
ClampedPage(p, n) == IF p > NumPages(n) - 1 THEN NumPages(n) - 1 ELSE p

PageRows(s, p) ==
  LET rows  == SortedRows(s)
      start == ClampedPage(p, Len(rows)) * PageSize
  IN  SubSeq(rows, start + 1, IF start + PageSize < Len(rows) THEN start + PageSize
                              ELSE Len(rows))

(* The files of a list of groups.                                           *)
Listed(gs) == UNION gs
===============================================================================
