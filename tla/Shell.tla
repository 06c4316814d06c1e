-------------------------------- MODULE Shell --------------------------------
(***************************************************************************)
(* The shell of the desktop application: the navigation of AppLayout, the  *)
(* store's listener in main.py, the bridge's sessions and what they        *)
(* persist, and the pages that are shown.                                  *)
(*                                                                         *)
(* Everything here runs on the thread of the user interface, but the calls *)
(* nest: navigate_to() tells the store which tab is active, the store tells*)
(* the listener, and the listener may call navigate_to() again.  calls is  *)
(* the stack of what is left to do, its head the innermost call; a handler *)
(* of the user interface starts only when it is empty.                     *)
(***************************************************************************)
EXTENDS AppState

CONSTANT MaxScans   \* bound: scans in a behaviour

ASSUME ShellAssumption == MaxScans \in Nat

VARIABLES
  state,     \* the store's state
  rail,      \* layout.current_key
  asked,     \* the key the user's navigation asked for, or "none"
  paused,    \* TimeKeeper._paused
  calls,     \* the stack
  results,   \* what the review page holds: scan_results
  snapshot,  \* _apply_undo_snapshot: its groups before the last apply, or none
  own,       \* history: an apply or its undo changed them since they were given
  drawn,     \* what it shows
  recorded,  \* scan_history.db: how many rows
  listed,    \* how many rows the history page shows
  backend,   \* the results of the last scan, in the backend
  lastJson,  \* last.json
  scans      \* how many scans have completed

shellVars == <<state, rail, asked, paused, calls, results, snapshot, own, drawn, recorded,
               listed, backend, lastJson, scans>>

ROUTE_KEYS == {"dashboard", "review", "history", "exclude", "settings"}
BUILDERS   == <<"dashboard", "duplicates", "review", "history", "exclude", "settings">>
NoGroups   == {}
NoSnapshot == <<>>

ShellInit ==
  /\ state = create_initial_state
  /\ rail = "dashboard" /\ asked = "none" /\ paused = FALSE /\ calls = <<>>
  /\ results = NoGroups /\ drawn = NoGroups /\ snapshot = NoSnapshot /\ own = FALSE
  /\ recorded = 0 /\ listed = 0 /\ backend = NoGroups /\ lastJson = NoGroups /\ scans = 0

------------------------------------------------------------------------------
(* Frames of the stack.                                                     *)
Navigate(k)      == [at |-> "navigate", key |-> k]
Shown(k)         == [at |-> "shown", key |-> k]
Dispatching(a)   == [at |-> "dispatch", action |-> a]
Listener(a, new) == [at |-> "listener", action |-> a, tab |-> new.active_tab,
                     groups |-> new.groups]
Syncing(f)       == [f EXCEPT !.at = "sync"]
Recording(gs)    == [at |-> "record", groups |-> gs]
Repainting       == [at |-> "repaint"]

At(place)   == calls # <<>> /\ Head(calls).at = place
Top         == Head(calls)
Return      == calls' = Tail(calls)
Then(frames) == calls' = frames \o Tail(calls)

reviewVars == <<results, snapshot, own, drawn>>
pageVars == <<reviewVars, listed>>
diskVars == <<recorded, lastJson>>
scanVars == <<backend, scans>>

(* The page that navigate_to() makes of a key.                              *)
Destination(k) ==
  IF k \in {"review", "duplicates"}
  THEN IF state.groups = NoGroups THEN "dashboard" ELSE "review"
  ELSE k

(* Variant: the store is not told. *)
NavigateSilently ==
  /\ At("navigate")
  /\ LET dest == Destination(Top.key)
     IN  IF dest = rail THEN Return /\ UNCHANGED <<rail, paused>>
         ELSE /\ rail' = dest
              /\ paused' = (dest # "dashboard")
              /\ Then(<<Shown(dest)>>)
  /\ UNCHANGED <<state, asked, pageVars, diskVars, scanVars>>

(* navigate_to(): nothing for the page that is shown; else the rail moves,  *)
(* the clock of the home page stops or goes, and the store is told.         *)
NavigateTo ==
  /\ At("navigate")
  /\ LET dest == Destination(Top.key)
     IN  IF dest = rail THEN Return /\ UNCHANGED <<rail, paused>>
         ELSE /\ rail' = dest
              /\ paused' = (dest # "dashboard")
              /\ Then(<<Dispatching(SetActiveTab(dest)), Shown(dest)>>)
  /\ UNCHANGED <<state, asked, pageVars, diskVars, scanVars>>

(* dispatch(): the new state, then the listener with that state.            *)
Dispatch ==
  /\ At("dispatch")
  /\ state' = Reduce(state, Top.action)
  /\ Then(<<Listener(Top.action, state')>>)
  /\ UNCHANGED <<rail, asked, paused, pageVars, diskVars, scanVars>>

(* _on_state_change(): an action that sets the tab moves the rail to it.    *)
Listen ==
  /\ At("listener")
  /\ IF /\ Top.tab # rail
        /\ Top.action.type \in {"SetActiveTab", "ScanCompleted"}
     THEN Then(<<Navigate(Top.tab), Syncing(Top)>>)
     ELSE Then(<<Syncing(Top)>>)
  /\ UNCHANGED <<state, rail, asked, paused, pageVars, diskVars, scanVars>>

(* Variant: the review page is always filled for later. *)
SyncDeferring ==
  /\ At("sync")
  /\ IF Top.action.type = "ScanCompleted" THEN results' = Top.groups /\ own' = FALSE
     ELSE UNCHANGED <<results, own>>
  /\ UNCHANGED <<snapshot, drawn, listed>>
  /\ Return
  /\ UNCHANGED <<state, rail, asked, paused, diskVars, scanVars>>

(* The rest of the listener: the review page gets the groups, and draws     *)
(* them if it is shown; the history page reads its rows.                    *)
Sync ==
  /\ At("sync")
  /\ IF Top.action.type = "ScanCompleted"
     THEN /\ results' = Top.groups /\ own' = FALSE /\ UNCHANGED snapshot
          /\ drawn' = IF rail = "review" THEN Top.groups ELSE drawn
          /\ listed' = recorded
     ELSE UNCHANGED pageVars
  /\ Return
  /\ UNCHANGED <<state, rail, asked, paused, diskVars, scanVars>>

(* on_show() of the page that navigate_to() built.                          *)
OnShow ==
  /\ At("shown")
  /\ IF Top.key = "review" /\ state.groups # NoGroups
     THEN results' = state.groups /\ own' = FALSE
     ELSE UNCHANGED <<results, own>>
  /\ UNCHANGED snapshot
  /\ drawn' = IF Top.key = "review" THEN results' ELSE drawn
  /\ listed' = IF Top.key = "history" THEN recorded ELSE listed
  /\ Return
  /\ UNCHANGED <<state, rail, asked, paused, diskVars, scanVars>>

(* dispatch_scan_complete(), after the store: the history row and the       *)
(* snapshot, which no groups leave as it was.                               *)
Record ==
  /\ At("record")
  /\ recorded' = recorded + 1
  /\ lastJson' = IF Top.groups = NoGroups THEN lastJson ELSE Top.groups
  /\ Return
  /\ UNCHANGED <<state, rail, asked, paused, pageVars, scanVars>>

(* _on_theme_change(): every page paints itself anew, the hidden ones too.  *)
Repaint ==
  /\ At("repaint")
  /\ drawn' = results
  /\ Return
  /\ UNCHANGED <<state, rail, asked, paused, results, snapshot, own, listed, diskVars, scanVars>>

------------------------------------------------------------------------------
(* The handlers.                                                            *)
Starts(frames, key) == calls = <<>> /\ calls' = frames /\ asked' = key

(* The rail, the command palette and the keys of a page; a digit of a page  *)
(* that has nothing to show leads to the home page.                         *)
Go(k) ==
  /\ Starts(<<Navigate(k)>>, k)
  /\ UNCHANGED <<state, rail, paused, pageVars, diskVars, scanVars>>

Digit(n) ==
  \E i \in DOMAIN BUILDERS :
    /\ BUILDERS[i] \in ROUTE_KEYS \ {"exclude"}
    /\ n = Cardinality({j \in 1..i : BUILDERS[j] \in ROUTE_KEYS \ {"exclude"}})
    /\ Go(Destination(BUILDERS[i]))

(* The arrow keys: the builder before or after that of the rail.            *)
Cycle(step) ==
  \E i \in DOMAIN BUILDERS :
    /\ BUILDERS[i] = rail
    /\ Go(BUILDERS[((i - 1 + step) % Len(BUILDERS)) + 1])

(* _on_route_change(): the clock follows the route, then the page.          *)
RouteChange(k) ==
  /\ Starts(<<Navigate(k)>>, k)
  /\ paused' = (k # "dashboard")
  /\ UNCHANGED <<state, rail, pageVars, diskVars, scanVars>>

(* A scan of the dashboard has completed.                                   *)
ScanDone(gs, m) ==
  /\ scans < MaxScans
  /\ Starts(<<Dispatching(ScanCompleted(gs, m)), Recording(gs)>>, "none")
  /\ scans' = scans + 1 /\ backend' = gs
  /\ UNCHANGED <<state, rail, paused, pageVars, diskVars>>

(* open_last_session(): the results in memory, else those on disk.          *)
OpenLastSession ==
  LET gs == IF backend # NoGroups THEN backend ELSE lastJson
      m  == IF backend # NoGroups THEN state.scan_mode ELSE "files"
  IN  /\ gs # NoGroups
      /\ Starts(<<Dispatching(ScanCompleted(gs, m)), Dispatching(SetActiveTab("review"))>>,
                "review")
      /\ UNCHANGED <<state, rail, paused, pageVars, diskVars, scanVars>>

(* apply_preset_theme(): a preset of the settings page.                     *)
ApplyPresetTheme(t) ==
  /\ rail = "settings"
  /\ Starts(<<Dispatching(ThemeChanged(t)), Repainting>>, "none")
  /\ UNCHANGED <<state, rail, paused, pageVars, diskVars, scanVars>>

(* The review page tells the store all its marks.  Those that it kept of    *)
(* another listing, or read from a saved session, are no listed files.      *)
Select(fs) ==
  /\ rail = "review"
  /\ Starts(<<Dispatching(SelectionChanged(fs))>>, "none")
  /\ UNCHANGED <<state, rail, paused, pageVars, diskVars, scanVars>>

(* The sheet of an apply: what could be undone until now no longer can.     *)
OpenApplySheet ==
  /\ rail = "review" /\ calls = <<>> /\ asked' = "none"
  /\ snapshot' = NoSnapshot
  /\ UNCHANGED <<state, rail, paused, calls, results, own, drawn, listed, diskVars, scanVars>>

(* _apply_execute_deletes(): the files that could be removed leave the      *)
(* page's groups, and the marks of what is left go to the store.  Nobody    *)
(* tells the store of the groups.  The sheet is over whatever page the keys *)
(* have led to since it was opened.                                         *)
Apply(removed, fs) ==
  /\ snapshot = NoSnapshot
  /\ removed \subseteq Listed(results)
  /\ results' = Pruned(results, removed) /\ fs \subseteq Listed(results')
  /\ snapshot' = <<results>> /\ own' = TRUE
  /\ Starts(<<Dispatching(SelectionChanged(fs)), Repainting>>, "none")
  /\ UNCHANGED <<state, rail, paused, drawn, listed, diskVars, scanVars>>

(* _toast_undo_last_apply(): the groups from before the last apply return,  *)
(* whatever the page was given since.  A toast that has outlived the        *)
(* snapshot tells the store the marks there are and draws the page again.   *)
UndoApply(fs) ==
  /\ IF snapshot = NoSnapshot THEN UNCHANGED <<results, own>>
     ELSE results' = snapshot[1] /\ own' = TRUE
  /\ snapshot' = NoSnapshot
  /\ Starts(<<Dispatching(SelectionChanged(fs)), Repainting>>, "none")
  /\ UNCHANGED <<state, rail, paused, drawn, listed, diskVars, scanVars>>

(* _confirm_clear() of the history page.                                    *)
ClearHistory ==
  /\ rail = "history" /\ calls = <<>>
  /\ recorded' = 0 /\ listed' = 0 /\ asked' = "none"
  /\ UNCHANGED <<state, rail, paused, calls, reviewVars, lastJson, scanVars>>

(* The program ends and starts again: the databases and last.json stay.     *)
Restart ==
  /\ calls = <<>>
  /\ state' = create_initial_state
  /\ rail' = "dashboard" /\ asked' = "none" /\ paused' = FALSE
  /\ results' = NoGroups /\ drawn' = NoGroups /\ snapshot' = NoSnapshot /\ own' = FALSE
  /\ listed' = recorded
  /\ backend' = NoGroups
  /\ UNCHANGED <<calls, diskVars, scans>>

ShellNext ==
  \/ NavigateTo \/ Dispatch \/ Listen \/ Sync \/ OnShow \/ Record \/ Repaint
  \/ \E k \in ROUTE_KEYS : Go(k) \/ RouteChange(k)
  \/ \E n \in 1..4 : Digit(n)
  \/ \E step \in {-1, 1} : Cycle(step)
  \/ \E gs \in Listings, m \in ScanModes : ScanDone(gs, m)
  \/ OpenLastSession \/ ClearHistory \/ Restart
  \/ \E t \in {"light", "dark"} : ApplyPresetTheme(t)
  \/ \E fs \in Selections : Select(fs) \/ UndoApply(fs)
  \/ OpenApplySheet
  \/ \E removed \in SUBSET File, fs \in Selections : Apply(removed, fs)

ShellSpec == ShellInit /\ [][ShellNext]_shellVars

------------------------------------------------------------------------------
(* When no call is left, the rail and the store name the same page, except  *)
(* that a scan which found nothing leaves the rail on the home page with    *)
(* the store on the review; and the rail is where the user asked to go:     *)
(* "Switch the content area to the page identified by key".  navigate_to(), *)
(* the store and its listener call each other until they agree (layout.py,  *)
(* main.py).  The exclude list is left out: the store does not know its tab *)
(* and the listener leads away from it.                                     *)
RailAgrees ==
  calls = <<>> =>
    /\ \/ rail = state.active_tab
       \/ rail = "dashboard" /\ state.active_tab = "review" /\ state.groups = NoGroups
    /\ asked \notin {"none", "exclude"} => rail = Destination(asked)

(* The page that is shown is up to date when no call is left: the review    *)
(* draws the groups it holds, which are those of the store unless an apply  *)
(* or its undo changed them since it was given any; the history lists every *)
(* recorded scan, although its rows are read before the scan that ends is   *)
(* recorded.                                                                *)
PagesCurrent ==
  calls = <<>> =>
    /\ rail = "review" => drawn = results /\ (results = state.groups \/ own)
    /\ rail = "history" => listed = recorded
===============================================================================
