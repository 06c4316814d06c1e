------------------------------- MODULE Screens --------------------------------
(***************************************************************************)
(* What the review shows: the stack of its screens, the list or grid of    *)
(* groups that ChunkedViewBuilder fills bit by bit, and the pair of files  *)
(* that the inspect screen compares.                                       *)
(*                                                                         *)
(* Everything runs on the thread of the user interface.  A handler is one  *)
(* step; the task that appends the rest of a long list is one step for     *)
(* each part, with handlers in between.  Which files a handler marks is    *)
(* left open here: any of Markable.  Groups are in the order of their size,*)
(* the files of a group being of one size.                                 *)
(***************************************************************************)
EXTENDS Integers, FiniteSets, SequencesExt, Ordering

CONSTANTS
  Sheets,      \* the listings: for each group number its files, <<>> for none
  MaxGid,      \* groups are numbered from 1 (BackendService.start_scan)
  Markable,    \* the files that the handlers mark or not
  Threshold,   \* async_threshold: a longer list is filled bit by bit
  FirstRows,   \* first_sync_count
  PerTick,     \* max_builds_per_tick, or batch_size if that is less
  MaxHandlers  \* bound: handlers in a behaviour

ASSUME ScreensAssumption ==
  /\ MaxGid \in Nat /\ MaxHandlers \in Nat
  /\ Threshold \in Nat /\ FirstRows \in 0..Threshold /\ PerTick \in Nat \ {0}

VARIABLES
  rv,       \* the review: see ScreensInit
  handled   \* handlers so far

screensVars == <<rv, handled>>

Gids     == 1..MaxGid
NoGid    == 0
NoLayout == <<>>
NoSheet  == [g \in Gids |-> <<>>]
NoRows   == [list |-> <<>>, grid |-> <<>>]

(* The files of the listings. *)
SheetFiles == UNION {ToSet(sheet[g]) : sheet \in Sheets, g \in Gids}

ASSUME SheetsAssumption == Sheets \subseteq [Gids -> Seq(SheetFiles)]

ScreensInit ==
  /\ handled = 0
  /\ rv = [ shown   |-> FALSE,            \* the review is the page that is shown
            listing |-> NoSheet,          \* scan_results
            flags   |-> {},               \* files marked, or deleted by a choice
            picked  |-> {},               \* groups with a choice, set_selections
            stack   |-> <<"overview">>,   \* screen_stack
            grid    |-> FALSE,            \* view_mode
            detail  |-> NoGid,            \* browse_detail_group_id
            rows    |-> NoRows,           \* the controls of the two hosts
            card    |-> <<>>,             \* the files of the detail panel
            slot    |-> "list",           \* what _browse_slot shows
            gen     |-> 0,                \* the builder's generation
            tails   |-> {},               \* its suspended tasks
            id      |-> NoGid,            \* inspect_set_id
            ref     |-> 0, cmp |-> 1, swap |-> FALSE,
            layouts |-> [g \in Gids |-> NoLayout],
            panels  |-> <<>>,             \* the two files that are compared
            saved   |-> <<>> ]            \* review_session.v1.json

Screen(s) == Last(s.stack)
FilesOf(s, g) == IF g = NoGid THEN <<>> ELSE s.listing[g]   \* group_by_id()

(* visible_groups(): the largest first; no control sets a filter.           *)
Largest(listing) ==
  Ordered({g \in Gids : listing[g] # <<>>},
          {p \in Gids \X Gids :
             \/ Len(listing[p[1]]) > Len(listing[p[2]])
             \/ Len(listing[p[1]]) = Len(listing[p[2]]) /\ p[1] < p[2]})
Visible(s) == Largest(s.listing)

(* _build_group_row(), _build_group_grid_tile(): as the marks are now.      *)
BuildRow(s, g, files) ==
  [group |-> g, files |-> files, marked |-> ToSet(files) \cap s.flags]
RowsFor(s, gs) == [i \in DOMAIN gs |-> BuildRow(s, gs[i], FilesOf(s, gs[i]))]

------------------------------------------------------------------------------
(* ChunkedViewBuilder.                                                      *)

(* Variant: the generation stays. *)
FilledSameGeneration(s, host, gs) ==
  LET now == IF Len(gs) <= Threshold THEN Len(gs) ELSE FirstRows
  IN  [s EXCEPT !.rows[host] = RowsFor(s, SubSeq(gs, 1, now)),
                !.tails = IF now = Len(gs) THEN @
                          ELSE @ \cup {[gen |-> s.gen, host |-> host,
                                        rest |-> SubSeq(gs, now + 1, Len(gs)),
                                        of |-> s.listing]}]

(* render(): a new generation, the first rows, and a task for the rest.     *)
Filled(s, host, gs) ==
  LET now == IF Len(gs) <= Threshold THEN Len(gs) ELSE FirstRows
  IN  [s EXCEPT !.gen = @ + 1,
                !.rows[host] = RowsFor(s, SubSeq(gs, 1, now)),
                !.tails = IF now = Len(gs) THEN @
                          ELSE @ \cup {[gen |-> s.gen + 1, host |-> host,
                                        rest |-> SubSeq(gs, now + 1, Len(gs)),
                                        of |-> s.listing]}]

(* _append_async(), from one sleep to the next: a task of another           *)
(* generation ends, and so does one with nothing left.                      *)
Resumed(s, t) ==
  LET n    == IF Len(t.rest) < PerTick THEN Len(t.rest) ELSE PerTick
      left == SubSeq(t.rest, n + 1, Len(t.rest))
      add  == [i \in 1..n |-> BuildRow(s, t.rest[i], t.of[t.rest[i]])]
  IN  IF t.gen # s.gen THEN [s EXCEPT !.tails = @ \ {t}]
      ELSE [s EXCEPT !.rows[t.host] = @ \o add,
                     !.tails = (@ \ {t}) \cup (IF left = <<>> THEN {}
                                               ELSE {[t EXCEPT !.rest = left]})]

------------------------------------------------------------------------------
(* BrowseScreenView.refresh(): the details of one group, nothing but a      *)
(* skeleton, or the host of the view mode, the other one emptied.           *)
Refreshed(s) ==
  LET gs   == Visible(s)
      host == IF s.grid THEN "grid" ELSE "list"
  IN  IF s.detail # NoGid
      THEN [s EXCEPT !.rows = NoRows, !.slot = "detail",
                     !.card = BuildRow(s, s.detail, FilesOf(s, s.detail))]
      ELSE IF gs = <<>> THEN [s EXCEPT !.rows = NoRows, !.slot = "list"]
      ELSE [Filled([s EXCEPT !.rows = NoRows], host, gs) EXCEPT !.slot = host]

(* The browse view is refreshed if it is the one on the screen; a view that *)
(* was left behind is built anew before it is seen again.                   *)
RefreshedIfSeen(s) == IF Screen(s) = "browse" THEN Refreshed(s) ELSE s

(* normalize_inspect_ref_cmp()                                              *)
Clamp(n, i) == IF i < 0 THEN 0 ELSE IF i > n - 1 THEN n - 1 ELSE i
Normalized(n, pair) ==
  IF n <= 1 THEN <<0, 0>>
  ELSE LET r == Clamp(n, pair[1])
           c == Clamp(n, pair[2])
       IN  <<r, IF c = r THEN (r + 1) % n ELSE c>>

(* step_inspect_cmp(): one step on the ring of the files but the reference. *)
Stepped(n, r, c, by) ==
  IF n < 2 THEN c
  ELSE LET once == (c + by + n) % n IN IF once = r THEN (once + by + n) % n ELSE once

(* _repair_inspect_indices_for_selection(): a reference that is marked      *)
(* gives way to the first file that is not.                                 *)
Repaired(s) ==
  LET files == FilesOf(s, s.id)
      n     == Len(files)
      pair  == Normalized(n, <<s.ref, s.cmp>>)
      free  == SelectInSeq(files, LAMBDA f : f \notin s.flags) - 1
      moved == s.id \in s.picked /\ files[pair[1] + 1] \in s.flags /\ free >= 0
      new   == IF moved THEN Normalized(n, <<free, Stepped(n, free, free, 1)>>) ELSE pair
  IN  IF files = <<>> THEN s
      ELSE [s EXCEPT !.ref = new[1], !.cmp = new[2],
                     !.layouts[s.id] = <<new[1], new[2], s.swap>>]

(* build_inspect_screen(): the panels A and B.                              *)
Sides(s)  == IF s.swap THEN <<s.cmp, s.ref>> ELSE <<s.ref, s.cmp>>
Pair(s)   == [k \in 1..2 |-> FilesOf(s, s.id)[Sides(s)[k] + 1]]
Compared(s) ==
  LET r == Repaired(s)
  IN  [r EXCEPT !.panels = IF FilesOf(r, r.id) = <<>> THEN <<>> ELSE Pair(r)]

(* _render_active_screen(): a browse screen is a new view, and what the     *)
(* tasks of the view before append is not seen any more.                    *)
Rendered(s) ==
  LET t == IF Screen(s) = "browse" THEN s ELSE [s EXCEPT !.detail = NoGid]
  IN  CASE Screen(s) = "browse"  ->
             Refreshed([t EXCEPT !.gen = 0, !.tails = {}, !.rows = NoRows])
        [] Screen(s) = "inspect" -> Compared(t)
        [] OTHER                 -> t

(* ReviewFlowRouter.navigate(), go_back().                                  *)
Navigated(s, screen) ==
  Rendered(IF screen = Screen(s) THEN s ELSE [s EXCEPT !.stack = Append(@, screen)])
Backed(s) == IF Len(s.stack) <= 1 THEN s ELSE Rendered([s EXCEPT !.stack = Front(@)])

(* _restore_inspect_layout_for_set()                                        *)
WithLayout(s, g) ==
  LET n    == Len(FilesOf(s, g))
      l    == IF s.layouts[g] = NoLayout THEN <<0, IF n > 1 THEN 1 ELSE 0, FALSE>>
              ELSE s.layouts[g]
      pair == Normalized(n, l)
  IN  [s EXCEPT !.id = g, !.ref = pair[1], !.cmp = pair[2], !.swap = l[3]]

(* Where _inspect_prev() and _inspect_next() go; the group that is compared *)
(* may be listed no more.                                                   *)
Beside(s, by) ==
  LET gs == Visible(s)
      at == IF s.id \in ToSet(gs) THEN SelectInSeq(gs, LAMBDA g : g = s.id) ELSE 1
      to == IF at + by < 1 THEN 1 ELSE IF at + by > Len(gs) THEN Len(gs) ELSE at + by
  IN  IF gs = <<>> \/ s.id = NoGid THEN s ELSE Rendered(WithLayout(s, gs[to]))

------------------------------------------------------------------------------
(* The handlers.                                                            *)
Handler(s) ==
  /\ handled < MaxHandlers /\ handled' = handled + 1
  /\ rv' = s

Seen(screen) == rv.shown /\ Screen(rv) = screen

(* What a handler makes of the marks and the choices.                       *)
Edited(s, fs, gs) == [s EXCEPT !.flags = fs, !.picked = gs]
Marks(s) == {Edited(s, fs, gs) : fs \in SUBSET Markable, gs \in SUBSET Gids}

(* The task of the builder.                                                 *)
Resume == \E t \in rv.tails : rv' = Resumed(rv, t) /\ UNCHANGED handled

(* A toggle, a smart rule, the edits' undo and redo.                        *)
EditMarks ==
  /\ rv.shown
  /\ \E s \in Marks(rv) : Handler(RefreshedIfSeen(s))

(* The button of the overview, the rows of the list, their back buttons,    *)
(* the keys, and the strip at the side.                                     *)
StartReview == Seen("overview") /\ Handler(Navigated(rv, "browse"))
Back        == rv.shown /\ Handler(Backed(rv))
Jump(screen) ==
  /\ rv.shown /\ screen # Screen(rv) /\ screen \in ToSet(rv.stack)
  /\ Handler(Rendered([rv EXCEPT !.stack = SubSeq(@, 1, SelectLastInSeq(@, LAMBDA x : x = screen))]))
OpenDetail(g) ==
  /\ Seen("browse") /\ g \in ToSet(Visible(rv))
  /\ Handler(Refreshed([rv EXCEPT !.detail = g]))
CloseDetail == Seen("browse") /\ Handler(Refreshed([rv EXCEPT !.detail = NoGid]))
ViewMode    == Seen("browse") /\ \E on \in BOOLEAN : Handler(Refreshed([rv EXCEPT !.grid = on]))
OpenInspect(g) ==
  /\ Seen("browse") /\ g \in ToSet(Visible(rv))
  /\ Handler(Navigated(WithLayout(rv, g), "inspect"))

(* The inspect screen: another group, another file to compare, the          *)
(* reference, the sides.                                                    *)
Inspecting == Seen("inspect") /\ FilesOf(rv, rv.id) # <<>>
Arranged(r, c) ==
  LET pair == Normalized(Len(FilesOf(rv, rv.id)), <<r, c>>)
  IN  Handler(Rendered([rv EXCEPT !.ref = pair[1], !.cmp = pair[2]]))

OtherSet(by) == Seen("inspect") /\ Handler(Beside(rv, by))
StripTap(i)  ==
  /\ Inspecting /\ i < Len(FilesOf(rv, rv.id)) /\ i # rv.ref
  /\ Arranged(rv.ref, i)
MakeReference(i) ==
  /\ Inspecting /\ i < Len(FilesOf(rv, rv.id)) /\ Len(FilesOf(rv, rv.id)) >= 2
  /\ Arranged(i, IF rv.cmp # i THEN rv.cmp
                 ELSE IF rv.ref # i THEN rv.ref ELSE (i + 1) % Len(FilesOf(rv, rv.id)))
SwapPanels == Seen("inspect") /\ Handler(Rendered([rv EXCEPT !.swap = ~@]))
PinCompare ==
  LET n == Len(FilesOf(rv, rv.id))
  IN  Inspecting /\ n >= 2 /\ Arranged(rv.cmp, Stepped(n, rv.cmp, rv.cmp, 1))
StepCompare(by) ==
  LET n == Len(FilesOf(rv, rv.id))
  IN  Inspecting /\ n > 2 /\ Arranged(rv.ref, Stepped(n, rv.ref, rv.cmp, by))

(* Keep one side, or mark all, and the next group; keep both, which renders;*)
(* delete all, which does not.                                              *)
MarkAndNext == Inspecting /\ \E s \in Marks(rv) : Handler(Beside(s, 1))
KeepBoth    == Inspecting /\ Handler(Rendered([rv EXCEPT !.picked = @ \cup {rv.id}]))
DeleteAll   == Inspecting /\ \E s \in Marks(rv) : Handler(s)

------------------------------------------------------------------------------
(* Around the review.                                                       *)

(* on_show(): the listing of the store, a saved session, and the browse     *)
(* screen if there is anything to browse.  A saved session goes by way of   *)
(* the overview, which closes the details of a group.                       *)
WithSession(s) ==
  IF s.saved = <<>> THEN s
  ELSE [s EXCEPT !.layouts = s.saved[2],
                 !.detail = NoGid,
                 !.stack = IF s.saved[1] = "overview" THEN <<"overview">>
                           ELSE <<"overview", s.saved[1]>>]

Show(sheet) ==
  /\ ~rv.shown
  /\ \E m \in Marks(rv) :
       LET s == WithSession([m EXCEPT !.shown = TRUE, !.picked = rv.picked,
                                      !.listing = IF sheet = NoSheet THEN @ ELSE sheet])
       IN  Handler(Rendered(IF s.listing # NoSheet /\ Screen(s) = "overview"
                            THEN [s EXCEPT !.stack = <<"overview", "browse">>] ELSE s))

Leave == rv.shown /\ Handler([rv EXCEPT !.shown = FALSE])

(* load_results(): rendered at once only if the review is shown.            *)
LoadResults(sheet) ==
  LET s == [rv EXCEPT !.listing = sheet]
  IN  Handler(IF rv.shown THEN Rendered(s) ELSE s)

(* apply_theme() renders, the hidden page too.                              *)
ApplyTheme == Handler(Rendered(rv))

(* _apply_execute_deletes(): the groups lose files, those of one file go;   *)
(* _toast_undo_last_apply(): an earlier listing is back, and the view is    *)
(* refreshed after it was rendered.                                         *)
Without(files, gone) ==
  LET left == {i \in DOMAIN files : files[i] \notin gone}
      at   == Ordered(left, {p \in left \X left : p[1] < p[2]})
  IN  IF Cardinality(left) < 2 THEN <<>> ELSE [k \in DOMAIN at |-> files[at[k]]]
ApplyDeletes ==
  /\ rv.shown
  /\ \E gone \in SUBSET rv.flags \ {{}} :
       LET after == [g \in Gids |-> Without(rv.listing[g], gone)]
       IN  Handler(Rendered([rv EXCEPT !.listing = after, !.flags = @ \ gone,
                                       !.picked = {g \in @ : after[g] # <<>>}]))
UndoDeletes(sheet) ==
  /\ rv.shown
  /\ \E s \in Marks(rv) :
       Handler(RefreshedIfSeen(Rendered([s EXCEPT !.listing = sheet])))

(* _apply_finish_overview(): back from the outcome of an apply.             *)
FinishApply ==
  /\ rv.shown
  /\ Handler(Rendered([rv EXCEPT !.detail = NoGid,
                         !.stack = IF rv.listing = NoSheet THEN <<"overview">>
                                   ELSE <<"overview", "browse">>]))

SaveScreens == rv.shown /\ Handler([rv EXCEPT !.saved = <<Screen(rv), rv.layouts>>])

ScreensNext ==
  \/ Resume \/ EditMarks \/ StartReview \/ Back \/ CloseDetail \/ ViewMode
  \/ \E g \in Gids : OpenDetail(g) \/ OpenInspect(g)
  \/ \E screen \in {"overview", "browse"} : Jump(screen)
  \/ \E by \in {-1, 1} : OtherSet(by) \/ StepCompare(by)
  \/ \E i \in 0..2 : StripTap(i) \/ MakeReference(i)
  \/ SwapPanels \/ PinCompare \/ MarkAndNext \/ KeepBoth \/ DeleteAll
  \/ \E sheet \in Sheets \cup {NoSheet} : Show(sheet) \/ LoadResults(sheet)
  \/ \E sheet \in Sheets : UndoDeletes(sheet)
  \/ Leave \/ ApplyTheme \/ ApplyDeletes \/ FinishApply \/ SaveScreens

ScreensSpec == ScreensInit /\ [][ScreensNext]_screensVars

------------------------------------------------------------------------------
\* The rows that are shown, with those the running task will still add, are the
\* groups of the listing, each once, in order, with the marks of now.
RowsCurrent ==
  LET host == IF rv.grid THEN "grid" ELSE "list"
      live == {t \in rv.tails : t.gen = rv.gen}
  IN  Seen("browse") =>
        IF rv.detail # NoGid
        THEN rv.slot = "detail" /\ rv.card = BuildRow(rv, rv.detail, FilesOf(rv, rv.detail))
        ELSE Visible(rv) # <<>> =>
               /\ rv.slot = host
               /\ \/ live = {} /\ rv.rows[host] = RowsFor(rv, Visible(rv))
                  \/ \E t \in live :
                       rv.rows[host] \o RowsFor(rv, t.rest) = RowsFor(rv, Visible(rv))

\* "Invariant ref != cmp when n >= 2" (state.py:34), and the panels show the two
\* files that "keep left" and "keep right" would keep.
PanelsCurrent ==
  LET n == Len(FilesOf(rv, rv.id))
  IN  Seen("inspect") /\ n >= 1 =>
        /\ {rv.ref, rv.cmp} \subseteq 0..(n - 1)
        /\ n >= 2 => rv.ref # rv.cmp
        /\ rv.panels = Pair(rv)

(* What the review shows is what it has: the rows, whatever marks, view      *)
(* mode, group or listing changed while tasks were suspended (browse.py:100- *)
(* 167, chunked_view.py:240-295); the panels, whatever group, listing or     *)
(* layout of a saved session came in between (inspect.py).                   *)
ScreensCurrent == RowsCurrent /\ PanelsCurrent

===============================================================================
