# CEREBRO: a TLA+ model

CEREBRO (`cerebro/`, Python) is a desktop program that finds duplicate files:
it walks folders, groups files by size, hashes what may be equal in a pool of
threads, shows the groups to the user and deletes what the user picks.  This
directory holds TLA+ modules of its parts, the TLC configurations that check
them on small instances and TLAPS proofs of the main results.  Paths below are
relative to the repository.

## 1. Inventory

### Scanning

| part | state | operations | works with |
|---|---|---|---|
| `DashboardPage`, `ScanHUD` | flags of a scan's life: HUD visible, was cancelled, choice panel, completion handled, accept progress, pending partial results | start, confirm stop, go home, open partial results, show; handlers of progress, completion and error | `BackendService`, `StateBridge` |
| `StateBridge` | the scan session; history rows, snapshot, store | begin/abort session, dispatch completion | coordinator, databases |
| `BackendService` | `_scanning`, `_cancel_event`; a worker thread per accepted run | start, cancel, pause, resume; progress, completion and error delivered to the UI loop | `ScanOrchestrator` |
| `ScanOrchestrator` | active engine, scan thread, re-entrant lock | set mode, start, pause, resume, cancel, wait, get results | the engines |
| `TurboFileEngine` (mode "files") | state, cancel event, pause event (set: running), results, progress | start, pause, resume, cancel; bridge from scanner callbacks to progress; conversion of groups; terminal bookkeeping | `TurboScanner` |
| `TurboScanner` | stages of one scan, last groups, statistics; pools of walkers and hash workers | scan (a generator), force-emit of CANCELLED | hash cache, checkpoint |
| eight other engines | state, cancel event, pause event (set: paused), results | start, pause, resume, cancel | orchestrator |

Hard here: three threads (UI, worker, scan thread) and a pool share flags without
a common lock; the engine's state is tested and then written; events are polled
at fixed points; a cancel may come before the thread has cleared the events, at
a pause, between the last look and the terminal write, or after the end; the
completion of one run may be handled after the next has begun.  Right means: a
result reported COMPLETED is complete, the callback stream never says COMPLETED
after CANCELLED, a paused scan stops reading files, a scan ends when it is
cancelled or not paused, one scan thread at a time, every run is told to the
window and recorded as what it was.

### Persistence

| part | state | operations |
|---|---|---|
| `CheckpointDB` | manifests, files with their status, phase artifacts; a queue of hash results and its writer thread | create, find resumable, mark stale, enqueue, flush, iterate pending and completed, purge, close |
| `HashCache` | per path: stat signature, quick hash, full hash, algorithms | get and set, singly and in batches, per-thread connections |
| `SessionManager` | per scan: state, groups, plan, locks, intents; in memory and in a file each | begin, attach, finish, lock, intend, persist, load, prune |
| audit log (`history/store.py`) | one file of JSON lines per day | append with fsync and a retry, read back |
| settings file | one JSON file of sections | read whole and written whole by the pages, the window, the dialogs and the bridge |
| scan snapshot, scan history, deletion history, engine errors | files and tables | append, load, clear |

Hard here: crashes between steps, results that wait in a queue, rows that change
while they are iterated, a hash that outlives the content it was taken of, copies of
a file that are written back later, lines that a crash cut in two.

### What the engines find

| part | state | operations |
|---|---|---|
| funnel of `TurboScanner` | candidates by size, prefix, quick hash, full hash; `last_groups` | group, reject, hash, expose; the engine converts |
| photo, document, folder, video, music and burst engines | records of what was read, BK-tree, union-find | find, read, compare, group, choose a keeper |

Hard here: the bounds of a search, chains of alike files, one failed read in a
phase, what a hash stands for.

### Review and deletion

| part | state | operations |
|---|---|---|
| `StateStore`, reducer, `CerebroCoordinator` | the application state | dispatch with listeners, one transition per action |
| `AppLayout`, `main.py` | the rail, the page that is shown | navigate, listen to the store, keys, routes, themes |
| `CerebroPipeline` | plan, operations, audit trail | build, execute, cancel |
| `DeleteService` | managed trash on disk; undo history of at most five batches, in memory | delete, delete in the background, undo |
| `DeletionEngine`, `DeletionGate`, trash manager | one-time token | plan, confirm, execute |
| browse and inspect screens, `ChunkedViewBuilder` | rows with a generation, suspended tasks; two indices of a comparison | render, append, mark, step, swap, saved layouts |
| `ThumbnailCache`, `StatsService` | a cache each, shared by threads | get, remember, evict; refresh, invalidate |
| `ReviewFlowHost`, `ReviewFlowState` | listing, marked files, choice of each group, undo and redo stacks, snapshot of the last apply, sheet, toast | mark, smart rule, inspect, undo, redo, save session, open sheet, apply, restore, show |

Hard here: five copies of the same facts (store, listing, marks, choices,
snapshots) that handlers bring in line by hand; choices kept by group number while
scans number the groups afresh; an undo that takes its state from one place and its
files from another; some files of a batch failing, in either direction; a program that
ends within a batch; tokens used twice or too late.  Right means: only what the user
chose is deleted, the original of every path is on disk or in the trash, an undo
brings back the batch whose state it shows, and what was deleted is not listed; the
rows, panels, numbers and pages on the screen are those of the state behind them.

### Left aside

Widgets, colours and sizes, logging, decoding of image, audio and video files, probes
of packages and of the machine, the command line: nothing in them that a model checker
would tell apart.  `PROJECT.json` lists every part with
its status.

## 2. Plan

The scan comes first: it is where threads meet, and everything below depends on
its results.  Modules in the order they are written:

| module | what | builds on | state |
|---|---|---|---|
| `ScanContract` | abstract: what an engine promises its callers | | done |
| `TurboScan` | engine, scan thread, hash pool and controller | implements `ScanContract` | done, proved |
| `ScanService` | window, service, orchestrator, engines as `TurboScan` shows them | | done, proved |
| `PollingEngine` | the eight other engines | | done, proved |
| `HashCache` | a row of the cache, the file behind it and the scans that use it | | done, proved |
| `CheckpointStore` | manifests, rows, queue, writer, resumed scans, crashes | | done, proved |
| `Discovery` | folders, root deduplication, walkers and their collection | | done, proved |
| `DeleteService` | managed trash and its undo; abstract: what any user of the trash may do | | done, proved |
| `ReviewFlow` | review, apply sheet, undo, and what they share with the store | implements `TrashSpec` of `DeleteService` | done, proved |
| `AppState`, `AppStore` | actions, reducer, view of the history; the store and its coordinator | | done, proved |
| `Shell` | navigation, listener, sessions and pages, as a stack of nested calls | `AppState` | done, proved |
| `Settings` | the settings file, its writers and the copies they hold | | done, proved |
| `Pipeline` | a deletion plan, its audit trail, the gate | | done, proved |
| `Session` | the session manager over restarts | | done, proved |
| `Screens` | rows, details and comparison of the review, with suspended tasks | | done, proved |
| `Stats`, `Thumbs` | the two caches that threads share | | done; `Thumbs` proved |
| `Ordering` | the members of a set in order, as a sort or a loop gives them | | used by `Screens`, `Grouping` |
| `Grouping` | what six engines make of what they read | | done, proved |
| `Funnel` | what the exact engine keeps of which content | | done, proved |

Every safety invariant and action property that a passing run checks has a theorem; what
is left to the runs is liveness (section 5).  No module here holds a RECURSIVE operator,
and invariants are conjunctions of named parts.

A module `M` holds the model and its properties, `MCM` the values TLC needs,
`M.cfg` and `M_<question>.cfg` the runs, `M_proofs` the theorems; `TurboScanClaims`
holds a claim of the program's texts that the code refutes.  An operator under
a comment that begins with "Variant" is a plausible wrong version of the next
definition; it takes no part in the specification and is there to show that
the properties notice the mistake.

## 3. The modules

### TurboScan and ScanContract

Threads: the scan thread (`spc`), the workers of the hash pool (`job`, one entry
per file), and the controller (`ctl`), which is whatever thread holds the
orchestrator's lock to pause, resume or cancel.

| variable | in the code |
|---|---|
| `state`, `cancelEvent`, `pauseEvent`, `results` | `TurboFileEngine._state`, `_cancel_event`, `_pause_event`, `_results` |
| `shown`, `outcome` | state of the last progress emitted; of the scan's last terminal progress |
| `spc`, `ret`, `stage`, `round` | position in `start()`, `_do_scan()`, `TurboScanner.scan()`; return point and argument of `_on_turbo_progress()`; hash phase |
| `cand`, `job`, `collected`, `lastGroups` | files to hash, futures, results of `as_completed()`, `scanner.last_groups` |
| `pending` | files whose prefix the Tier-A pool has still to read (`_apply_tier_a_filter()`) |
| `stopped`, `term`, `heard` | `_cancelled` and `terminal_state` of `_do_scan()`, and what it last read of the cancel event |

A read of a shared variable and the write that depends on it are two steps
(`CbCheck`/`CbWrite`, `PauseBegin`/`PauseEvent`/`PauseState`, `ResumeBegin`/
`ResumeState`, `ReadCancel`/`GuardTerminal`/`SetTerminal`), because no lock covers
both.  Between the discovery and the first hash phase lies the Tier-A pass: one look at
the pause event (`TierA`, or `SkipTierA` when the filter is off), then a read of every
candidate's prefix by a pool without a gate (`PrefixRead`, `PrefixDone`,
`PrefixAborted`).  Each hash phase begins with a read of a few samples, without a gate
either, when the algorithm is picked automatically (`Sample`).  The files are the members of one
group of duplicates: what the phases keep or lose of it is what they keep or
lose of any.  `ScanContract` has none of the threads: a scan runs, may be asked
to cancel, stops listening at one instant, and ends; it reports completion only
if it was not asked before that instant and its result is whole.  `Contract ==
INSTANCE ScanContract WITH ...` maps `cancelEvent` to the request and `heard` to
the instant, `KeepsContract` is that specification.

`leaked` counts the files that hash workers opened while the pause event is clear,
`ungated` is the set of passes without a gate that opened files in that time.
`PauseBound` says of a pause that the first is at most the pool's size and the second
one pass at most, the one that had begun: that pass is read to its end, whatever the
number of its files.  `IInv` joins `ScanInv` (nothing is lost between the phases but to a cancel that is still set
when the thread reads it last; ERROR is the scan's own; a CANCELLED that was
shown stays), `WorkersBound` (files opened in a pause plus workers past the gate are at
most the pool's size) and `PassesBound` (a pass that is about to read in a pause is the
first one of it).  No part follows from the properties: completeness at the end needs
what is true in the middle of every phase, and the pause bound needs the workers and
the passes that may still open a file.

### ScanService

One run is one press of Start.  `worker[r]` is the thread that
`BackendService.start_scan()` makes, with its position, mode, the scan thread it
waits for and the results it has gathered; `thread` the scan threads; `lock` the
orchestrator's lock; `queue` the callbacks on their way to the UI thread; `ui`
the flags of `DashboardPage` and `ScanHUD`; `session` and `rows` the bridge's
session and the history, `store` the groups that the application's store was given
last.  A confirmed cancel is three steps: `StopScan` opens the dialog, `ConfirmCancel`
is its answer, which looks at nothing (the scan may have ended behind the dialog), and
`ForwardCancel` passes it on; `KeepScanning` closes the dialog.  `OpenWorkspace` is
the banner that a completion leaves (`ui.banner`): it dispatches the store's groups as
a completed scan once more, under the session there is by then, and a second row is
recorded (`kind` "again").  An error message about an unreachable path leaves HUD and
session as they are (`UiError`).  The engines behind are reduced to what `TurboScan`
shows of them.  Two runs can meet: the first terminal progress of a run of two
modes clears `_scanning` (backend_service.py:373), and the next Start is accepted
while the first worker has a mode to go.  `mixed` remembers the runs that met
another, and those whose end was not told yet when an old banner was opened, which
takes their session.  `OwnRow` says of the others that their row has their own
session, all of their results and no others, and that the user did not cancel them; of
the rows that the banner adds, that they repeat another row; and of all rows, that no
session is in two of them.  Left out: the pause (see `TurboScan`), the dialog over
repeated read failures, and deletions of the review, which change what the banner finds
in the store.

### PollingEngine

The other eight engines are one loop with eight sets of omissions: whether the
loop waits at a pause, whether `start()` and `cancel()` write the state, whether
`cancel()` frees a paused loop, whether the cancel event is looked at after the
loop, whether a thread of its own runs the body, what a cancelled loop reports,
whether an exception sets ERROR, and of the walk that finds the files: whether it opens
them (`walk`), whether it looks at a pause (`hears`) and at a cancel (`early`).  `Engine` is the table of those facts, read
off each engine's source; one behaviour has one engine.  The walk (`Walk`, `Walked`)
adds to `found` what the loop then visits.  `PauseBound` speaks of the loop: in a pause
it reads the one item past the gate at most (`leaked`), and none if files were still
being found.  The walk of the similar-folder engine reads every file of the folders it
compares, partly or whole, and looks at no pause (similar_folder_engine.py:187-193,
326-395): a scan paused there goes on to read all of it and stops at the loop.
`unheard` counts those files and has no bound.

### HashCache

One path: the file (a version number, which is also its stat signature), its row,
and the treatment of the path by each scan: a batch lookup for the phase, a lookup by
the worker, stat, open, read, store.  A store is two transactions, with a lock
of the scan's own `HashCache` only: `Select` reads the row's other hash (`kept`), and
`SetQuick` or `SetManyFull` writes the new hash together with it, so that a worker left
behind by another scan may have written the row in between.  `NotStored` and `NoAnswer`
are stores that fail.  A scan that is cancelled leaves its worker, which may store later.
`FreshWritesRight` says of every write that a hash it changes under the file's signature
is of the file's content, unless it is the one that the writer had SELECTed and carries
over (`Carried`): a worker left behind may indeed write a stale other hash back.  What a worker read of a file that changed under it is
`Torn`.  `IInv`: a worker's signature was taken before it opened the file and its
hash is of what the file held since; the row's quick hash is of what the file
held since the row's signature, as long as no scan computes full hashes.

### CheckpointStore

Manifests and rows as the tables hold them, the results in the `queue` and in the
writer's `hand`, the scan with its position and page `offset`, `inflight` and
`zombies`, the workers of the current and of cancelled scans.  A resume reads
pages of pending rows and then of complete ones, while the writer may store
results of the scan before.  `Crash` forgets everything but the tables.
`FlushRefused` is a transaction that SQLite refuses, which the code logs and
drops.  `disturbed` remembers that a row changed while a resume was loading.

### Discovery

`Folders` and `Dedupe` make the list of roots, `Submit` a task for each that exists,
`LookCancel` ... `Ingest` the loop of `_collect()`, which polls, takes the finished
futures and treats the last one of them; `Take` and `Walk...` are the pool's
workers.  A walk lists one directory in a step; `stack` is what it has still to list.
`Vanish` takes a directory and what is below it away.  `direct` is a use of
`TurboScanner` without the engine (threads, several roots), `processes` the pool
that the engine asks for when several folders were picked.  `IInv`: what a walk
that was not cut short has not listed is below something on its stack, the roots
do not lie below each other, and each is taken once.

### DeleteService and ReviewFlow

A file is a path and the number of its content; 0 is no file.  A place holds content
1 at first, and the user may put later ones where a file was deleted.

| variable | in the code |
|---|---|
| `disk`, `newest` | the places, and the last content the user put there |
| `batch`, `trash`, `history` | transactions so far, the directory of each, `_TRASH_HISTORY` (a set of numbers, whose order is that of the list) |
| `results`, `marked`, `sel`, `undoStack`, `redoStack` | `ReviewFlowState`: listing, `marked_paths`, `set_selections`, stacks of snapshots of the two before |
| `snap`, `sheet`, `ticked`, `toast` | `_apply_undo_snapshot`, the apply sheet's step and checkbox, the toast with its Undo |
| `groups`, `selected`, `backend`, `lastJson`, `saved` | the store's groups and selected files, the engine's results, `last.json`, the saved session |
| `chosen`, `turns` | of the model: files ever chosen for deletion; the bound |

`DeleteService` also is the abstract specification: `TrashSpec` lets anybody delete
any files, undo, die, and put files, at any time.  `ReviewFlow` composes it with the
review: each of its actions is a handler, which runs to its end on the UI thread, and
calls `DeleteFiles` and `UndoLast` where the code does.  Which files can be moved is
the environment's choice, in both directions.  An apply works on `Cart`, what the code
puts together from marks and choices at that moment; what the sheet showed when it was
opened plays no part.  `Restarted` keeps what was written: `last.json`, the saved
session and the trash, whose history is lost.  `chosen` grows with every mark and
every deletion that an edit chooses, and with nothing else.

### Funnel

`buckets` are the candidate groups of one phase, sets of paths; `sized` the sizes the
discovery saw; `switches` the settings of the scan (canonical deduplication, index
only, adaptive Tier A, deep verify); `shown` is `last_groups`, `emitted` the rows the
generator yields, `answers` what the engine returns.  A content is its size and five
ranges of bytes, and each read is of some of them.  A phase is one step: it reads
every candidate once, so that an edit falls before or after that read, and a cancel
leaves out the results that come after it.  `troubled` are the files that somebody
touched, or whose read failed, during the scan.  `FunnelExact` says, of all others,
that what is shown agrees in all that was read and that no twins are missing.
`TurboScan` says when the funnel stops, `HashCache` what a cached answer is worth,
this module what is kept of which content.

### Grouping

`engine` is one of six; `todo` the walk of its roots, in which a path stands twice
when the roots overlap; `records` what was read.  The photo engine's `tree` and `uf`
are the code's own structures: nodes with children by distance, parents with path
compression and union by rank.  `outer` is the record that the comparison has
reached, `grouped` what the greedy engines have taken.  `GroupsAsCompared` compares
the result with a definition that knows of no tree and no forest: a group is closed
under the engine's comparison and connected by it.  What the code does in a loop over the
records is a function of how far the loop has come (`JoinedAll`, `Plant`); `Shots` are
the pictures folder by folder in the order they were taken, and a burst goes from one
`Pause` to the next.

### AppState, AppStore and Shell

`Reduce` is `reduce()` with its four sub-reducers over a record with the fields of
`AppState`.  `AppStore` dispatches every action of the coordinator in any order.  A
selection is any of `Selections`, listed or not: the review pushes all its marks
(host.py:1289-1290), and marks outlive a listing that is replaced, come back with a
snapshot and are read from a saved session.  So what is selected need not be in any
group.  What the reducers do promise is `SelectionCurrent`: whatever changes the groups
drops the selection, and what is selected was pushed since (`picked`).

`Shell` composes the reducer with the calls around it.  `calls` is the stack: a
navigation dispatches to the store, the store calls the listener with the state of
that dispatch, and the listener may navigate, which dispatches again.  The head is
the innermost call and handlers start on an empty stack.  `rail`, `drawn` and `listed`
are what the user sees; `recorded`, `lastJson` and `backend` what is kept.
The review's own apply and its undo are handlers here too, as they draw groups that the
store does not have: `OpenApplySheet` drops the `snapshot`, `Apply` takes one and prunes
`results` by what could be removed, `UndoApply` brings it back whatever the page was
given since, and each pushes marks to the store and draws again, but tells the store of
no groups.  `own` remembers that the listing is the page's own.  After an apply the page
shows what is left while the store keeps the old groups; coming back to the page, or a
scan that ends, shows the store's again; an undo after that brings back the older
listing.  `PagesCurrent` says just this: the review draws the groups it holds, and these
are the store's unless `own`.  An apply that is only simulated (an environment variable)
is left out; `ReviewFlow` has the files and marks behind these handlers.

### Settings

Every writer reads `settings.json`, changes its section and writes the whole file; a
section's value is the number of the write that made it.  The settings page writes a
copy it took when it was shown (`copy`, `controls`), the home page holds the options
of one mode (`options`).  A write truncates the file first, so an end of the program
leaves `Torn`, which reads as no settings.  `kept` is what the user chose last.

### Pipeline

`BuildPlan` checks a plan against the disk, where paths may be links and where
somebody else removes files; `ExecuteOne` deletes one operation; `WriteAudit`
appends a record to `auditFile`, whose lines are lists of what was written before
their end.  A write may be cut short, be retried after a failed fsync, or be the
program's last.  `begun` lists the batches in the order in which their record was
begun, with whether it was written whole at once.  `AuditTells` says that the file
tells of no other batch, and that a batch is missing only if its own write was not
whole or the one right before it was not: the record of an undisturbed batch that is
appended to the remains of a torn one is lost with them.  The `gate` issues tokens that expire; `grants` counts what each let
through.

### Session

One record per scan in `memory` and in a file.  `Written` operations save, `Kept` ones
do not; a write may be refused, or end the program half way.  `locked` is what the
user locked, against which the effective plan is read.

### Screens

`rv` is the state of the review as its screens see it.  `Filled` starts a list: the
first rows at once, the rest as a task in `tails`, with the generation it belongs to;
`Resume` is one tick of such a task, and any handler may run between two.  `Ordered`
(of `Ordering`) lists the members of a set by how many are before each: the groups of the listing
(`Largest`) and the files that an apply leaves (`Without`).  `ref` and
`cmp` are the indices of the comparison, kept in range and apart by `Normalized` and
`Stepped`; `panels` what was drawn for them.  A saved session is resumed by way of the
overview (`WithSession`), which closes the details of a group.

### Stats and Thumbs

`Stats`: `get_stats()` runs in a thread of the executor, the refresh in one of its own,
and the tasks of the home page on the UI thread; `dirty`, `refreshing` and `fresh` are
the service's flags, and a generation (`latest`) tells the last task from the others.
`Thumbs`: every access of a thread of the pool to the ordered dictionary is a step, and
one whose key is gone raises, which ends the task (`lost`).  A file that is missing or
locked when the cache is asked is remembered as one that cannot be shown, also when it
is there again (`missed`): `ThumbsShown` promises the pictures of the others, and no
picture of what cannot be shown.

## 4. The runs

All runs check safety in every interleaving; states are distinct states.

| run | instance | states | shows |
|---|---|---|---|
| `turbo_scan` | 2 files, 1 worker, prefix pass and 2 hash phases, 3 calls, 2 scans; fair | 1,273,655 | a COMPLETED scan is whole, in a pause at most one file per worker and the rest of one ungated pass are opened, no COMPLETED after CANCELLED, the contract; a scan that is not paused ends |
| `turbo_cancel_stops` | 2 files, 1 worker; fair | violated | a cancel of a paused scan leaves its thread waiting for ever |
| `scan_service` | 2 runs, of 2 modes and of 1, 1 cancel; fair | 767,534 | one scan thread at a time; the row of a run that met no other is its own and whole, what the workspace records again repeats a row, no session is counted twice; every run is told to the window and `_scanning` is cleared |
| `polling` | 8 engines, 2 items, 3 calls, 2 scans; fair | 411,759 | the pause bound of the loop, all or nothing in the result, a cancelled scan and one that is not paused end |
| `hash_cache` | 2 algorithms, both modes, 2 scans, 3 versions | 2,926,519 | without full hashes the cache answers with hashes of the file as it was during the scan; no write stores a stale hash of its own, whatever other hash it carries over |
| `hash_cache_pure` | 1 algorithm, 2 scans, 2 versions | violated | with full hashes it does not |
| `checkpoint` | 2 files, 2 scans, pages of 1 row, 1 fault | 1,271,518 | no row comes back, a resume loads each file once, no result is undone or lost but by a fault |
| `discovery` | a tree of 3 and a folder beside it, 1 worker; fair | 171,310 | a cut walk is never taken for a whole one, no file is found twice, a folder scanned alone is taken or reported, a cancel ends the phase |
| `discovery_reachable` | 2 folders | violated | two folders, both there, are found empty |
| `review` | 4 files as two pairs or one group, 2 batches, 3 choices or listings, 1 file left behind, 1 place used again | 1,634,357 | no original is lost, an undo meets only what is newer, only chosen files are deleted, no choice keeps and deletes a file, the snapshot is of the batch that an undo restores, an undo restores files and review alike, an apply leaves nothing of what it moved |
| `application` | one of eleven parts, see below; fair | 1,257,060 | twelve properties, one or two of each part |
| `byte_identical` | 3 files and an alias, 5 contents, default settings, nobody touches a file | violated | a group that the review calls "Verified byte-identical" holds files that differ, even in size |

The parts of the application run share no state with each other in the program, except
the shell and the reducer it calls, so that one behaviour exercises one of them
(`part`); the state space is their sum and each property speaks of its own part:

| part | instance | shows |
|---|---|---|
| views, calls | 2 files, 3 lists of history rows, pages of 2 rows, page indices -1..2 | `StoreConsistent`: the pages of the history together are its rows, whatever filter, order and page came before; a selection is of marks pushed since the groups last changed, listed or not |
| shell | 2 listings, 2 sets of marks, 2 scans, 2 themes, every route and key, the review's apply and undo | `RailAgrees`: when the nested calls are over, rail and store agree and the page is the one that was asked for; `PagesCurrent`: the review draws its groups, the store's unless an apply or undo changed them, and the history lists every scan |
| settings | 2 modes, 3 changes, ends of the program, also in a write | `SettingsKept`: what the page saved and what the user gave a mode survives the writes of the others |
| pipeline, gate | 4 files and a link, 3 plans, 3 in a row, 1 file removed by others, 1 write or program cut off; 2 tokens | `DeletionsGuarded`: no plan deletes the last copy, also when the keeper is a link to a file of the group, and no token opens the gate twice; `AuditTells`: every batch is read back, but one whose write was cut and the one written right after it |
| session | 1 scan, 2 files, 5 operations, 2 faults | `LocksHold`: a locked file is not deleted by the effective plan, also after a restart |
| screens | 2 listings, lists of more than 1 row filled bit by bit, 3 handlers | `ScreensCurrent`: rows and panels are those of the state, whatever came between the ticks of a task |
| stats | 2 workers, 2 tasks, 2 changes, 1 failing refresh; fair | `StatsSettle`: the home page, shown often enough, comes to show what the databases hold |
| thumbs | 1 entry, 2 tasks, 3 loads, 1 file that can be shown, missed once or never | `ThumbsShown`: a task that ran through shows every picture but of a missed file, the cache stays at its limit |
| grouping | 4 paths, overlapping roots, 6 contents at one to three bits | `GroupsAsCompared`: the groups of six engines against a plain definition |
| funnel | 3 files, an alias, a protected path, 5 contents, 5 settings, 1 mishap | `FunnelExact`: what is shown agrees in all that was read, and all twins are shown |

Why the bounds are enough.  *Files, workers*: with two files and one worker the
worker can be past the gate with a job queued, the prefix pass and the samples can be
cut or paused between two reads, and a read that fails breaks the group up; larger pools
and groups are covered by the theorems.  *Calls*: three allow a pause, a resume and
another pause or a cancel, each in the middle of any other step.  *Scans*: two let
everything left behind (events, state, zombies, queued results) meet the next scan.
*Versions*: three let a file change before and after a signature is taken.  *Pages*
of one row put every page boundary between two files.  *Modes*: two let a run go on
after its first terminal progress; the run that it meets needs no second one.  *Files of
a review*: as one group of four, a group loses files and stays; as two pairs, it loses
one and goes; and the same numbers are used for both.  The exchanges of files that keep
the pairs are a symmetry, since nothing in the specification names a file.  *Plans*: three
let a cut write meet the plan before, the one appended to it and one that must be
whole again.  *Missed*: one file that is missed once and asked for again.  *Batches*:
two suffice for an undo to meet the wrong one; that the history drops its oldest batch
is beyond this run and covered by the theorems.  *Turns*: three choices or listings, with
any number of the other handlers between them, let a choice be made, its group number be
used again, and another be made.  *Thresholds*: `Threshold`, `FirstRows`, `PerTick` and
the radii are small so that lists, groups and chains of three meet every bound;
`SparsePercent` is 60 so that the share of candidates falls on both sides of it with four
paths.  *Handlers*: three between the ticks of a task start a list, change it, and start
another.  *Contents*: one, and one each that the
first read, a longer read, only the full read and only the size tell from it.  A bound appears as a guard of the action that
counts (`ops < MaxOps`, `scans < MaxScans`, `version < MaxVersion`, ...).  Deadlock is not
checked in any run: all of these systems may stop, after the bounded calls or when the
user does nothing more.

Fairness.  The code's threads run (weak fairness of the scan thread, of each worker
and of the UI loop, which the interpreter's scheduler gives to every thread that can
take a step); a call that a caller has begun goes on.  Nothing is assumed of the user,
of errors, of crashes, or of a walker that reads a network share: in `discovery`
only the scan thread is fair.  In `application` the threads of the statistics are fair,
the thirty seconds of its cache pass, and a scan that has ended is recorded; that the user
comes back to the home page is the premise of `StatsSettle`, not an assumption.

## 5. What is proved

TLAPS checks these for all values of the constants, under the named assumptions of
the module concerned.

| theorem | says |
|---|---|
| `TurboScan_proofs!TypeCorrect` | `[]TypeOK` |
| `CompleteMeansAllHolds`, `PauseBoundHolds`, `NoCompletedAfterCancelledHolds` | the three properties, any files, pool, calls and scans, one hash phase or two, with the prefix pass and the samples |
| `EngineKeepsContract` | `Spec => KeepsContract`: the engine implements `ScanContract` |
| `HashCache_proofs!QuickRightHolds`, `AnswerOfThisScanHolds`, `FreshWritesRightHolds` | what the cache answers and stores, any scans and versions |
| `ScanService_proofs!ServiceTypesHold`, `OneScanThreadAlways`, `OwnRowAlways` | any runs, modes, threads and cancels |
| `PollingEngine_proofs!EngineTypesHold`, `PauseBoundAlways`, `AllOrNothingAlways` | the eight engines, any files, calls and scans |
| `CheckpointStore_proofs!TypeCorrect`, `RowsBelongHolds`, `RowsForwardHolds`, `ResultsNotLostHolds`, `LoadExactHolds` | what the store keeps and what a resume loads, any files, scans, page size and faults |
| `Discovery_proofs!TypeCorrect`, `WholeOrNothingHolds`, `FoundOnceHolds`, `LoneFolderHandledHolds` | any trees, folders, options and number of workers |
| `ReviewFlow_proofs!TrashKeepsOriginals` | `TrashSpec => []OriginalsKept`: whoever uses the trash |
| `ReviewUsesTrash` | `Spec => TrashSpec`: the review implements it |
| `OriginalsKeptHolds`, `OldestBelowHolds`, `UnchosenStaysHolds`, `ChoicesConsistentHolds`, `SnapOfLastBatchHolds`, `UndoBringsBackHolds`, `ReviewAfterApplyHolds` | any files, groups, length of the history, batches and choices |
| `Application_proofs!LocksHoldAlways`, `SettingsKeptAlways`, `DeletionsGuardedAlways`, `AuditTellsAlways`, `FunnelExactAlways`, `RailAgreesAlways`, `PagesCurrentAlways`, `ThumbsShownAlways`, `StoreConsistentAlways`, `ScreensCurrentAlways`, `GroupsAsComparedAlways` | each of a part's own specification: any sessions, settings, plans, contents, listings, pages, thresholds, radii and number of operations |
| `PartsHold` | the specification of the run implements each of these parts and keeps the eleven properties together |

Each follows the same path: `Init => IInv`, `IInv /\ [Next]_vars => IInv'` with a
lemma per action or per group of actions that leave the same things alone, and
`IInv => P`.  Action properties are proved from `IInv` at both ends of a step.
The refinement maps the initial state to an initial state of the contract and each
action to a step of it or to a stutter; it needs `NothingLost` at the step that
finishes.

For the review the argument has two stories.  `TrashInv` (`TrashTypeOK`, `OldestBelow`
and `OriginalsKept`) is inductive for `TrashSpec`: a batch keeps the original of a path
unless it lies at its place or in an earlier batch, and an undo that overwrites a file
brings back an older one.  The review inherits it by refinement, since
every handler is a step of the trash or leaves it alone.  `ReviewInv` says that
whatever may be deleted is of files once chosen: marks, choices, both stacks, the
snapshot, the store's selection, the saved session and the trash; and that each choice in
any of them is consistent.  `UnchosenStays` alone is not inductive, as an undone edit or
a reopened session may bring back marks of long ago.  `UndoBringsBack` and
`ReviewAfterApply` need `ApplyInv` beside it, which tells of the listings and of the
snapshot's cart.

What the other invariants add to their properties:

- `ScanService`: a live scan thread is the current one, its worker waits for it and is at
  its mode; every run but the last is told unless it met another; of a lone run, every
  result that it or a callback of it holds is its own, and complete up to the mode it is
  at unless it was cancelled or failed.
- `PollingEngine`: how far a body has come where it is; an engine without a thread of its
  own has one body; nobody is past the pause once the file past it was read; what the
  newest scan has in the results at each point.
- `CheckpointStore`: in an undisturbed resume a file is loaded once if its row comes
  before the offset in the order of the query, and not otherwise; nobody holds a result
  for a manifest that is new.
- `Discovery`: until the folder of a scan is taken or reported, its task is one that the
  scan thread waits for or the one it has in hand.
- `ReviewFlow` (`ApplyInv`): every listing, also the ones that a snapshot, the store and
  `last.json` hold, has groups of two files and more; what the batch of a snapshot took was in its cart.
- `Session`: the records in memory, and those on disk whose write was not refused, hold
  the locks, and no record both locks and intends a file.
- `Settings`: a torn file is met by the start only; what the file has lost of a mode's
  options to a Save of an old copy is not in the copy either, so that no later Save
  brings it back.
- `Pipeline`: what is left to do spares every keeper of the plan, and a token that is
  issued or to come let nothing through yet; only the last line of the audit file is open,
  it is empty if the last write was whole, every record in the file is of a batch that
  ended, and a batch is missing only if its write or the one before was not whole.
- `Funnel`: as long as nobody stopped, two untouched files that are the same have a path
  each in one bucket of every phase.
- `Shell`: what the innermost call finds of rail and state, by its kind; what waits for
  it; that a page which is not up to date has a call that will draw it, or fill it if its
  groups are neither the store's nor its own (`DrawnInv`); and that where a repainting
  waits, no other call moves or fills anything (`RepaintInv`).
- `Thumbs`: what a task has shown and what it has still to do make up what it was asked
  for, but for files that were missed; an entry without a picture is of such a file or of
  one that cannot be shown; the entries beyond the limit are the tasks about to remove one and the keys that
  were put and not yet moved.
- `AppStore`: the selection is of what was picked last, and the rows are a sequence.  That the pages of a sequence, put
  together, are the sequence is proved by a least counterexample.
- `Screens`: no task is of a generation to come, at most one is of the current one, and
  it belongs to the list that is shown; the rows with those that it will add are those of
  the listing.  An inspect screen's indices are in range and apart, and its panels are of
  them.
- `Grouping`: during the comparison the union-find is a forest whose ranks grow towards
  the roots, no class of it falls into two parts without an alike pair between them, and
  every alike pair with a record already passed shares a root; the tree holds every
  signature once, with its records, where an addition of it would end; the groups a greedy
  engine has made are disjoint and of files it counts as taken.

The argument for `Grouping` is the longest one.  The ranks make `Root` well defined (the
recursion up the parents is a function, shown from the bounded ranks) and let what holds
of a root be carried down; path compression moves no root and a union merges two classes
and no others (`FoundKeeps`, `JoinedMerges`).  A radius search of the tree is exact
(`QueryFinds`): by the triangle inequality of `HammingDistance` a record within the radius
is below a child that the search goes on to, since the walk to a signature passes a
child at the distance that it has itself.  So the photo engine joins the pairs that the
plain comparison would, and at the end the clusters are the chains.  A burst is whole
because the list of a folder is sorted: between two close pictures there is no pause.

A sort, a filter or a fold of the libraries is opaque to the provers where it takes an
operator.  The modules that are proved about say instead how many members come before
one (`Ordering`, the digits of `Shell`) or which of a set comes first (the
operations of a `Pipeline`), and facts about all lengths of a sequence are proved from
the least length that would refute them (`SmallestNumber`).

Assumptions beyond the types of the constants:

- `HashCache`: a change of the content changes the signature (size, time or inode).
- `Discovery`: directories form trees (those above one lie above each other, and there is
  a child on the way down).  `TurboScan`, `Funnel`, `Session`: finite sets of files.
- `Pipeline`: `PathAssumption`, a link leads to a path that is no link, as `resolve()`
  does; `PlansDisjoint`, no file is in two groups of a plan, as a file is in one group.
- `Settings`: `SectionAssumption`, no scan mode has the name of another section.
- `Thumbs`: no more tasks than the six threads of the pool.
- `Screens`: `FirstRows` is at most `Threshold`, which each of the configurations in
  chunked_view.py:29-63 obeys; a list longer than the threshold has then a first
  part and a rest.
- `Grouping`: what a file holds has a finite set of bits and measures that are natural
  numbers; the radius, the tolerance and the smallest sizes are natural numbers too.

Only model-checked: liveness (`ScanEnds`, `RunsEnd`, `ScansEnd`, `CancelEnds`,
`StatsSettle`), which needs fairness and ENABLED and is out of the prover's reach;
and `QuickRight`'s counterpart for full hashes, which fails, see below.  `OldestBelow` and the type invariants have no
run: they are parts of what is proved.

## 6. Where the code departs from what is said of it

With a run:

- `CancelStops`: the dialog over a paused scan offers "Cancel to stop now and keep
  partial results"; `TurboFileEngine.cancel()` does not set the pause event, and the
  scan thread waits for it for ever.
- `PureOptimization`: "cache is a pure optimization (never changes semantics)"; an
  update of one hash renews the signature and keeps the other, stale hash, which
  then counts as fresh.
- `ReachableScanned`: several folders are walked by processes whose arguments are
  one short, so that `skip_system` is taken for the cancel event, every worker raises
  and every folder is reported as unreachable.

- `VerifiedByteIdentical`: the review writes "Verified byte-identical" over every group
  (trust_labels.py:12; group_card.py:32 "byte-identical copies"), and the home page
  promises "Full-file hashing" (dashboard_page.py:741).  With `verify_duplicates` off, its
  default, the last hash is of the first and last 32 KiB, and the key of a group is that
  hash alone (turbo_scanner.py:2409): files of different sizes may be one group.

Seen while modelling, in the model but without a run of their own:

- "respond to pause() within ~1 file" (turbo_file_engine.py:12-15, turbo_scanner.py:1198):
  true of each hash worker, not of the Tier-A pass (turbo_scanner.py:847-1081) and of the
  samples of the automatic choice of an algorithm (2500-2529), which have no gate: a pass
  that has begun is read to its end.  The similar-folder engine reads all files of its
  walk while it is paused (similar_folder_engine.py:187-193, 326-395).
- The banner of a finished scan that opens the workspace records the scan a second time
  (dashboard_page.py:1552-1567); opened while another scan runs, it takes that scan's
  session.
- The answer to the dialog that stops a scan looks at nothing (dashboard_page.py:1405-1433):
  given after the scan has ended, it cancels what the orchestrator has active.
- A cancelled scan delivers no group at all: the conversion stops at its first
  (turbo_file_engine.py:703), although the same dialog promises partial results.
- `pause()` of the orchestrator tests the engine's state and then writes PAUSED: if the
  scan ends in between, PAUSED stays with the thread gone (orchestrator.py:191).  Some of the
  other engines never report SCANNING, so that `pause()` passes them over.
- The completion of a cancelled run that is handled after the next Start is
  recorded as a completed scan (dashboard_page.py:875 resets `_was_cancelled`).
- The terminal progress of a run's first mode clears `_scanning`, and a second
  worker is accepted beside the first (backend_service.py:373).
- A manifest that is adopted without pending rows is scanned afresh, but only its
  pending rows are grouped.  LIMIT and OFFSET pages of pending rows are disturbed by
  the resume itself when it marks missing files as errors.
- A row that completes between the two queries of a resume is read by both, so that a
  file is a duplicate of itself in `last_groups`.
- `index_only` is part of a manifest's scope, so that an index is never resumed by
  the scan that would hash it (docs/architecture/scan_scale.md:21).
- Of several walks that finish together the loop of `_collect()` treats the last.
- `dedupe_roots()` drops a folder below another even if the other's walk does not
  reach it (subfolders off, hidden or excluded directories on the way).
- The toast says "Restored previous review state." (host.py:598) whether or not there was
  a snapshot; opening the sheet drops it and leaves the toast's Undo.  An apply
  that moved nothing offers Undo, which then restores an earlier batch.
- "You can restore the last batch afterwards." (apply_sheet.py:61) holds until the
  program ends; the files stay in the trash and no undo finds them.
- "protected path(s) will be skipped" (apply_sheet.py:68), but nothing ever
  puts a path among `protected_paths`.
- The store may hold files selected that are in none of its groups: the review pushes every
  mark it has (host.py:1289-1290).
- The store's groups are not pruned by an apply, so that a change of tabs lists deleted
  files again, and a rule may then choose as the keeper a file that is gone.
- An undo moves a file over one that was put at its place since.
- A scan that ends while the sheet is open replaces the listing, and the cart that is
  deleted is not the one that was shown.
- `last_groups`, which is what the engine shows, is made before
  `_assert_no_self_duplicates()` runs (turbo_scanner.py:1617, 1640): "no emit-ready group
  may contain two entries resolving to the same canonical file"
  (group_invariants.py:39-40) holds of the rows alone, which nobody uses.
- Tier A "can only *reject* non-matches" (turbo_scanner.py:865), but a file whose prefix
  cannot be read leaves its group, and a twin that is then alone leaves with it.
- With overlapping roots the photo, document and burst engines read a file twice and
  group it with itself; the home page refuses a folder only if it is there already
  (dashboard_page.py:786).
- A picture whose hashes come from the cache has no dimensions, so that a smaller one read
  afresh may be the keeper.  The video and music engines do not look at the protected
  folders.
- The store's listener leads away from the exclude list, whose key the store does not
  know (app_state.py:18-20), so that its page cannot be reached.
- Save on the settings page writes back what the other sections were when the page was
  shown (settings_page.py:759).  An end of the program during any write of the file loses
  all of it.
- The home page keeps the numbers it has when the refresh ends after it has asked
  ("Refresh UI when background stats cache finishes recomputing"), until it is shown
  again; clearing a history and logging a deletion do not invalidate them.
- "an interrupted write is safe: at worst one incomplete line is ignored on next read"
  (store.py:150-152): the record of the next batch, which is written whole, is appended to
  that line and lost with it, which is why `AuditTells` excuses that batch too; a failed
  fsync is retried and leaves the record twice.
- `mark_deleting()`, `unlock_survivor()` and `clear_delete_intent()` of the session
  change memory alone: a restart brings back what they took away.
- A refresh of the browse screen to details or to nothing does not end the task that
  fills the list, which goes on appending to a host that is not shown.
- The step to the next group from one that is not listed any more skips the first.
- `ThumbnailCache` is "Thread-safe enough" by its docstring; between two accesses another
  thread may remove the entry, and the `KeyError` ends the whole task of the browse
  screen.  The browse task also starts from the rows that were there when it began, so
  that rows the list adds later have no pictures until the next task.  A thumbnail that
  could not be made is kept as such for good.

## 7. What is not modelled

Left out inside the components: counters and throughput of the progress; the phase
artifacts of `TurboScanner` and its directory cache, which a scan with a checkpoint never
fills; the heartbeat of a manifest and the `completed_files` counter; the throttle of
progress callbacks.  Of the review: the filter sheet, the export and the full-screen
comparison, which nothing calls; sorting and filters of the listing (a rule is applied to
some of the groups, in some order, with some keeper); groups of one file that the
large-file and empty-folder scans list; the dry run of an environment variable, permanent
deletion from the review, the thread of `delete_and_prune_async()`, and a `last.json` that
is half written.  The move of a file is one step.  Of the engines: how a hash, a frame or a
tag is computed; equal hashes stand for equal bytes.  Of the caches: the decoding of
pictures, the limit of six threads (there are fewer tasks in the instance).

Operations without callers are left out: `import_legacy_json()`, `prune_history()` and
`search_history()` of the audit log, `load_scan_results_for_session_timestamp()` of the
snapshot, the engine-error history.  `CerebroPipeline`, `SessionManager` and
`CerebroScheduler` are made by tests alone; the first two are modelled, as they guard
deletions, the third is not.  The old review page, which a setting can bring back, is not
modelled, nor are configuration and its migration, which only tests load.

`PROJECT.json` lists the components that have no module, with the reason.
