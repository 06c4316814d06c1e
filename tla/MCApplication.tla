----------------------------- MODULE MCApplication -----------------------------
(***************************************************************************)
(* A bounded instance of the parts of the application around the scan: the *)
(* store and its coordinator, the shell of pages, the settings, the        *)
(* deletion pipeline and its gate, the session manager, the screens of the *)
(* review, the statistics, the thumbnails, the grouping engines and the    *)
(* funnel of the exact duplicates.                                         *)
(*                                                                         *)
(* The shell is composed with the store it dispatches to. The others share *)
(* no state with each other in the program either, so one behaviour        *)
(* exercises one of them, chosen first: the state space is their sum.      *)
(***************************************************************************)
EXTENDS AppStore, Shell, Settings, Pipeline, Session, Screens, Stats, Thumbs, Grouping,
        MCFunnel

CONSTANTS a, b   \* the files of the listings

VARIABLE part          \* the part this behaviour exercises

restVars == <<settingsVars, pipelineVars, sessionVars, screensVars,
              thumbsVars, groupingVars, funnelVars>>
vars == <<part, storeVars, shellVars, statsVars, restVars>>

-----------------------------------------------------------------------------
(* The instance.                                                           *)

MCListings == {{}, {{a, b}}}

\* Marks of a file that may be listed or not.
MCSelections == {{}, {a}}

Row(t, m, x) == [ts |-> t, mode |-> m, text |-> x]

MCHistoryLoads ==
    {<<>>,
     <<Row(1, 1, "x"), Row(2, 1, "y"), Row(3, 2, "x"), Row(4, 1, "x")>>,
     <<Row(2, 1, "y"), Row(1, 2, "x"), Row(1, 2, "y")>>}

MCFilePath == {"a", "b", "c", "d"}
MCLinkTo == [l |-> "a"]

Choice(k, ds) == [keep |-> k, delete |-> ds]

\* A keeper that is a link to a file of its group, a keeper that is also
\* deleted, a file listed twice.
MCPlans == {<<Choice("l", <<"a", "b">>), Choice("c", <<"d", "c">>)>>,
            <<Choice("a", <<"b", "b">>)>>,
            <<Choice("b", <<"l", "a">>)>>}

MCSheets == {<< <<"a", "b", "c">>, <<"d", "e">>, <<"f", "g">> >>,
             << <<"d", "e">>, <<"a">>, <<>> >>}

MCWanted == {<<"a", "b">>, <<"b", "c">>}

\* A root inside another root, and the files of both in the order of a walk.
MCUnder == [p |-> <<"a", "b", "c", "d">>, q |-> <<"b", "c">>]
MCFolderOf == [a |-> "p", b |-> "q", c |-> "q", d |-> "p"]
MCChosen == {<<"p">>, <<"p", "q">>}

Content(s, x, n, r) == [sig |-> s, aux |-> x, size |-> n, rank |-> r]

\* Signatures at one, two and three bits from each other, times with a pause.
MCContents == {Content({}, 1, 1, 0), Content({}, 3, 3, 1), Content({1}, 1, 2, 1),
               Content({1, 2}, 2, 1, 2), Content({1, 2, 3}, 3, 2, 0),
               Content({2}, 5, 3, 0)}

-----------------------------------------------------------------------------

Init ==
    /\ part \in {"views", "calls", "shell", "settings", "pipeline", "gate",
                 "session", "screens", "stats", "thumbs", "grouping", "funnel"}
    /\ StoreInit /\ ShellInit /\ SettingsInit /\ PipelineInit /\ SessionInit
    /\ ScreensInit /\ StatsInit /\ ThumbsInit /\ GroupingInit /\ FunnelInit
    /\ part = "funnel" \/ disk = [f \in Original |-> CHOOSE c \in Blobs : TRUE]

ViewsStep == part = "views" /\ ViewsNext
         /\ UNCHANGED <<part, shellVars, statsVars, restVars>>

CallsStep == part = "calls" /\ CallsNext
         /\ UNCHANGED <<part, shellVars, statsVars, restVars>>

ShellStep == part = "shell" /\ ShellNext
             /\ UNCHANGED <<part, storeVars, statsVars, restVars>>

SettingsStep == part = "settings" /\ SettingsNext
    /\ UNCHANGED <<part, storeVars, shellVars, statsVars, pipelineVars, sessionVars,
                   screensVars, thumbsVars, groupingVars, funnelVars>>

PipelineStep ==
    /\ \/ part = "pipeline" /\ PipelineNext
       \/ part = "gate" /\ GateNext
    /\ UNCHANGED <<part, storeVars, shellVars, statsVars, settingsVars, sessionVars,
                   screensVars, thumbsVars, groupingVars, funnelVars>>

SessionStep == part = "session" /\ SessionNext
    /\ UNCHANGED <<part, storeVars, shellVars, statsVars, settingsVars, pipelineVars,
                   screensVars, thumbsVars, groupingVars, funnelVars>>

ScreensStep == part = "screens" /\ ScreensNext
    /\ UNCHANGED <<part, storeVars, shellVars, statsVars, settingsVars, pipelineVars,
                   sessionVars, thumbsVars, groupingVars, funnelVars>>

Of(A) == part = "stats" /\ A
         /\ UNCHANGED <<part, storeVars, shellVars, restVars>>

ThumbsStep == part = "thumbs" /\ ThumbsNext
    /\ UNCHANGED <<part, storeVars, shellVars, statsVars, settingsVars, pipelineVars,
                   sessionVars, screensVars, groupingVars, funnelVars>>

GroupingStep == part = "grouping" /\ GroupingNext
    /\ UNCHANGED <<part, storeVars, shellVars, statsVars, settingsVars, pipelineVars,
                   sessionVars, screensVars, thumbsVars, funnelVars>>

FunnelStep == part = "funnel" /\ FunnelNext
    /\ UNCHANGED <<part, storeVars, shellVars, statsVars, settingsVars, pipelineVars,
                   sessionVars, screensVars, thumbsVars, groupingVars>>

Next == \/ ViewsStep \/ CallsStep \/ ShellStep \/ SettingsStep \/ PipelineStep
        \/ SessionStep \/ ScreensStep \/ Of(StatsNext) \/ ThumbsStep \/ GroupingStep
        \/ FunnelStep

\* The threads of the statistics run on, the cache expires, a scan that ended
\* is recorded by its thread.
Fairness ==
    /\ \A w \in Worker : WF_vars(Of(WorkerStep(w)))
    /\ \A f \in Fetch : WF_vars(Of(FetchStep(f)))
    /\ WF_vars(Of(Expire))
    /\ WF_vars(Of(RecordScan))

Spec == Init /\ [][Next]_vars /\ Fairness

=============================================================================
