----------------------------- MODULE DashboardPages ----------------------------
(***************************************************************************)
(* The dashboard of a signed-in user: the shell with its history, and the  *)
(* pages.  A page mounts with fresh state whenever its view opens and      *)
(* loses it when the view changes, so a behaviour of this specification is *)
(* the life of one of them, from any state it may mount in; the shell's    *)
(* covers every sequence of views.                                         *)
(***************************************************************************)
EXTENDS Navigation, WorkspaceMenu, KeysPage, MembersPage, TracePage,
        OverviewPage, WorkflowPages, UsagePages, Charts

Init ==
    page \in UNION {ShellInit, MenuInit, KeysInit, MembersInit, TraceInit,
                    OverviewInit, SetupInit,
                    WorkflowInit, ReleasesInit, CompareInit,
                    UsageInit, ClientInit, TableInit, ChartInit}

Next ==
    \/ ShellNext \/ MenuNext \/ KeysNext \/ MembersNext \/ TraceNext
    \/ OverviewNext \/ SetupNext
    \/ WorkflowNext \/ ReleasesNext \/ CompareNext
    \/ UsageNext \/ ClientNext \/ TableNext \/ ChartNext

Spec == Init /\ [][Next]_page

--------------------------------------------------------------------------------

\* The shell and the menu hold a view that exists, a place in the history, and
\* a highlighted entry of the palette that is in its list; the menu lists and
\* chooses workspaces the user created or joined.
TypeOK == ShellTypeOK /\ MenuTypeOK

\* Once its calls are over and its list is fetched, each list that the user
\* edits is the server's: the workspaces of the switcher, the API keys, the
\* members and the pending invites.
ListsCatchUp == MenuCatchesUp /\ KeysCatchUp /\ MembersCatchUp

\* A secret on the screen is the one of the place it is shown in: the new key's
\* of this workspace, the invite link's that is still good.
SecretsOnScreen == SecretsStayHome /\ LinkIsCurrent

\* What a page singles out or draws is what its data say: the markers and the
\* incidents are the worst, the flags are of the latest releases, the marked rows
\* make up most of the spend, and lines and tooltips are of their own buckets.
DrawnAsMeasured ==
    /\ FlagsShown /\ ReleasesFlagged /\ TopSpendMarked
    /\ ChartHasSeries /\ LinesShowGaps /\ TooltipsTellBucket

\* The numbers on a page are of what the user asked for: the workflow, the pair
\* of versions, the attribute, the client.
NumbersAreAsked == WorkflowNumbers /\ PairsCompare /\ UsageNumbers
================================================================================
