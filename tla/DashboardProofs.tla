----------------------------- MODULE DashboardProofs ---------------------------
(***************************************************************************)
(* The safety properties of DashboardPages, for any names, workspaces,     *)
(* people, checks and bounds: the lists and secrets that the user edits,   *)
(* the chosen workspace, the history and the location of the shell, what   *)
(* the user dismissed, and whose numbers are shown.  A step keeps the      *)
(* page's name, so the invariants that ShellProofs and PagesProofs         *)
(* establish page by page make one invariant of the dashboard.             *)
(***************************************************************************)
EXTENDS DashboardPages, ShellProofs, PagesProofs, TLAPS

\* Most leaves are set theory for Zenon; those that need more cite SMT.
USE ZenonT(30)

\* The invariant of the page on the screen.
DashboardInv ==
    /\ PagesInv
    /\ On("shell") => ShellInv(page)
    /\ On("menu") => MenuInv(page)
    /\ On("keys") => KeysInv(page)
    /\ On("members") => MembersInv(page)

--------------------------------------------------------------------------------

\* Where the invariants start: each page mounts with its own, under its name.
LEMMA DashboardStart == Init => DashboardInv
<1> SUFFICES ASSUME Init PROVE DashboardInv
  OBVIOUS
<1>1. ASSUME "name" \in DOMAIN page, page.name \in {"shell", "menu", "keys", "members"}
      PROVE  PagesInv
  BY <1>1 DEF PagesInv, On
<1>2. CASE page \in ShellInit
  BY <1>1, <1>2, ShellStart DEF DashboardInv, On, ShellInv, ShellType
<1>3. CASE page \in MenuInit
  BY <1>1, <1>3, MenuStart, SMTT(30) DEF DashboardInv, On, MenuInv, MenuType
<1>4. CASE page \in KeysInit
  BY <1>1, <1>4, KeysStart DEF DashboardInv, On, KeysInv, KeysType
<1>5. CASE page \in MembersInit
  BY <1>1, <1>5, MembersStart DEF DashboardInv, On, MembersInv, MembersType
<1>6. CASE page \in UNION {TraceInit, OverviewInit, SetupInit, WorkflowInit, ReleasesInit,
                           CompareInit, UsageInit, ClientInit, TableInit, ChartInit}
  BY <1>6, PagesStart DEF DashboardInv, Elsewhere
<1> QED
  BY <1>2, <1>3, <1>4, <1>5, <1>6 DEF Init

\* Every step keeps the invariant of the page that it is a step of.
LEMMA DashboardStep == DashboardInv /\ [Next]_page => DashboardInv'
<1> SUFFICES ASSUME DashboardInv, [Next]_page PROVE DashboardInv'
  OBVIOUS
<1>1. ASSUME "name" \in DOMAIN page', page'.name \in {"shell", "menu", "keys", "members"}
      PROVE  PagesInv'
  BY <1>1 DEF PagesInv, On
<1>2. CASE ShellNext
  <2>1. page.name = "shell" /\ ShellInv(page)
    BY <1>2 DEF ShellNext, On, DashboardInv
  <2>2. ShellInv(page')
    BY <1>2, <2>1, ShellStep
  <2> QED BY <1>1, <2>2 DEF DashboardInv, On, ShellInv, ShellType
<1>3. CASE MenuNext
  <2>1. page.name = "menu" /\ MenuInv(page)
    BY <1>3 DEF MenuNext, On, DashboardInv
  <2>2. MenuInv(page')
    BY <1>3, <2>1, MenuStep
  <2> QED BY <1>1, <2>2 DEF DashboardInv, On, MenuInv, MenuType
<1>4. CASE KeysNext
  <2>1. page.name = "keys" /\ KeysInv(page)
    BY <1>4 DEF KeysNext, On, DashboardInv
  <2>2. KeysInv(page')
    BY <1>4, <2>1, KeysStep
  <2> QED BY <1>1, <2>2 DEF DashboardInv, On, KeysInv, KeysType
<1>5. CASE MembersNext
  <2>1. page.name = "members" /\ MembersInv(page)
    BY <1>5 DEF MembersNext, On, DashboardInv
  <2>2. MembersInv(page')
    BY <1>5, <2>1, MembersStep
  <2> QED BY <1>1, <2>2 DEF DashboardInv, On, MembersInv, MembersType
<1>6. CASE \/ TraceNext \/ OverviewNext \/ SetupNext \/ WorkflowNext \/ ReleasesNext
           \/ CompareNext \/ UsageNext \/ ClientNext \/ TableNext \/ ChartNext
  BY <1>6, PagesStep DEF DashboardInv, Elsewhere
<1>7. CASE page' = page
  BY <1>7 DEF DashboardInv, PagesInv, On
<1> QED
  BY <1>2, <1>3, <1>4, <1>5, <1>6, <1>7, SMTT(30) DEF Next

\* The invariant of the dashboard holds in every behaviour.
LEMMA DashboardKept == Spec => []DashboardInv
BY DashboardStart, DashboardStep, PTL DEF Spec

--------------------------------------------------------------------------------

\* The view, the stored view and the selection are known ones, the cursor is in
\* the history, the palette highlights an item of its list, and the menu lists
\* and chooses workspaces that exist or existed: however views, queries, arrow
\* keys, creations and deletions alternate (Dashboard.tsx, CommandPalette.tsx).
THEOREM WellTyped == Spec => []TypeOK
<1>1. DashboardInv => TypeOK
  BY ShellShown, MenuShown DEF DashboardInv, TypeOK, ShellTypeOK, MenuTypeOK
<1> QED BY <1>1, DashboardKept, PTL

\* Back works, for any history: the entry at the cursor holds what is on the
\* screen and no press of Back leaves the user where they were (the comment on
\* the history effect of Dashboard.tsx).
THEOREM HistoryTells == Spec => []HistoryTellsView
<1>1. DashboardInv => HistoryTellsView
  BY ShellShown DEF DashboardInv, HistoryTellsView
<1> QED BY <1>1, DashboardKept, PTL

\* URLs are shareable, for any names of workflows, versions, traces, clients and
\* extension pages: opening the location renders what is on the screen
\* (stateToPath and pathToState of routing.ts).
THEOREM LocationsShare == Spec => []URLShareable
<1>1. DashboardInv => URLShareable
  BY ShellShown DEF DashboardInv, URLShareable
<1> QED BY <1>1, DashboardKept, PTL

\* Each list that the user edits is the server's once its calls are over and its
\* query is settled, whatever order the answers and the refetches came in
\* (the mutations' onSuccess handlers and the query cache).
THEOREM ListsFollow == Spec => []ListsCatchUp
<1>1. DashboardInv => ListsCatchUp
  BY MenuShown, KeysShown, MembersShown
  DEF DashboardInv, ListsCatchUp, MenuCatchesUp, KeysCatchUp, MembersCatchUp
<1> QED BY <1>1, DashboardKept, PTL

\* The workspace that the user chose or created is the one on the screen, as
\* the list catches up with creations and deletions (Dashboard.tsx).
THEOREM ChoiceShown == Spec => []ChosenIsShown
<1>1. DashboardInv => ChosenIsShown
  BY MenuShown DEF DashboardInv, ChosenIsShown
<1> QED BY <1>1, DashboardKept, PTL

\* The secret of a new key is shown in the key's own workspace, and the invite
\* link on the screen is the one that still works, whatever answers arrive after
\* the user switched workspaces or invited again (the keys and members pages).
THEOREM SecretsAtHome == Spec => []SecretsOnScreen
<1>1. DashboardInv => SecretsOnScreen
  BY KeysShown, MembersShown DEF DashboardInv, SecretsOnScreen, SecretsStayHome, LinkIsCurrent
<1> QED BY <1>1, DashboardKept, PTL

\* What the user dismissed or muted stays out of sight, whatever the detector
\* finds next and however often the block is mounted (OutliersPanel.tsx,
\* SetupChecks.tsx).
THEOREM DismissalsStand == Spec => []DismissedStayHidden
<1>1. DashboardInv => DismissedStayHidden
  BY OverviewShown DEF DashboardInv, PagesInv
<1> QED BY <1>1, DashboardKept, PTL

\* The numbers on a page are of the workflow, the versions, the attribute and the
\* client that the user asked for, whatever lands after they turned to others:
\* previous data are of the same workflow and workspace (useWorkflowDetail.ts),
\* a comparison is of two versions (versions.ts), and a breakdown and a client's
\* page wait for an attribute and a client (useUsage.ts, useClientDetail.ts).
THEOREM NumbersFollow == Spec => []NumbersAreAsked
<1>1. DashboardInv => NumbersAreAsked
  BY NumbersShown DEF DashboardInv, PagesInv, NumbersAreAsked
<1> QED BY <1>1, DashboardKept, PTL
================================================================================
