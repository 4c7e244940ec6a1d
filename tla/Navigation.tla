------------------------------- MODULE Navigation ------------------------------
(***************************************************************************)
(* How the dashboard's shell keeps the view, the selection and the         *)
(* browser's history together: the sidebar, the breadcrumb, the command    *)
(* palette, the links of the pages, the Back and Forward buttons and a     *)
(* reload.  A path is the sequence of its decoded segments.  A history     *)
(* entry without a view was made by another page of the application.       *)
(***************************************************************************)
EXTENDS PageState, Integers, Sequences

CONSTANTS
    Workflows, Versions, Traces, Clients,    \* names that a link selects
    Pages,         \* the views that extensions add
    Matches,       \* the lists of palette items that some query leaves
    MaxEntries     \* bound: history entries

VIEW_IDS ==
    {"overview", "workflows", "compare", "trace", "usage", "users", "user",
     "keys", "settings"}

\* The views offered in the command palette, in order.
CMD_ITEMS == <<"overview", "workflows", "usage", "users", "keys", "settings">>

\* The views offered in the sidebar.
NAV_ITEMS == {"overview", "workflows", "usage", "users", "keys", "settings"} \cup Pages

\* The views, and what of them is selected.
Views == VIEW_IDS \cup Pages

Selections ==
    [workflow : Workflows \cup {None}, base : Versions \cup {None},
     candidate : Versions \cup {None}, traceId : Traces \cup {None}, user : Clients \cup {None}]

\* The words that the views' paths are made of.
SEGMENTS ==
    {"extensions", "workflows", "compare", "traces", "usage", "clients", "users", "api-keys",
     "settings"}

\* null is no view, no word of a path, no name and no state of the shell, and
\* an extension adds views of its own (their ids start with "extension:").
ASSUME NavigationAssumption ==
    /\ None \notin Views \cup SEGMENTS \cup Workflows \cup Versions \cup Traces \cup Clients
    /\ None \notin [view : Views, selected : Selections]
    /\ Pages \cap VIEW_IDS = {}
    /\ MaxEntries \in Nat

\* A query leaves views, and no more of them than the palette lists.
ASSUME MatchesAssumption ==
    \A m \in Matches : m \in Seq(VIEW_IDS) /\ Len(m) \in 0..Len(CMD_ITEMS)

Nothing ==
    [workflow |-> None, base |-> None, candidate |-> None, traceId |-> None, user |-> None]

HasVersions(s) == None \notin {s.workflow, s.base, s.candidate}

\* A missing name ends the path.
Below(first, name) == IF name = None THEN <<first>> ELSE <<first, name>>

ComparePathShort(s) == Below("workflows", s.workflow)

ComparePath(s) ==
    IF HasVersions(s) THEN <<"workflows", s.workflow, "compare", s.base, s.candidate>>
    ELSE Below("workflows", s.workflow)

stateToPath(view, s) ==
    CASE view \in Pages -> <<"extensions", view>>
      [] view = "overview" -> <<>>
      [] view = "workflows" -> Below("workflows", s.workflow)
      [] view = "compare" -> ComparePath(s)
      [] view = "trace" -> Below("traces", s.traceId)
      [] view = "usage" -> <<"usage">>
      [] view = "users" -> <<"clients">>
      [] view = "user" -> Below("clients", s.user)
      [] view = "keys" -> <<"api-keys">>
      [] view = "settings" -> <<"settings">>

At(view, s) == [view |-> view, selected |-> s]

\* The segment at i, or None past the end of the path.
Seg(path, i) == IF i \in DOMAIN path THEN path[i] ELSE None

\* None for a path that is not a view's.
pathToState(path) ==
    LET first == Seg(path, 1)
        second == Seg(path, 2)
        Compare == Seg(path, 3) = "compare" /\ None \notin {Seg(path, 4), Seg(path, 5)}
    IN  CASE path = <<>> -> At("overview", Nothing)
          [] first = "extensions" /\ second \in Pages -> At(second, Nothing)
          [] first = "workflows" /\ Compare ->
                At("compare", [Nothing EXCEPT !.workflow = second,
                                              !.base = path[4], !.candidate = path[5]])
          [] first = "workflows" /\ ~Compare ->
                At("workflows", [Nothing EXCEPT !.workflow = second])
          [] first = "traces" -> At("trace", [Nothing EXCEPT !.traceId = second])
          [] first = "usage" -> At("usage", Nothing)
          [] first \in {"clients", "users"} ->
                At(IF second = None THEN "users" ELSE "user", [Nothing EXCEPT !.user = second])
          [] first = "api-keys" -> At("keys", Nothing)
          [] first = "settings" -> At("settings", Nothing)
          [] OTHER -> None

\* What the main area renders, with a workspace: the component and its props.
Rendered(view, s) ==
    CASE view = "workflows" -> <<view, s.workflow>>
      [] view = "compare" ->
            IF HasVersions(s) THEN <<view, s.workflow, s.base, s.candidate>> ELSE <<view>>
      [] view = "trace" -> <<view, s.traceId>>
      [] view = "user" -> <<view, s.user>>
      [] OTHER -> <<view>>

--------------------------------------------------------------------------------

Entry(view, s) == [path |-> stateToPath(view, s), view |-> view, selected |-> s]

Foreign == [path |-> <<"login">>, view |-> None, selected |-> Nothing]

Here == page.hist[page.pos]

\* The palette before a query: it lists every item and highlights the first.
Palette(open) == [open |-> open, items |-> CMD_ITEMS, idx |-> 1]

\* The state of a dashboard that mounts showing nav, its first entry replaced.
Mounted(nav, hist, pos, stored) ==
    [name |-> "shell", view |-> nav.view, selected |-> nav.selected,
     hist |-> [hist EXCEPT ![pos] = Entry(nav.view, nav.selected)], pos |-> pos,
     stored |-> stored, intent |-> FALSE, palette |-> Palette(FALSE), strayed |-> FALSE]

\* A deep link wins, then the last view visited.
computeInitialNav(path, stored) ==
    IF pathToState(path) # None THEN pathToState(path) ELSE At(stored, Nothing)

\* The shell after signing in on /login, with or without an entry behind it.
ShellInit ==
    {Mounted(computeInitialNav(<<"login">>, "overview"), h, Len(h), "overview") :
        h \in {<<Foreign>>, <<Foreign, Foreign>>}}

MirroredPushing(p, view, s) ==
    [p EXCEPT !.view = view, !.selected = s, !.pos = p.pos + 1,
              !.hist = Append(SubSeq(p.hist, 1, p.pos), Entry(view, s))]

\* The effect that mirrors a view and a selection onto the history.
Mirrored(p, view, s) ==
    LET entry == Entry(view, s)
        shown == [p EXCEPT !.view = view, !.selected = s]
    IN  IF entry.path # p.hist[p.pos].path
        THEN [shown EXCEPT !.hist = Append(SubSeq(p.hist, 1, p.pos), entry), !.pos = p.pos + 1]
        ELSE [shown EXCEPT !.hist[p.pos] = entry]

\* setView, after a change of the selection: leaving the settings drops the
\* intent to create a workspace.
SetView(view, s) ==
    /\ ~page.palette.open
    /\ page.pos < MaxEntries
    /\ page' = [Mirrored(page, view, s) EXCEPT
                    !.stored = view, !.intent = @ /\ view = "settings"]

SidebarNavigate == \E v \in NAV_ITEMS : SetView(v, page.selected)

Without(s, names) == [n \in DOMAIN s |-> IF n \in names THEN None ELSE s[n]]

\* Where each crumb that is a button leads.
Breadcrumb(view, s) ==
    CASE view = "trace" -> {At("overview", s)}
      [] view = "workflows" /\ s.workflow # None -> {At(view, Without(s, {"workflow"}))}
      [] view = "compare" ->
            {At("workflows", Without(s, {"workflow", "base", "candidate"}))}
                \cup (IF s.workflow = None THEN {}
                      ELSE {At("workflows", Without(s, {"base", "candidate"}))})
      [] view = "user" -> {At("users", s)}
      [] view = "keys" -> {At("settings", s)}
      [] OTHER -> {}

ClickCrumb == \E c \in Breadcrumb(page.view, page.selected) : SetView(c.view, c.selected)

\* What the links of the pages open: a trace, a workflow, a client.
OpenTrace(t) == SetView("trace", [page.selected EXCEPT !.traceId = t])

OpenWorkflow(w) == SetView("workflows", [page.selected EXCEPT !.workflow = w])

OpenClient(c) == SetView("user", [page.selected EXCEPT !.user = c])

\* The example of a setup check, and an event of the activity feed.
ViewExample == page.view = "overview" /\ \E t \in Traces : OpenTrace(t)

SelectActivity == page.view = "overview" /\ \E t \in Traces : OpenTrace(t)

\* A run in the table of a workflow, and in the table of a client.
OpenRun ==
    /\ page.view = "workflows" /\ page.selected.workflow # None
    /\ \E t \in Traces : OpenTrace(t)

OpenClientRun ==
    /\ page.view = "user" /\ page.selected.user # None
    /\ \E t \in Traces : OpenTrace(t)

SelectTopWorkflow == page.view = "overview" /\ \E w \in Workflows : OpenWorkflow(w)

inspectOutlier == page.view = "overview" /\ \E w \in Workflows : OpenWorkflow(w)

\* "View workflows" beside the failures, which keeps the workflow selected
\* before, and the setup instructions of a workspace without data.
ViewWorkflows == page.view = "overview" /\ SetView("workflows", page.selected)

ViewInstructions == page.view = "overview" /\ SetView("settings", page.selected)

\* A row of the list of workflows, and of a client's workflows.
OpenListedWorkflow ==
    /\ page.view = "workflows" /\ page.selected.workflow = None
    /\ \E w \in Workflows : OpenWorkflow(w)

OpenClientWorkflow ==
    /\ page.view = "user" /\ page.selected.user # None
    /\ \E w \in Workflows : OpenWorkflow(w)

\* A row of the usage breakdown, a row of the clients, and the chip of a trace.
OpenSpender == page.view = "usage" /\ \E c \in Clients : OpenClient(c)

OpenClientRow == page.view = "users" /\ \E c \in Clients : OpenClient(c)

ClientChip ==
    /\ page.view = "trace" /\ page.selected.traceId # None
    /\ \E c \in Clients : OpenClient(c)

AllClients == page.view = "user" /\ SetView("users", page.selected)

\* The link to the workflows on a trace forgets the workflow.
LeaveTrace ==
    /\ page.view = "trace" /\ page.selected.traceId # None
    /\ SetView("workflows", Without(page.selected, {"workflow"}))

CompareVersions ==
    /\ page.view = "workflows" /\ page.selected.workflow # None
    /\ \E b, c \in Versions :
          b # c /\ SetView("compare", [page.selected EXCEPT !.base = b, !.candidate = c])

\* The picker of the compare page changes the selection and not the view.
PickVersions ==
    /\ page.view = "compare" /\ HasVersions(page.selected)
    /\ ~page.palette.open /\ page.pos < MaxEntries
    /\ \E b, c \in Versions :
          /\ b # c
          /\ page' = Mirrored(page, "compare", [page.selected EXCEPT !.base = b, !.candidate = c])

goCreateWorkspace ==
    /\ ~page.palette.open /\ page.pos < MaxEntries
    /\ page' = [Mirrored(page, "settings", page.selected) EXCEPT
                    !.stored = "settings", !.intent = TRUE]

CancelCreate ==
    /\ ~page.palette.open /\ page.view = "settings"
    /\ page' = [page EXCEPT !.intent = FALSE]

--------------------------------------------------------------------------------

\* The popstate listener, then the effect: an entry of the dashboard brings
\* its view back, another one only if its path is a view's.
OnPop(pos) ==
    LET moved == [page EXCEPT !.pos = pos]
        e == page.hist[pos]
        s == IF e.view # None THEN At(e.view, e.selected) ELSE pathToState(e.path)
    IN  /\ pos \in DOMAIN page.hist
        /\ page' = IF s = None THEN moved
                   ELSE [Mirrored(moved, s.view, s.selected) EXCEPT
                            !.stored = s.view, !.intent = @ /\ s.view = "settings"]

Back == OnPop(page.pos - 1)

Forward == OnPop(page.pos + 1)

\* strayed remembers, as history, a reload at a path of another page.
Reload ==
    LET nav == computeInitialNav(Here.path, page.stored)
    IN  page' = [Mounted(nav, page.hist, page.pos, page.stored) EXCEPT
                    !.strayed = page.strayed \/ Here.view = None]

--------------------------------------------------------------------------------

OpenPalette ==
    /\ ~page.palette.open
    /\ page' = [page EXCEPT !.palette = Palette(TRUE)]

TypeQueryKept ==
    /\ page.palette.open
    /\ \E m \in Matches : page' = [page EXCEPT !.palette.items = m]

\* The query selects some of the items and the first of them.
TypeQuery ==
    /\ page.palette.open
    /\ \E m \in Matches : page' = [page EXCEPT !.palette.idx = 1, !.palette.items = m]

Lesser(a, b) == IF a < b THEN a ELSE b

\* Positions count from 1: past the end of no items is 0.
ArrowDown ==
    /\ page.palette.open
    /\ page' = [page EXCEPT !.palette.idx = Lesser(@ + 1, Len(page.palette.items))]

ArrowUp ==
    /\ page.palette.open
    /\ page' = [page EXCEPT !.palette.idx = IF @ - 1 > 1 THEN @ - 1 ELSE 1]

\* The pointer enters an item.
Hover ==
    /\ page.palette.open
    /\ \E i \in DOMAIN page.palette.items : page' = [page EXCEPT !.palette.idx = i]

\* Enter, or a click, chooses the item at idx, if there is one, and closes the palette.
Choose ==
    /\ page.palette.open /\ page.pos < MaxEntries
    /\ LET closed == [page EXCEPT !.palette = Palette(FALSE)]
           v == Seg(page.palette.items, page.palette.idx)
       IN  page' = IF v = None THEN closed
                   ELSE [Mirrored(closed, v, page.selected) EXCEPT
                            !.stored = v, !.intent = @ /\ v = "settings"]

ClosePalette ==
    /\ page.palette.open
    /\ page' = [page EXCEPT !.palette = Palette(FALSE)]

ShellNext ==
    /\ On("shell")
    /\ \/ SidebarNavigate \/ ClickCrumb
       \/ ViewExample \/ SelectActivity \/ OpenRun \/ OpenClientRun
       \/ SelectTopWorkflow \/ inspectOutlier \/ ViewWorkflows \/ ViewInstructions
       \/ OpenListedWorkflow \/ OpenClientWorkflow
       \/ OpenSpender \/ OpenClientRow \/ ClientChip \/ AllClients
       \/ LeaveTrace \/ CompareVersions \/ PickVersions \/ goCreateWorkspace \/ CancelCreate
       \/ Back \/ Forward \/ Reload
       \/ OpenPalette \/ TypeQuery \/ ArrowDown \/ ArrowUp \/ Hover \/ Choose \/ ClosePalette

--------------------------------------------------------------------------------

\* Every view is known, and the palette highlights one of the items it lists,
\* or none when it lists none, however the query and the arrow keys alternate
\* (CommandPalette.tsx).
ShellTypeOK ==
    On("shell") =>
        /\ page.view \in Views /\ page.selected \in Selections
        /\ page.stored \in Views
        /\ page.pos \in DOMAIN page.hist
        /\ page.palette.items # <<>> => page.palette.idx \in DOMAIN page.palette.items
        /\ page.palette.idx \in 0..Len(CMD_ITEMS)

\* Back works (the comment on the history effect of Dashboard.tsx): the entry
\* at the cursor holds the view and the selection on the screen, each entry
\* is at the path of what it holds, and no two entries in a row are at one
\* path, so that no press of Back leaves the user where they were.  The last
\* is not promised once the dashboard is reloaded at a path of another page:
\* it then opens the last view in that entry, whatever is in the next one.
HistoryTellsView ==
    On("shell") =>
        /\ Here.view # None => Here = Entry(page.view, page.selected)
        /\ \A i \in DOMAIN page.hist :
              page.hist[i].view # None =>
                  page.hist[i] = Entry(page.hist[i].view, page.hist[i].selected)
        /\ ~page.strayed => \A i \in 2..Len(page.hist) :
              page.hist[i].view # None => page.hist[i].path # page.hist[i - 1].path

\* URLs are shareable (the same comment): opening the location in another tab
\* renders what is on the screen.  Two views have no URL of their own, the
\* compare page without versions and the client page without a client.
URLShareable ==
    On("shell") /\ Here.view # None
      /\ ~(page.view = "compare" /\ ~HasVersions(page.selected))
      /\ ~(page.view = "user" /\ page.selected.user = None)
        => LET nav == pathToState(Here.path)
           IN  Rendered(nav.view, nav.selected) = Rendered(page.view, page.selected)
================================================================================
