----------------------------- MODULE WorkspaceMenu -----------------------------
(***************************************************************************)
(* The workspaces of the user: the list in the query cache, the switcher   *)
(* in the sidebar, the settings with the form that creates one, and the    *)
(* workspace the dashboard shows.  Creating and deleting write the cached  *)
(* list when they are answered; a refetch replaces it.  A creation may     *)
(* outlive the form that asked for it, and its answer then acts on the     *)
(* settings page that form was on.  Nobody else adds or removes the user's *)
(* workspaces.                                                             *)
(***************************************************************************)
EXTENDS PageState, Naturals, Sequences

CONSTANTS
    Joined,       \* how many workspaces there are before, numbered in their order
    Owned,        \* those of them the user owns
    MaxCreates    \* bound: how many the user asks for

\* A list of workspaces, with gaps, and the state of SettingsPage.
MenuLists == Seq(Nat \cup {None})

SettingsStates == [tab : {"workspace", "members"}, creating : BOOLEAN, createdId : Nat \cup {None}]

\* null is no workspace, no list and no state of a page.
ASSUME MenuAssumption ==
    /\ Joined \in Nat /\ MaxCreates \in Nat /\ Owned \subseteq 1..Joined
    /\ None \notin Nat \cup MenuLists \cup SettingsStates

Existing == [i \in 1..Joined |-> i]

Fresh == (Joined + 1)..(Joined + MaxCreates)

\* The user has joined some workspaces or none; the stored choice may be stale.
MenuInit ==
    {[name |-> "menu",
      exists |-> joined,         \* server
      query |-> Query!Ask(Query!Cold),
      chosen |-> c,              \* selectedWorkspaceId, and WORKSPACE_KEY
      settings |-> None,         \* the state of SettingsPage, if that is the view
      intent |-> FALSE,          \* createWsIntent
      pending |-> None,          \* the workspace that the form shown is creating
      made |-> 0,                \* how many of Fresh were asked for
      creates |-> [w \in {} |-> "sent"],    \* creations in flight
      mine |-> {},               \* those of them that the settings page shown asked for
      deletes |-> [w \in {} |-> "sent"],    \* deletions in flight
      wanted |-> None] :         \* history: the workspace the user last asked to see
        joined \in {Existing, <<>>}, c \in {None} \cup 1..Joined}

\* A list keeps a gap, None, in the place of a workspace filtered out of it:
\* its entries and their order are what the source's array has.
Entries(list) == {list[i] : i \in DOMAIN list} \ {None}

Struck(list, w) == [i \in DOMAIN list |-> IF list[i] = w THEN None ELSE list[i]]

FirstOf(list) ==
    list[CHOOSE i \in DOMAIN list :
            list[i] # None /\ \A j \in DOMAIN list : list[j] # None => i <= j]

Workspaces(p) == IF p.query.rows = None THEN <<>> ELSE p.query.rows

\* The workspace the dashboard shows.
workspace(p) ==
    LET listed == Entries(Workspaces(p))
    IN  CASE p.chosen \in listed -> p.chosen
          [] p.chosen \notin listed /\ listed # {} -> FirstOf(Workspaces(p))
          [] OTHER -> None

Bind(f, w, step) == [v \in DOMAIN f \cup {w} |-> IF v = w THEN step ELSE f[v]]

Unbind(f, w) == [v \in DOMAIN f \ {w} |-> f[v]]

--------------------------------------------------------------------------------

\* The list goes stale, or a change of the members invalidates it.
Refetch == page' = [page EXCEPT !.query = Query!Ask(@)]

RestartFetch == page' = [page EXCEPT !.query = Query!Invalidate(@)]

ServeMenu ==
    /\ page.query.step = "sent"
    /\ page' = [page EXCEPT !.query = Query!Serve(@, page.exists)]

LandMenu ==
    /\ page.query.step = "served"
    /\ page' = [page EXCEPT !.query = Query!Land(@)]

FailMenu ==
    /\ page.query.step = "sent"
    /\ page' = [page EXCEPT !.query = Query!Fail(@)]

--------------------------------------------------------------------------------

\* A row of the open switcher, which closes.
setWorkspace ==
    \E w \in Entries(Workspaces(page)) :
        page' = [page EXCEPT !.chosen = w,
                             !.wanted = IF w \in Entries(page.exists) THEN w ELSE None]

\* The bin of an owner's row, confirmed.  The switcher stays open.
DeleteWorkspace ==
    \E w \in Entries(Workspaces(page)) \ DOMAIN page.deletes :
        /\ w \in Owned \cup Fresh
        /\ page' = [page EXCEPT !.deletes = Bind(@, w, "sent")]

\* The server removes it, or refuses because it is gone.
RemoveOnServer ==
    \E w \in DOMAIN page.deletes :
        /\ page.deletes[w] = "sent"
        /\ page' = [page EXCEPT
               !.exists = Struck(@, w),
               !.wanted = IF @ = w THEN None ELSE @,
               !.deletes[w] = IF w \in Entries(page.exists) THEN "done" ELSE "refused"]

FilteredNot(rows, w) == rows

\* The cached list without w: an empty list if there was none.
Filtered(rows, w) == IF rows = None THEN <<>> ELSE Struck(rows, w)

\* History: an answer on its way that is wrong about w will undo the change.
Overtaken(q, w, there) == q.late \/ (q.step = "served" /\ (w \in Entries(q.answer)) # there)

\* deleteMutation.onSuccess.
Deleted ==
    \E w \in DOMAIN page.deletes :
        /\ page.deletes[w] = "done"
        /\ page' = [page EXCEPT !.deletes = Unbind(@, w),
                                !.query.rows = Filtered(@, w), !.query.error = FALSE,
                                !.query.late = Overtaken(page.query, w, FALSE)]

\* The alert: the workspace stays in the list, although the server may have
\* removed it before the answer was lost.
DeleteFails ==
    \E w \in DOMAIN page.deletes :
        page' = [page EXCEPT !.deletes = Unbind(@, w),
                             !.query = IF page.deletes[w] = "done" THEN Query!Miss(@) ELSE @]

--------------------------------------------------------------------------------

\* SettingsPage mounts, or is told to create: prevCreateMode follows createMode.
SettingsOpen(creating) == [tab |-> "workspace", creating |-> creating, createdId |-> None]

FormShown(p) == p.settings # None /\ p.settings.creating

\* "Create workspace" in the switcher.  The page that already has the intent
\* renders again without a change.
goCreate ==
    page' = [page EXCEPT !.intent = TRUE, !.settings = IF page.intent THEN @ ELSE SettingsOpen(TRUE)]

\* The button that takes the place of the pages without a workspace.
WorkspaceEmptyState ==
    /\ page.settings = None /\ workspace(page) = None
    /\ page.query.rows # None /\ ~page.query.error
    /\ page' = [page EXCEPT !.intent = TRUE, !.settings = SettingsOpen(TRUE)]

OpenSettings ==
    /\ page.settings = None
    /\ page' = [page EXCEPT !.settings = SettingsOpen(FALSE)]

\* "Create API key", "Go to overview" or any other view.  Creations run on, and
\* nothing is left of the page that asked for them.
LeaveSettings ==
    /\ page.settings # None
    /\ page' = [page EXCEPT !.settings = None, !.intent = FALSE, !.pending = None, !.mine = {}]

\* The form unmounts, if it was shown.
selectTab ==
    /\ page.settings # None
    /\ \E t \in {"workspace", "members"} :
          page' = [page EXCEPT !.settings.tab = t, !.settings.creating = FALSE,
                               !.intent = FALSE, !.pending = None]

\* The button below the connection instructions.
CreateAnother ==
    /\ page.settings # None /\ page.settings.tab = "workspace" /\ ~FormShown(page)
    /\ page' = [page EXCEPT !.settings = SettingsOpen(TRUE)]

\* onCancel, of a button that is disabled while the form is pending.
CancelForm ==
    /\ FormShown(page) /\ page.pending = None
    /\ page' = [page EXCEPT !.settings.creating = FALSE, !.intent = FALSE]

SubmitForm ==
    /\ FormShown(page) /\ page.pending = None /\ page.made < MaxCreates
    /\ LET w == Joined + page.made + 1
       IN  page' = [page EXCEPT !.made = @ + 1, !.pending = w, !.creates = Bind(@, w, "sent"),
                                !.mine = @ \cup {w}]

CreateOnServer ==
    \E w \in DOMAIN page.creates :
        /\ page.creates[w] = "sent"
        /\ page' = [page EXCEPT !.exists = Append(@, w), !.creates[w] = "done"]

AppendedUnchosen(p, w) ==
    [p EXCEPT !.query.rows = Append(Workspaces(p), w), !.query.error = FALSE]

\* createMutation.onSuccess and then createWorkspace of the dashboard.
Appended(p, w) ==
    [p EXCEPT !.query.rows = Append(Workspaces(p), w), !.query.error = FALSE, !.chosen = w]

\* The settings page that asked, if it is still there, moves to the connection
\* instructions of the new workspace, and closes its form: also one that the
\* user opened since.
Created ==
    \E w \in DOMAIN page.creates :
        /\ page.creates[w] = "done"
        /\ page' = [Appended(page, w) EXCEPT
               !.creates = Unbind(@, w),
               !.mine = @ \ {w},
               !.query.late = Overtaken(page.query, w, TRUE),
               !.query.behind = @ \/ w \notin Entries(page.exists),
               !.intent = FALSE,
               !.settings = IF w \in page.mine
                            THEN [tab |-> "workspace", creating |-> FALSE, createdId |-> w] ELSE @,
               !.pending = IF w \in page.mine THEN None ELSE @,
               !.wanted = IF w \in Entries(page.exists) THEN w ELSE None]

\* The form shows the error; the server may have created the workspace.
CreateFails ==
    \E w \in DOMAIN page.creates :
        page' = [page EXCEPT
            !.creates = Unbind(@, w),
            !.mine = @ \ {w},
            !.pending = IF @ = w THEN None ELSE @,
            !.query = IF page.creates[w] = "done" THEN Query!Miss(@) ELSE @]

MenuNext ==
    /\ On("menu")
    /\ \/ Refetch \/ RestartFetch \/ ServeMenu \/ LandMenu \/ FailMenu
       \/ setWorkspace \/ DeleteWorkspace \/ RemoveOnServer \/ Deleted \/ DeleteFails
       \/ goCreate \/ WorkspaceEmptyState \/ OpenSettings \/ LeaveSettings \/ selectTab
       \/ CreateAnother \/ CancelForm \/ SubmitForm \/ CreateOnServer \/ Created \/ CreateFails

--------------------------------------------------------------------------------

\* The list is of known workspaces, and a form waits only for a creation that
\* is in flight.
MenuTypeOK ==
    On("menu") =>
        /\ Entries(Workspaces(page)) \cup Entries(page.exists) \subseteq 1..(Joined + MaxCreates)
        /\ page.chosen \in {None} \cup 1..(Joined + MaxCreates)
        /\ page.pending # None => FormShown(page) /\ page.pending \in page.mine
        /\ page.mine \subseteq DOMAIN page.creates

\* With nothing in flight the switcher lists the workspaces the server has,
\* unless an answer was lost or an older list overtook a change; the next
\* fetch repairs that (useWorkspaces.ts).
MenuCatchesUp ==
    On("menu") /\ Query!Settled(page.query) /\ DOMAIN page.creates = {} /\ DOMAIN page.deletes = {}
        => Entries(Workspaces(page)) = Entries(page.exists)

\* The workspace that the user last chose or created is the one shown, until
\* it is deleted (Dashboard.tsx, selectWorkspace and createWorkspace), unless
\* the list is behind in one of these ways; and a user who asked for a new
\* workspace has the form before them, whichever creations are answered
\* meanwhile.
ChosenIsShown ==
    On("menu") =>
        /\ page.wanted # None /\ ~page.query.behind => workspace(page) = page.wanted
        /\ page.intent => FormShown(page)
================================================================================
