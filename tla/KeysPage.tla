-------------------------------- MODULE KeysPage -------------------------------
(***************************************************************************)
(* The page of a workspace's ingest keys: its list, the form that creates  *)
(* a key, the panel that shows the new token once, and the row that        *)
(* confirms a revocation.  The view is keyed by the workspace, the hook    *)
(* with its queries and mutations is not: a mutation still in flight after *)
(* a switch takes the options of the workspace that is then on the screen. *)
(***************************************************************************)
EXTENDS PageState, Naturals, Sequences

CONSTANTS
    KeyWorkspaces,    \* the workspaces of the switcher
    MaxKeys           \* bound: keys ever created, numbered in order

\* The calls that create and revoke a key; null is neither a key nor a call.
KeyCreates == [ws : KeyWorkspaces, key : Nat \cup {None}, here : BOOLEAN]

KeyRevokes == [ws : KeyWorkspaces, key : Nat, here : BOOLEAN, done : BOOLEAN]

ASSUME KeysAssumption == MaxKeys \in Nat /\ None \notin Nat \cup KeyCreates \cup KeyRevokes

\* The server starts with one key, in the workspace on the screen.
KeysInit ==
    {[name |-> "keys",
      ws |-> w,
      home |-> <<w>>,        \* server: the workspace of each key
      revoked |-> {},        \* server
      lists |-> [v \in KeyWorkspaces |->
                    IF v = w THEN Query!Ask(Query!Cold) ELSE Query!Cold],
      create |-> None,       \* createMutation, if pending, and whether its form is mounted
      revoke |-> None,       \* revokeMutation, if pending, likewise
      created |-> None,      \* the key whose token is shown
      target |-> None] :     \* revokeTarget
        w \in KeyWorkspaces}

\* What the list of w is on the server: its keys and those of them revoked.
ServerRows(p, w) ==
    LET keys == {k \in DOMAIN p.home : p.home[k] = w}
    IN  [keys |-> keys, revoked |-> keys \cap p.revoked]

Listed(p) ==
    IF p.lists[p.ws].rows = None \/ p.lists[p.ws].error THEN {} ELSE p.lists[p.ws].rows.keys

--------------------------------------------------------------------------------

Orphan(call) == IF call = None THEN None ELSE [call EXCEPT !.here = FALSE]

RemountedNot(p, w) ==
    [p EXCEPT !.ws = w, !.create = Orphan(@), !.revoke = Orphan(@)]

\* ApiKeysView mounts anew for w.
Remounted(p, w) ==
    [p EXCEPT !.ws = w, !.created = None, !.target = None,
              !.create = Orphan(@), !.revoke = Orphan(@)]

\* The list of the workspace switched to is fetched if there is none yet, or
\* if it is stale.
SwitchWorkspace ==
    \E w \in KeyWorkspaces \ {page.ws}, stale \in BOOLEAN :
        page' = [Remounted(page, w) EXCEPT
            !.lists[w] = IF @.rows = None \/ stale THEN Query!Ask(@) ELSE @]

\* The list on the screen goes stale.
RefetchKeys == page' = [page EXCEPT !.lists[page.ws] = Query!Ask(@)]

ServeKeys ==
    \E w \in KeyWorkspaces :
        /\ page.lists[w].step = "sent"
        /\ page' = [page EXCEPT !.lists[w] = Query!Serve(@, ServerRows(page, w))]

LandKeys ==
    \E w \in KeyWorkspaces :
        /\ page.lists[w].step = "served"
        /\ page' = [page EXCEPT !.lists[w] = Query!Land(@)]

FailKeys ==
    \E w \in KeyWorkspaces :
        /\ page.lists[w].step = "sent"
        /\ page' = [page EXCEPT !.lists[w] = Query!Fail(@)]

--------------------------------------------------------------------------------

\* handleCreate: not while another creation is pending.
SubmitKey ==
    /\ page.create = None /\ Len(page.home) < MaxKeys
    /\ page' = [page EXCEPT !.create = [ws |-> page.ws, key |-> None, here |-> TRUE]]

CreateKeyOnServer ==
    /\ page.create # None /\ page.create.key = None
    /\ page' = [page EXCEPT !.create.key = Len(page.home) + 1,
                            !.home = Append(@, page.create.ws)]

\* onSuccess of a mutation made in w refreshes the list of the workspace on
\* the screen.
Refreshed(p, w) ==
    LET told == [p EXCEPT !.lists[p.ws] = Query!Invalidate(@)]
    IN  IF w = p.ws THEN told ELSE [told EXCEPT !.lists[w] = Query!Miss(@)]

\* The token is shown by the view that asked, if it is still mounted.
KeyCreated ==
    /\ page.create # None /\ page.create.key # None
    /\ page' = [Refreshed(page, page.create.ws) EXCEPT
           !.create = None,
           !.created = IF page.create.here THEN page.create.key ELSE @]

\* The answer may be lost after the server has acted.
CreateKeyFails ==
    /\ page.create # None
    /\ page' = [page EXCEPT
           !.create = None,
           !.lists[page.create.ws] = IF page.create.key = None THEN @ ELSE Query!Miss(@)]

\* Done, I've stored it safely.
CloseReveal == page' = [page EXCEPT !.created = None]

--------------------------------------------------------------------------------

\* The bin of a row that is not revoked.
AskRevoke ==
    \E k \in Listed(page) \ {page.target} :
        /\ k \notin page.lists[page.ws].rows.revoked
        /\ page' = [page EXCEPT !.target = k]

CancelRevoke ==
    /\ page.revoke = None
    /\ page' = [page EXCEPT !.target = None]

\* handleRevoke: the buttons of the row are disabled while one is pending.
ConfirmRevoke ==
    /\ page.target \in Listed(page) /\ page.revoke = None
    /\ page' = [page EXCEPT !.revoke =
                   [ws |-> page.ws, key |-> page.target, here |-> TRUE, done |-> FALSE]]

RevokeOnServer ==
    /\ page.revoke # None /\ ~page.revoke.done
    /\ page' = [page EXCEPT !.revoke.done = TRUE, !.revoked = @ \cup {page.revoke.key}]

KeyRevoked ==
    /\ page.revoke # None /\ page.revoke.done
    /\ page' = [Refreshed(page, page.revoke.ws) EXCEPT
           !.revoke = None,
           !.target = IF page.revoke.here THEN None ELSE @]

RevokeFails ==
    /\ page.revoke # None
    /\ page' = [page EXCEPT
           !.revoke = None,
           !.lists[page.revoke.ws] = IF page.revoke.done THEN Query!Miss(@) ELSE @]

KeysNext ==
    /\ On("keys")
    /\ \/ SwitchWorkspace \/ RefetchKeys \/ ServeKeys \/ LandKeys \/ FailKeys
       \/ SubmitKey \/ CreateKeyOnServer \/ KeyCreated \/ CreateKeyFails \/ CloseReveal
       \/ AskRevoke \/ CancelRevoke \/ ConfirmRevoke
       \/ RevokeOnServer \/ KeyRevoked \/ RevokeFails

--------------------------------------------------------------------------------

\* With nothing in flight the list on the screen is the server's, unless an
\* answer was lost or arrived in another workspace than it was asked in.
KeysCatchUp ==
    On("keys") /\ Query!Settled(page.lists[page.ws]) /\ page.create = None /\ page.revoke = None
        => page.lists[page.ws].rows = ServerRows(page, page.ws)

\* The one-time token and the key to be revoked never carry over to another
\* workspace (the comment on LiveApiKeysPage), whatever is in flight when the
\* user switches there and back.
SecretsStayHome ==
    On("keys") => \A k \in {page.created, page.target} \ {None} : page.home[k] = page.ws
================================================================================
