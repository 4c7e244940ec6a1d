---------------------------- MODULE BrowserSession ----------------------------
(***************************************************************************)
(* A browser tab of the dashboard and the sessions of the API: signing in, *)
(* up and out, changing the password, accepting an invite, and the queries *)
(* of the dashboard, each a request that the server handles in its own     *)
(* time and whose answer is applied when it arrives, wherever the user has *)
(* gone since.                                                             *)
(*                                                                         *)
(* A password is the number of times it was set: 0 is an account that does *)
(* not exist, and every change makes a new hash and so a new stamp.  A     *)
(* token also remembers, as history, the password its holder proved.  The  *)
(* expiry of a token has the effect of a change elsewhere and is left out. *)
(* Sign-out unmounts QueryProvider, which clears the query cache and       *)
(* forgets the fetches in flight; other calls run on.                      *)
(***************************************************************************)
EXTENDS Integers, FiniteSets, FiniteSetsExt

CONSTANTS
    Users,
    Workspaces,     \* a set of numbers, in the order of the list
    Guest,          \* the user the pending invite is for
    Offered,        \* the workspace it is for
    None,
    MaxFetches,     \* bound: queries in flight
    MaxPassword,    \* bound: how often a password is set
    MaxCalls        \* bound: calls the tab sends, of each kind one at a time

ASSUME SessionAssumption ==
    /\ Guest \in Users
    /\ Workspaces \subseteq Nat \ {0} /\ IsFiniteSet(Workspaces)
    /\ Offered \in Workspaces
    /\ None \notin Users \cup Workspaces
    /\ MaxPassword \in Nat \ {0}
    /\ {MaxCalls, MaxFetches} \subseteq Nat

VARIABLES
    password,    \* server: the current password of each account
    members,     \* server: the members of each workspace
    token,       \* TOKEN_KEY, and the state of App
    email,       \* EMAIL_KEY
    saved,       \* WORKSPACE_KEY
    invite,      \* INVITE_KEY, and the state of App: an invite is pending
    view,        \* the page on the screen
    selected,    \* the state selectedWorkspaceId of Dashboard
    list,        \* query cache: the workspaces and who fetched them
    stats,       \* query cache: what the overview of a workspace shows
    fetches,     \* queries in flight
    calls,       \* other calls in flight
    sent,        \* how many there have been
    held,        \* history: whose tokens the tab held since it was signed out
    joined,      \* history: the workspace an accepted invite should open
    asked        \* history: the user asked for the last sign-out

server == <<password, members>>
storage == <<token, email, saved, invite>>
cache == <<list, stats, fetches>>
history == <<held, joined, asked>>
vars == <<server, storage, view, selected, cache, calls, sent, history>>

Passwords == 1..MaxPassword
Tokens == [user : Users, stamp : Passwords, proved : Passwords]
Keys == {0} \cup Workspaces    \* the query keys: 0 is the list
Dashboard == {"overview", "settings"}
Calls == {"login", "signup", "password", "accept"}

ASSUME NoneAssumption == None \notin Tokens

\* Authenticate accepts the token t.
Live(t) == t.stamp = password[t.user]

\* The workspace Dashboard shows: the selected one, else the first.
Shown ==
    IF list = None \/ list.workspaces = {} THEN None
    ELSE IF selected \in list.workspaces THEN selected
    ELSE Min(list.workspaces)

NoFetches == [k \in Keys |-> None]
NoStats == [w \in Workspaces |-> None]

Init ==
    /\ password \in [Users -> {0, 1}]
    /\ \A u \in Users \ {Guest} : password[u] = 1
    /\ members = [w \in Workspaces |->
                     {u \in Users : w # Offered /\ password[u] = 1}]
    /\ token = None
    /\ email = None
    /\ saved = None
    /\ invite = FALSE
    /\ view = "login"
    /\ selected = None
    /\ list = None
    /\ stats = NoStats
    /\ fetches = NoFetches
    /\ calls = [c \in Calls |-> None]
    /\ sent = 0
    /\ held = {}
    /\ joined = None
    /\ asked = FALSE
-----------------------------------------------------------------------------
(***************************************************************************)
(* Sessions in the tab.                                                    *)
(***************************************************************************)

\* Dashboard is mounted at the view v, with w in WORKSPACE_KEY.
Mount(v, w) ==
    /\ view' = v
    /\ selected' = w

\* Mutant of HandleLogin: the session is stored and App is not told.
HandleLoginStored(t, e) ==
    /\ token' = t
    /\ email' = e
    /\ held' = held \cup {t.user}
    /\ asked' = FALSE
    /\ joined' = None
    /\ UNCHANGED <<invite, cache, view, selected, saved>>

\* handleLogin: the session t of the account e is stored, and App shows the
\* invite, or the dashboard at the page its address, the stashed deep link or
\* the last visit asks for.  A dashboard that is already
\* mounted stays as it is.
HandleLogin(t, e) ==
    /\ token' = t
    /\ email' = e
    /\ held' = held \cup {t.user}
    /\ asked' = FALSE
    /\ joined' = IF token # None /\ token.user = t.user THEN joined ELSE None
    /\ IF token # None
       THEN UNCHANGED <<view, selected, saved>>
       ELSE /\ UNCHANGED saved
            /\ IF invite THEN view' = "invite" /\ UNCHANGED selected
                         ELSE \E v \in Dashboard : Mount(v, saved)
    /\ UNCHANGED <<invite, cache>>

\* Mutant of HandleLogout: the query cache survives sign-out.
HandleLogoutCached(v, byUser) ==
    /\ token' = None
    /\ email' = None
    /\ saved' = None
    /\ view' = v
    /\ selected' = None
    /\ held' = {}
    /\ joined' = None
    /\ asked' = byUser
    /\ UNCHANGED <<invite, cache>>

\* Mutant of HandleLogout: the pending invite goes with the session.
HandleLogoutInvite(v, byUser) ==
    /\ token' = None
    /\ email' = None
    /\ saved' = None
    /\ invite' = FALSE
    /\ view' = "login"
    /\ selected' = None
    /\ list' = None
    /\ stats' = NoStats
    /\ fetches' = NoFetches
    /\ held' = {}
    /\ joined' = None
    /\ asked' = byUser

\* handleLogout, with the page v to follow.
HandleLogout(v, byUser) ==
    /\ token' = None
    /\ email' = None
    /\ saved' = None
    /\ view' = v
    /\ selected' = None
    /\ list' = None
    /\ stats' = NoStats
    /\ fetches' = NoFetches
    /\ held' = {}
    /\ joined' = None
    /\ asked' = byUser
    /\ UNCHANGED invite

\* The user signs out, of the dashboard or of an invite for someone else.
SignOut ==
    /\ token # None
    /\ view = "invite" => email # Guest
    /\ HandleLogout(IF view = "invite" THEN "invite" ELSE "login", TRUE)
    /\ UNCHANGED <<server, calls, sent>>

\* The visitor goes to another of the pages that need no session.
Visit(v) ==
    /\ token = None
    /\ v # view
    /\ v = "invite" => invite
    /\ view' = v
    /\ UNCHANGED <<server, storage, selected, cache, calls, sent, history>>

\* The user goes to another page of the dashboard.
SetView(v) ==
    /\ view \in Dashboard \ {v}
    /\ view' = v
    /\ UNCHANGED <<server, token, email, saved, invite, selected, cache, calls,
                   sent, history>>

SelectWorkspace(w) ==
    /\ view \in Dashboard
    /\ list # None
    /\ w \in list.workspaces \ {Shown}
    /\ selected' = w
    /\ saved' = w
    /\ joined' = None
    /\ UNCHANGED <<server, token, email, invite, view, cache, calls, sent, held, asked>>

\* What becomes of the call c when nobody waits for it: only the server knows
\* of it, and a login changes nothing there.
Abandoned(c) ==
    IF calls[c] = None \/ c = "login" \/ calls[c].step \notin {"sent", "checked"}
    THEN None
    ELSE [calls[c] EXCEPT !.awaited = FALSE]

\* The tab is loaded anew, at its own address or, when invited, at that of the
\* invite: what is not in storage is gone, and nobody waits for the calls.
Load(invited) ==
    /\ invited => ~invite
    /\ invite' = (invite \/ invited)
    /\ view' = IF invited THEN "invite" ELSE view
    /\ selected' = IF token = None THEN None ELSE saved
    /\ list' = None
    /\ stats' = NoStats
    /\ fetches' = NoFetches
    /\ calls' = [c \in Calls |-> Abandoned(c)]
    /\ held' = IF token = None THEN {} ELSE {token.user}
    /\ UNCHANGED <<server, token, email, saved, sent, joined, asked>>
-----------------------------------------------------------------------------
(***************************************************************************)
(* Queries of the dashboard.                                               *)
(***************************************************************************)

\* A query with the key k is sent: the list at any time, the overview of the
\* workspace that is shown while it is open (it polls).
Fetch(k) ==
    /\ view \in Dashboard
    /\ fetches[k] = None
    /\ Cardinality({q \in Keys : fetches[q] # None}) < MaxFetches
    /\ k # 0 => view = "overview" /\ k = Shown
    /\ fetches' = [fetches EXCEPT ![k] =
                      [token |-> token, scope |-> k, answer |-> "none",
                       rows |-> {}]]
    /\ UNCHANGED <<server, storage, view, selected, list, stats, calls, sent, history>>

\* The server handles the query k.
Serve(k) ==
    /\ fetches[k] # None
    /\ fetches[k].answer = "none"
    /\ LET t == fetches[k].token
       IN  fetches' = [fetches EXCEPT
              ![k].answer = IF Live(t) THEN "ok" ELSE "unauthorized",
              ![k].rows = {w \in Workspaces :
                              k = 0 /\ Live(t) /\ t.user \in members[w]}]
    /\ UNCHANGED <<server, storage, view, selected, list, stats, calls, sent, history>>

\* Mutant of Unavailable: the middleware answers an outage with a 401.
UnavailableRefusing(k) ==
    /\ fetches[k] # None
    /\ fetches[k].answer = "none"
    /\ fetches' = [fetches EXCEPT ![k].answer = "unauthorized"]
    /\ UNCHANGED <<server, storage, view, selected, list, stats, calls, sent, history>>

\* The server cannot read its users, or the network fails: the query fails with
\* an error that is not a 401.
Unavailable(k) ==
    /\ fetches[k] # None
    /\ fetches[k].answer = "none"
    /\ fetches' = [fetches EXCEPT ![k] = None]
    /\ UNCHANGED <<server, storage, view, selected, list, stats, calls, sent, history>>

\* Mutant of Answer: a 401 is an error like any other.
AnswerUnhandled(k) ==
    /\ fetches[k] # None
    /\ fetches[k].answer # "none"
    /\ fetches' = [fetches EXCEPT ![k] = None]
    /\ list' = IF k = 0 /\ fetches[k].answer = "ok"
               THEN [user |-> fetches[k].token.user, workspaces |-> fetches[k].rows]
               ELSE list
    /\ UNCHANGED <<stats, storage, view, selected, history>>
    /\ UNCHANGED <<server, calls, sent>>

\* The answer to the query k arrives; a 401 ends the session.
Answer(k) ==
    /\ fetches[k] # None
    /\ \/ /\ fetches[k].answer = "ok"
          /\ fetches' = [fetches EXCEPT ![k] = None]
          /\ IF k = 0
             THEN /\ list' = [user |-> fetches[k].token.user,
                              workspaces |-> fetches[k].rows]
                  /\ UNCHANGED stats
             ELSE /\ stats' = [stats EXCEPT ![k] =
                                  [user |-> fetches[k].token.user,
                                   scope |-> fetches[k].scope]]
                  /\ UNCHANGED list
          /\ UNCHANGED <<storage, view, selected, history>>
       \/ /\ fetches[k].answer = "unauthorized"
          /\ HandleLogout("login", FALSE)
    /\ UNCHANGED <<server, calls, sent>>
-----------------------------------------------------------------------------
(***************************************************************************)
(* Calls: signing in and up, the change of password, the invite.           *)
(***************************************************************************)

Send(c, u, t, p) ==
    /\ calls[c] = None
    /\ sent < MaxCalls
    /\ sent' = sent + 1
    /\ calls' = [calls EXCEPT ![c] =
                    [user |-> u, token |-> t, typed |-> p, step |-> "sent",
                     given |-> None, awaited |-> TRUE]]
    /\ UNCHANGED <<server, storage, view, selected, cache, history>>

\* The form of LoginPage or SignupPage is submitted.
SubmitLogin(u, p) == view = "login" /\ Send("login", u, None, p)
SubmitSignup(u) == view = "signup" /\ Send("signup", u, None, 1)

\* ChangePasswordField is submitted with the current password p.
SubmitPassword(p) ==
    /\ view = "settings"
    /\ Send("password", token.user, token, p)

\* The invite is accepted, by an account that the tab takes to be its guest.
SubmitAccept ==
    /\ view = "invite"
    /\ token # None
    /\ email = Guest
    /\ Send("accept", token.user, token, 1)

\* The call c moves on in the server, and may be granted a token.
Move(c, step, given) ==
    calls' = [calls EXCEPT ![c].step = step, ![c].given = given]

In(c, step) == calls[c] # None /\ calls[c].step = step

\* Login and ChangePassword read the user and check the password against the
\* hash; the middleware has authenticated the token of a change.
Check(c) ==
    /\ c \in {"login", "password"}
    /\ In(c, "sent")
    /\ LET r == calls[c]
       IN  IF (c = "password" => Live(r.token)) /\ r.typed = password[r.user]
           THEN Move(c, "checked", None)
           ELSE Move(c, "refused", None)
    /\ UNCHANGED <<server, storage, view, selected, cache, sent, history>>

\* Mutant of IssueLogin: the hash is read again for the stamp.
IssueLoginReread ==
    /\ In("login", "checked")
    /\ LET r == calls["login"]
       IN  Move("login", "granted",
                [user |-> r.user, stamp |-> password[r.user], proved |-> r.typed])
    /\ UNCHANGED <<server, storage, view, selected, cache, sent, history>>

\* Login issues a token with the stamp of the hash it read.
IssueLogin ==
    /\ In("login", "checked")
    /\ LET r == calls["login"]
       IN  Move("login", "granted",
                [user |-> r.user, stamp |-> r.typed, proved |-> r.typed])
    /\ UNCHANGED <<server, storage, view, selected, cache, sent, history>>

\* ChangePassword writes the new hash and issues a token with its stamp.
WritePassword ==
    /\ In("password", "checked")
    /\ LET u == calls["password"].user
           new == password[u] + 1
       IN  /\ new \in Passwords
           /\ password' = [password EXCEPT ![u] = new]
           /\ Move("password", "granted",
                   [user |-> u, stamp |-> new, proved |-> new])
    /\ UNCHANGED <<members, storage, view, selected, cache, sent, history>>

\* Register creates the account and issues its token, or withholds it until the
\* address is confirmed.
Register ==
    /\ In("signup", "sent")
    /\ LET u == calls["signup"].user
       IN  IF password[u] # 0
           THEN Move("signup", "refused", None) /\ UNCHANGED password
           ELSE /\ password' = [password EXCEPT ![u] = 1]
                /\ \/ Move("signup", "granted",
                           [user |-> u, stamp |-> 1, proved |-> 1])
                   \/ Move("signup", "confirm", None)
    /\ UNCHANGED <<members, storage, view, selected, cache, sent, history>>

\* AcceptInvite adds the guest to the workspace, once.
AcceptInvite ==
    /\ In("accept", "sent")
    /\ LET r == calls["accept"]
       IN  IF Live(r.token) /\ r.user = Guest /\ Guest \notin members[Offered]
           THEN /\ members' = [members EXCEPT ![Offered] = @ \cup {Guest}]
                /\ Move("accept", "granted", None)
           ELSE Move("accept", "refused", None) /\ UNCHANGED members
    /\ UNCHANGED <<password, storage, view, selected, cache, sent, history>>

\* The password of an account is changed on another device or by an operator.
ChangeElsewhere(u) ==
    /\ password[u] \in 1..(MaxPassword - 1)
    /\ password' = [password EXCEPT ![u] = @ + 1]
    /\ UNCHANGED <<members, storage, view, selected, cache, calls, sent, history>>

\* The call c is over for the tab: it failed on the way, it was refused, which
\* the form says and nothing else, or nobody waits for it.
Over(c) ==
    /\ calls[c] # None
    /\ \/ calls[c].step = "sent"
       \/ calls[c].step \in {"refused", "confirm"}
       \/ calls[c].step = "granted" /\ ~calls[c].awaited
    /\ calls' = [calls EXCEPT ![c] = None]
    /\ UNCHANGED <<server, storage, view, selected, cache, sent, history>>

\* The tab gives up waiting for the call c, which goes on in the server.
Timeout(c) ==
    /\ calls[c] # None
    /\ calls[c].awaited
    /\ calls' = [calls EXCEPT ![c] = Abandoned(c)]
    /\ UNCHANGED <<server, storage, view, selected, cache, sent, history>>

\* A token arrives: onLogin stores it with the address typed, onSessionRenewed
\* with the address in storage.
Arrived(c) ==
    /\ c # "accept"
    /\ In(c, "granted")
    /\ calls[c].awaited
    /\ HandleLogin(calls[c].given,
                   IF c = "password" THEN email ELSE calls[c].user)
    /\ calls' = [calls EXCEPT ![c] = None]
    /\ UNCHANGED <<server, sent>>

\* Mutant of Accepted: the workspace is not remembered.
AcceptedForgotten ==
    /\ In("accept", "granted")
    /\ calls["accept"].awaited
    /\ view = "invite" /\ token # None
    /\ invite' = FALSE
    /\ Mount("overview", saved)
    /\ joined' = IF token.user = calls["accept"].user THEN Offered ELSE joined
    /\ calls' = [calls EXCEPT !["accept"] = None]
    /\ UNCHANGED <<server, token, email, saved, cache, sent, held, asked>>

\* The invite is accepted: its workspace is remembered and App leaves it.
Accepted ==
    /\ In("accept", "granted")
    /\ calls["accept"].awaited
    /\ saved' = Offered
    /\ invite' = FALSE
    /\ IF view # "invite" THEN UNCHANGED <<view, selected>>
       ELSE IF token = None THEN view' = "login" /\ UNCHANGED selected
       ELSE Mount("overview", Offered)
    /\ joined' = IF /\ view = "invite" /\ token # None
                    /\ token.user = calls["accept"].user
                 THEN Offered ELSE joined
    /\ calls' = [calls EXCEPT !["accept"] = None]
    /\ UNCHANGED <<server, token, email, cache, sent, held, asked>>

\* The invite is dismissed.
Dismiss ==
    /\ view = "invite"
    /\ invite' = FALSE
    /\ IF token # None
       THEN Mount("overview", saved)
       ELSE view' = "login" /\ UNCHANGED selected
    /\ UNCHANGED <<server, token, email, saved, cache, calls, sent, history>>

Next ==
    \/ SignOut \/ Accepted \/ Dismiss
    \/ \E v \in {"login", "signup", "invite"} : Visit(v)
    \/ \E v \in Dashboard : SetView(v)
    \/ \E w \in Workspaces : SelectWorkspace(w)
    \/ \E invited \in BOOLEAN : Load(invited)
    \/ \E k \in Keys : Fetch(k) \/ Serve(k) \/ Unavailable(k) \/ Answer(k)
    \/ \E u \in Users :
          \/ SubmitSignup(u) \/ ChangeElsewhere(u)
          \/ \E p \in Passwords : SubmitLogin(u, p)
    \/ \E p \in Passwords : SubmitPassword(p)
    \/ SubmitAccept
    \/ IssueLogin \/ WritePassword \/ Register \/ AcceptInvite
    \/ \E c \in Calls : Check(c) \/ Over(c) \/ Timeout(c) \/ Arrived(c)

Spec == Init /\ [][Next]_vars

\* The open overview polls, answers arrive and are applied, and a server that is
\* asked again and again answers at last.
Fairness ==
    /\ WF_vars(\E w \in Workspaces : Fetch(w))
    /\ SF_vars(\E w \in Workspaces : Serve(w))
    /\ WF_vars(\E w \in Workspaces : Answer(w))

FairSpec == Spec /\ Fairness
-----------------------------------------------------------------------------
TypeOK ==
    /\ password \in [Users -> 0..MaxPassword]
    /\ members \in [Workspaces -> SUBSET Users]
    /\ token \in Tokens \cup {None}
    /\ email \in Users \cup {None}
    /\ {saved, selected, joined} \subseteq Workspaces \cup {None}
    /\ invite \in BOOLEAN
    /\ view \in (IF token = None THEN {"login", "signup"} ELSE Dashboard) \cup {"invite"}
    /\ view = "invite" => invite
    /\ DOMAIN calls = Calls
    /\ held \subseteq Users
    /\ asked \in BOOLEAN

\* Sign-out leaves nothing behind: what the query cache holds was fetched with a
\* token the tab has had since it was last signed out, and is of the workspace
\* it is kept for.
SittingsApart ==
    /\ list # None => list.user \in held
    /\ \A w \in Workspaces :
          stats[w] # None => stats[w].user \in held /\ stats[w].scope = w

\* A token that the API accepts was given to someone who proved or chose the
\* password the account has now: a change of password ends every session, those
\* being issued when it happens included.
SessionsProvePassword ==
    token # None /\ Live(token) => token.proved = password[token.user]

\* An invite that is accepted opens its workspace, once the list is there.
JoinedOpens == joined # None /\ list # None => Shown = joined

\* Nothing but sign-out ends a session whose token is good and whose requests
\* are the only ones in flight: neither an outage nor a wrong current password.
LiveSessionStays ==
    [][/\ token # None /\ Live(token)
       /\ \A k \in Keys : fetches[k] # None => fetches[k].token = token
       /\ ~asked'
       => token' # None]_vars

\* A pending invite survives signing in, up and out and a reload: it is given up
\* when it is dismissed or its guest has joined.
InviteHeld == [][invite /\ ~invite' => Dismiss \/ Guest \in members[Offered]]_vars

\* A tab on the overview does not stay there with a dead session.
DeadSessionEnds ==
    []<>~(view = "overview" /\ Shown # None /\ ~Live(token))

\* storeSession keeps the token and its matching email together, on every path
\* that signs in.
TokenMatchesEmail == token # None => email = token.user
=============================================================================
